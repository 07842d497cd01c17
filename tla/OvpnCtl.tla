------------------------------ MODULE OvpnCtl ------------------------------
(***************************************************************************)
(* The openvpn supervisor (crates/sniffbox/src/ovpn_ctl.rs).  A monitor    *)
(* thread starts openvpn, restarts it when its process or its device tun114 *)
(* is gone or its configuration file was written, and keeps the readiness   *)
(* gate the outbounds look at.  At shutdown another thread runs `kill`,     *)
(* possibly in the middle of a tick.  The mutex `inner` is held while a     *)
(* process is waited for, and released between the halves of cold_restart.  *)
(***************************************************************************)
EXTENDS Integers

CONSTANTS
  Pids,          \* process ids openvpn can get
  None,          \* no pid, no device, no holder of the mutex
  MaxRestarts,   \* MAX_RESTARTS_PER_CYCLE
  MaxWrites,     \* bound: writes of the configuration file
  MaxFaults      \* bound: crashes, lost devices, failed spawns, slow processes

ASSUME OvpnConstants ==
  /\ None \notin Pids \cup {"mon", "kill"}
  /\ MaxRestarts \in Nat /\ MaxWrites \in Nat /\ MaxFaults \in Nat

VARIABLES
  procs,      \* live openvpn processes, as proc_is_ovpn sees them
  dying,      \* those of them that were sent SIGTERM
  loaded,     \* the configuration each process has read; 0: none yet
  tun,        \* the process whose tun114 exists
  file,       \* mtime of paopao.ovpn; 0: there is no file
  pid,        \* Inner.pid
  mtime,      \* Inner.config_mtime; 0: none
  lock,       \* holder of the mutex
  victim,     \* the process kill_locked waits for
  stopping,   \* the latch
  gate,       \* tun_ready
  mon,        \* the monitor: where it is, restarts left in this cycle,
              \* whether it restarts for a new configuration, health it read
  killer,     \* where the shutting-down thread is
  unseen,     \* a written configuration was taken for the loaded one
  faults

world == <<procs, dying, loaded, tun, file>>
vars == <<world, pid, mtime, lock, victim, stopping, gate, mon, killer, unseen, faults>>

MonPcs == {"ensure", "bootmark", "bootwait", "idle", "tick", "check", "restart",
           "killing", "deltun", "spawn", "mark", "wait", "confirm",
           "refresh", "health", "store", "done"}
KillerPcs == {"off", "sent", "latched", "gated", "killing", "done"}

At(pc) == [mon EXCEPT !.pc = pc]

(* is_healthy: some openvpn runs, the dying ones included, and tun114 exists *)
Healthy == procs # {} /\ tun # None

(* find_ovpn_pid *)
Found == IF procs = {} THEN {None} ELSE procs

(* config_changed *)
ConfigChanged == file # 0 /\ file # mtime

(***************************************************************************)
(* new: an openvpn that outlived an earlier sniffbox is adopted and its     *)
(* configuration taken to be the file there is now.                        *)
(***************************************************************************)
Init ==
  /\ \E p \in Pids : procs \in {{}, {p}}
  /\ dying \in SUBSET procs
  /\ file \in 0 .. 2
  /\ loaded = [p \in Pids |-> IF p \in procs THEN 1 ELSE 0]
  /\ tun \in procs \cup {None}
  /\ pid \in Found
  /\ mtime = IF pid = None THEN 0 ELSE file
  /\ lock = None /\ victim = None /\ stopping = FALSE /\ gate = Healthy
  /\ mon = [pc |-> "ensure", left |-> 0, reload |-> FALSE, up |-> FALSE]
  /\ killer = "off" /\ faults = 0
  /\ unseen = (pid # None /\ loaded[pid] # file)

(***************************************************************************)
(* openvpn itself and ppg.sh, which writes the configuration.              *)
(***************************************************************************)
Gone(p) ==
  /\ procs' = procs \ {p} /\ dying' = dying \ {p}
  /\ tun' = IF tun = p THEN None ELSE tun
  /\ UNCHANGED <<loaded, file, pid, mtime, lock, victim, stopping, gate, mon, killer, unseen>>

ProcExits(p) == p \in dying /\ Gone(p) /\ UNCHANGED faults
ProcCrashes(p) == p \in procs /\ faults < MaxFaults /\ Gone(p) /\ faults' = faults + 1

ProcLoads(p) ==
  /\ p \in procs /\ loaded[p] = 0 /\ file # 0
  /\ loaded' = [loaded EXCEPT ![p] = file]
  /\ UNCHANGED <<procs, dying, tun, file, pid, mtime, lock, victim, stopping, gate, mon, killer,
                 unseen, faults>>

TunUp(p) ==
  /\ p \in procs \ dying /\ loaded[p] # 0 /\ tun = None
  /\ tun' = p
  /\ UNCHANGED <<procs, dying, loaded, file, pid, mtime, lock, victim, stopping, gate, mon, killer,
                 unseen, faults>>

TunLost ==
  /\ tun # None /\ faults < MaxFaults
  /\ tun' = None /\ faults' = faults + 1
  /\ UNCHANGED <<procs, dying, loaded, file, pid, mtime, lock, victim, stopping, gate, mon, killer,
                 unseen>>

(* A write between the spawn of a process that has read its configuration  *)
(* and the reading of the mtime is the one the supervisor cannot see.      *)
WriteConfig ==
  /\ file < MaxWrites
  /\ file' = file + 1
  /\ unseen' = \/ unseen
               \/ mon.pc \in {"bootmark", "mark"} /\ pid \in procs /\ loaded[pid] # 0
  /\ UNCHANGED <<procs, dying, loaded, tun, pid, mtime, lock, victim, stopping, gate, mon, killer,
                 faults>>

(***************************************************************************)
(* Pieces of ensure_up, cold_restart and kill                              *)
(***************************************************************************)
(* spawn_ovpn, with the mutex taken: the mtime is read in a step of its own *)
Spawn(p) ==
  /\ procs' = procs \cup {p}
  /\ loaded' = [loaded EXCEPT ![p] = 0]
  /\ pid' = p /\ lock' = "mon"
  /\ UNCHANGED <<dying, tun, file, victim>>

(* kill_locked: SIGTERM to the recorded process, or to one that is found   *)
(* when none is recorded.                                                  *)
Target == IF pid # None THEN {pid} ELSE Found

KillUnlessRecorded(who) ==
  /\ lock' = who
  /\ victim' \in Found
  /\ dying' = dying \cup (IF pid = None THEN {victim'} \cap procs ELSE {})
  /\ UNCHANGED <<procs, loaded, tun, file>>

KillLocked(who) ==
  /\ lock' = who
  /\ victim' \in Target
  /\ dying' = dying \cup ({victim'} \cap procs)
  /\ UNCHANGED <<procs, loaded, tun, file>>

(* wait_gone: the process is gone, or five seconds pass. *)
WaitedGone ==
  IF victim \notin procs THEN UNCHANGED faults ELSE faults < MaxFaults /\ faults' = faults + 1

(* wait_tun_up: the device is there, or fifteen seconds pass; they pass     *)
(* for sure when no process is there to create it.                         *)
WaitedTun ==
  IF tun # None \/ procs \ dying = {} \/ file = 0
  THEN UNCHANGED faults ELSE faults < MaxFaults /\ faults' = faults + 1

(***************************************************************************)
(* ensure_up, once, when the monitor starts.                               *)
(***************************************************************************)
EnsureUpFinds ==
  /\ mon.pc = "ensure" /\ lock = None
  /\ stopping \/ procs # {} \/ file = 0
  /\ pid' \in IF stopping \/ pid \in procs \/ procs = {} THEN {pid} ELSE procs
  /\ mon' = At("bootwait")
  /\ UNCHANGED <<world, mtime, lock, victim, stopping, gate, killer, unseen, faults>>

EnsureUpSpawns(p) ==
  /\ mon.pc = "ensure" /\ lock = None
  /\ ~stopping /\ procs = {} /\ file # 0
  /\ Spawn(p)
  /\ mon' = At("bootmark")
  /\ UNCHANGED <<mtime, stopping, gate, killer, unseen, faults>>

EnsureUpFails ==
  /\ mon.pc = "ensure" /\ lock = None
  /\ ~stopping /\ procs = {} /\ file # 0
  /\ faults < MaxFaults /\ faults' = faults + 1
  /\ mon' = At("bootwait")
  /\ UNCHANGED <<world, pid, mtime, lock, victim, stopping, gate, killer, unseen>>

(* config_mtime = config_mtime(), and the mutex is released. *)
MarkConfigForgotten ==
  /\ mon.pc \in {"bootmark", "mark"}
  /\ mtime' = mtime /\ lock' = None
  /\ mon' = At(IF mon.pc = "mark" THEN "wait" ELSE "bootwait")
  /\ UNCHANGED <<world, pid, victim, stopping, gate, killer, unseen, faults>>

MarkConfig ==
  /\ mon.pc \in {"bootmark", "mark"}
  /\ mtime' = file /\ lock' = None
  /\ mon' = At(IF mon.pc = "mark" THEN "wait" ELSE "bootwait")
  /\ UNCHANGED <<world, pid, victim, stopping, gate, killer, unseen, faults>>

BootWaited ==
  /\ mon.pc = "bootwait" /\ WaitedTun
  /\ mon' = At("refresh")
  /\ UNCHANGED <<world, pid, mtime, lock, victim, stopping, gate, killer, unseen>>

(***************************************************************************)
(* The monitor's loop: shutdown is looked at before the timer.             *)
(***************************************************************************)
MonitorEnds ==
  /\ mon.pc = "idle" /\ killer # "off"
  /\ mon' = At("done")
  /\ UNCHANGED <<world, pid, mtime, lock, victim, stopping, gate, killer, unseen, faults>>

Tick ==
  /\ mon.pc = "idle" /\ killer = "off"
  /\ mon' = At("tick")
  /\ UNCHANGED <<world, pid, mtime, lock, victim, stopping, gate, killer, unseen, faults>>

(* monitor_tick up to config_changed *)
TickLooks ==
  /\ mon.pc = "tick"
  /\ \/ stopping /\ mon' = At("refresh")
     \/ /\ ~stopping /\ lock = None
        /\ mon' = IF ConfigChanged
                  THEN [mon EXCEPT !.pc = "restart", !.left = 0, !.reload = TRUE]
                  ELSE At("check")
  /\ UNCHANGED <<world, pid, mtime, lock, victim, stopping, gate, killer, unseen, faults>>

TickChecks ==
  /\ mon.pc = "check" /\ lock = None
  /\ mon' = IF Healthy \/ MaxRestarts = 0 THEN At("refresh")
            ELSE [mon EXCEPT !.pc = "restart", !.left = MaxRestarts - 1, !.reload = FALSE]
  /\ UNCHANGED <<world, pid, mtime, lock, victim, stopping, gate, killer, unseen, faults>>

(* After a failed attempt: the next one, or the end of the tick. *)

NextAttempt ==
  IF mon.left > 0 THEN [mon EXCEPT !.pc = "restart", !.left = @ - 1] ELSE At("refresh")

(* A failed cold_restart: a reload still waits for the device. *)
Failed == IF mon.reload THEN At("wait") ELSE NextAttempt

RestartRefused ==
  /\ mon.pc = "restart" /\ lock = None /\ stopping
  /\ mon' = Failed
  /\ UNCHANGED <<world, pid, mtime, lock, victim, stopping, gate, killer, unseen, faults>>

RestartKills ==
  /\ mon.pc = "restart" /\ lock = None /\ ~stopping
  /\ KillLocked("mon")
  /\ mon' = At("killing")
  /\ UNCHANGED <<pid, mtime, stopping, gate, killer, unseen, faults>>

RestartKilled ==
  /\ mon.pc = "killing" /\ WaitedGone
  /\ pid' = None /\ lock' = None /\ victim' = None
  /\ mon' = At("deltun")
  /\ UNCHANGED <<world, mtime, stopping, gate, killer, unseen>>

(* delete_tun, then config_exists *)
RestartDeletesTun ==
  /\ mon.pc = "deltun"
  /\ tun' = None
  /\ mon' = IF file = 0 THEN Failed ELSE At("spawn")
  /\ UNCHANGED <<procs, dying, loaded, file, pid, mtime, lock, victim, stopping, gate, killer,
                 unseen, faults>>

RestartSpawns(p) ==
  /\ mon.pc = "spawn" /\ lock = None /\ p \notin procs
  /\ Spawn(p)
  /\ mon' = At("mark")
  /\ UNCHANGED <<mtime, stopping, gate, killer, unseen, faults>>

RestartFails ==
  /\ mon.pc = "spawn" /\ lock = None
  /\ faults < MaxFaults /\ faults' = faults + 1
  /\ mon' = Failed
  /\ UNCHANGED <<world, pid, mtime, lock, victim, stopping, gate, killer, unseen>>

Waited ==
  /\ mon.pc = "wait" /\ WaitedTun
  /\ mon' = IF mon.reload THEN [mon EXCEPT !.pc = "refresh", !.reload = FALSE]
            ELSE IF tun # None THEN At("confirm") ELSE NextAttempt
  /\ UNCHANGED <<world, pid, mtime, lock, victim, stopping, gate, killer, unseen>>

Confirms ==
  /\ mon.pc = "confirm" /\ lock = None
  /\ mon' = IF Healthy THEN [mon EXCEPT !.pc = "refresh", !.left = 0] ELSE NextAttempt
  /\ UNCHANGED <<world, pid, mtime, lock, victim, stopping, gate, killer, unseen, faults>>

(***************************************************************************)
(* refresh_ready: the latch is read, then the health, then the gate stored. *)
(***************************************************************************)
RefreshLooks ==
  /\ mon.pc = "refresh"
  /\ mon' = [mon EXCEPT !.pc = IF stopping THEN "store" ELSE "health", !.up = FALSE]
  /\ UNCHANGED <<world, pid, mtime, lock, victim, stopping, gate, killer, unseen, faults>>

RefreshChecks ==
  /\ mon.pc = "health" /\ lock = None
  /\ mon' = [mon EXCEPT !.pc = "store", !.up = Healthy]
  /\ UNCHANGED <<world, pid, mtime, lock, victim, stopping, gate, killer, unseen, faults>>

RefreshStores ==
  /\ mon.pc = "store"
  /\ gate' = mon.up
  /\ mon' = [mon EXCEPT !.pc = "idle", !.up = FALSE]
  /\ UNCHANGED <<world, pid, mtime, lock, victim, stopping, killer, unseen, faults>>

(***************************************************************************)
(* Shutdown (run in lib.rs): the monitor is told, then kill runs.          *)
(***************************************************************************)
Shutdown ==
  /\ killer = "off" /\ killer' = "sent"
  /\ UNCHANGED <<world, pid, mtime, lock, victim, stopping, gate, mon, unseen, faults>>

KillLatches ==
  /\ killer = "sent" /\ killer' = "latched"
  /\ stopping' = TRUE
  /\ UNCHANGED <<world, pid, mtime, lock, victim, gate, mon, unseen, faults>>

KillCloses ==
  /\ killer = "latched" /\ killer' = "gated"
  /\ gate' = FALSE
  /\ UNCHANGED <<world, pid, mtime, lock, victim, stopping, mon, unseen, faults>>

KillKills ==
  /\ killer = "gated" /\ killer' = "killing" /\ lock = None
  /\ KillLocked("kill")
  /\ UNCHANGED <<pid, mtime, stopping, gate, mon, unseen, faults>>

KillEnds ==
  /\ killer = "killing" /\ killer' = "done" /\ WaitedGone
  /\ pid' = None /\ lock' = None /\ victim' = None /\ tun' = None
  /\ UNCHANGED <<procs, dying, loaded, file, mtime, stopping, gate, mon, unseen>>

Monitor ==
  \/ EnsureUpFinds \/ \E p \in Pids : EnsureUpSpawns(p)
  \/ MarkConfig \/ BootWaited
  \/ MonitorEnds \/ Tick \/ TickLooks \/ TickChecks
  \/ RestartRefused \/ RestartKills \/ RestartKilled \/ RestartDeletesTun
  \/ \E p \in Pids : RestartSpawns(p)
  \/ Waited \/ Confirms
  \/ RefreshLooks \/ RefreshChecks \/ RefreshStores

Kill == KillLatches \/ KillCloses \/ KillKills \/ KillEnds

Openvpn == \E p \in Pids : ProcExits(p) \/ ProcLoads(p) \/ TunUp(p)

Surroundings ==
  \/ \E p \in Pids : ProcCrashes(p)
  \/ TunLost \/ WriteConfig \/ EnsureUpFails \/ RestartFails

Next == Monitor \/ Shutdown \/ Kill \/ Openvpn \/ Surroundings

Spec == Init /\ [][Next]_vars

(* The monitor's thread and the killer's run, the timer comes again, and an *)
(* openvpn that stays up reads its file, makes its device and obeys SIGTERM. *)
OvpnFair ==
  /\ WF_vars(Monitor) /\ WF_vars(Kill)
  /\ \A p \in Pids : /\ WF_vars(ProcExits(p)) /\ WF_vars(ProcLoads(p))
                     /\ WF_vars(TunUp(p))

FairSpec == Spec /\ OvpnFair

-----------------------------------------------------------------------------
TypeOK ==
  /\ procs \subseteq Pids /\ dying \subseteq procs
  /\ loaded \in [Pids -> Nat] /\ file \in Nat /\ mtime \in Nat /\ faults \in Nat
  /\ tun \in Pids \cup {None} /\ pid \in Pids \cup {None}
  /\ victim \in Pids \cup {None}
  /\ lock \in {None, "mon", "kill"}
  /\ stopping \in BOOLEAN /\ gate \in BOOLEAN /\ unseen \in BOOLEAN
  /\ mon \in [pc : MonPcs, left : Nat, reload : BOOLEAN, up : BOOLEAN]
  /\ killer \in KillerPcs

(* Every openvpn that was not told to end is the one in Inner.pid, so there *)
(* is at most one, whatever restarts and a shutdown do to one another: the  *)
(* second half of cold_restart finds what the first half left, although the *)
(* mutex was free in between.                                               *)
Tracked == procs \ dying \subseteq {pid}

(* What the monitor is for: unless sniffbox stops, there is no file, or a   *)
(* write fell where the supervisor takes it for loaded, in the end openvpn  *)
(* runs the file's configuration, tun114 is there and the gate is open.     *)
Recovered ==
  \/ stopping \/ file = 0 \/ unseen
  \/ gate /\ Healthy /\ pid \in procs /\ loaded[pid] = file
Recovers == <>[]Recovered

(* kill_latches_stopping_so_nothing_can_respawn: once kill has returned and *)
(* the monitor has ended, no openvpn is left that was not told to end.      *)
NothingRespawns == killer = "done" /\ mon.pc = "done" => procs \ dying = {}
=============================================================================
