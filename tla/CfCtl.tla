------------------------------- MODULE CfCtl -------------------------------
(***************************************************************************)
(* The supervisor of the cloudflared replicas (cf_ctl.rs) with the         *)
(* transport verdicts it follows (cf_quality.rs).                          *)
(*                                                                         *)
(* One replica per egress: "direct" and "proxied".  A tick brings them in  *)
(* line with the configuration: it checks that the tunnels are registered, *)
(* decides which replicas must be (re)started, fetches or updates the      *)
(* binary, and starts them one after the other, trying one transport after *)
(* the other.  Ticks come from the monitor, a restart asked for in the web *)
(* panel, or a transport switch; start_lock lets in one at a time, so one  *)
(* variable holds the tick in progress.  Beside it run the shutdown, which *)
(* takes no start_lock, the background scoring and the hourly rescoring.   *)
(*                                                                         *)
(* A stamp is what a replica was started for: the state of its egress (a   *)
(* generation that changes with clash, the VPN and gateway reloads) and    *)
(* its transport.                                                          *)
(***************************************************************************)
EXTENDS Naturals, Sequences, FiniteSets

CONSTANTS
  Tokens,        \* cloudflared_token values
  Policies,      \* cloudflared_protocol: "auto", "quic" or "http2"
  ProxyModes,    \* cloudflared_proxy: "yes", "no" or "both"
  Pids,          \* process ids
  None,
  ReadyMisses,   \* READY_MISSES
  RescoreAfter,  \* RESCORE_AFTER, in ticks
  MaxEnv,        \* bound: changes of the configuration and of the surroundings
  MaxFaults      \* bound: dead links, failed spawns, tunnels that do not register

Egresses == {"direct", "proxied"}
Protocols == {"quic", "http2"}

ASSUME CfConstants ==
  /\ None \notin Tokens \cup Pids \cup Nat \cup Protocols
  /\ Policies \subseteq Protocols \cup {"auto"}
  /\ ProxyModes \subseteq {"yes", "no", "both"}
  /\ IsFiniteSet(Pids)
  /\ ReadyMisses \in Nat \ {0} /\ RescoreAfter \in Nat /\ MaxEnv \in Nat /\ MaxFaults \in Nat

VARIABLES
  cfg,       \* the configuration on disk
  base,      \* stamp_base of each egress; None while the proxy engine is not ready
  verdict,   \* the fresh verdict on disk for each egress, or None
  bin,       \* version of the installed binary, 0 if there is none
  alive,     \* running cloudflared processes
  born,      \* what each process was started with
  slots,      \* the Proc slot of each egress
  tick,      \* the tick that holds start_lock
  web,       \* the web panel's restart waiting for the lock
  rescorer,  \* the hourly rescoring task
  scoring,   \* egresses the background scoring has yet to look at
  killer,    \* the shutdown: "no", then the egress it kills next, then "done"
  stopping,  \* the latch
  grace,     \* still in STARTUP_GRACE
  env,       \* history: changes made by the surroundings
  cfFaults     \* history: faults

world == <<cfg, base, bin, grace, env>>
vars == <<world, verdict, alive, born, slots, tick, web, rescorer, scoring, killer, stopping, cfFaults>>
-----------------------------------------------------------------------------
Configs == [token : Tokens \cup {None}, proxy : ProxyModes, policy : Policies]

First(S) == IF "direct" \in S THEN "direct" ELSE "proxied"

\* want_egress, in an outbound mode with a proxy.
WantEgress(e, c) == IF e = "direct" THEN c.proxy \in {"no", "both"} ELSE c.proxy \in {"yes", "both"}

DesiredProtocol(e, c) ==
  IF c.policy # "auto" THEN c.policy
  ELSE IF verdict[e] # None THEN verdict[e] ELSE "quic"

Stamp(e, c) == [base |-> base[e], proto |-> DesiredProtocol(e, c)]

\* ladder_for: the transports to try, the last http2 attempt without pinned edges.
Ladder(policy, remembered) ==
  IF policy # "auto" THEN <<[proto |-> policy, pin |-> TRUE]>>
  ELSE (IF remembered = "http2" THEN <<>> ELSE <<[proto |-> "quic", pin |-> TRUE]>>)
         \o <<[proto |-> "http2", pin |-> TRUE], [proto |-> "http2", pin |-> FALSE]>>

Running(e) == slots[e].pid \in alive

\* kill_locked: the process is gone when it returns, its slot forgotten
\* except for the transport and the watchdog's counts.
Forgotten(p) == [p EXCEPT !.pid = None, !.token = None, !.stamp = None]
KillOne(e) ==
  /\ alive' = alive \ {slots[e].pid}
  /\ slots' = [slots EXCEPT ![e] = Forgotten(@)]

NoProc == [pid |-> None, token |-> None, stamp |-> None, proto |-> None, misses |-> 0, down |-> 0]
NoTick == [pc |-> "idle", cfg |-> None, todo |-> {}, rescore |-> {}, plan |-> [e \in Egresses |-> None],
           rungs |-> <<>>, first |-> TRUE, pid |-> None, chore |-> FALSE]
NoRescore == [pc |-> "idle", e |-> None, incumbent |-> None]
NotBorn == [e |-> None, token |-> None, proto |-> None]

Planned == {e \in Egresses : tick.plan[e] # None}

\* A fault of the surroundings.
Fault == cfFaults < MaxFaults /\ cfFaults' = cfFaults + 1

\* The supervisor starts beside replicas of an earlier run, one per uid at most.
Init ==
  /\ cfg \in Configs
  /\ base = [e \in Egresses |-> 0]
  /\ verdict = [e \in Egresses |-> None]
  /\ bin \in {0, 1}
  /\ \E adopted \in [Egresses -> Pids \cup {None}] :
       /\ adopted["direct"] = adopted["proxied"] => adopted["direct"] = None
       /\ alive = {adopted[e] : e \in Egresses} \ {None}
       /\ slots = [e \in Egresses |-> [NoProc EXCEPT !.pid = adopted[e]]]
       /\ born = [p \in Pids |-> IF p \in alive
                                 THEN [NotBorn EXCEPT !.e = CHOOSE e \in Egresses : adopted[e] = p]
                                 ELSE NotBorn]
  /\ tick = NoTick
  /\ web = None
  /\ rescorer = NoRescore
  /\ scoring = {}
  /\ killer = "no"
  /\ stopping = FALSE
  /\ grace = TRUE
  /\ env = 0
  /\ cfFaults = 0
-----------------------------------------------------------------------------
(***************************************************************************)
(* The surroundings.                                                       *)
(***************************************************************************)
EnvStep == env < MaxEnv /\ env' = env + 1

ConfigChanges(c) ==
  /\ EnvStep /\ c # cfg /\ cfg' = c
  /\ UNCHANGED <<base, bin, grace, verdict, alive, born, slots, tick, web, rescorer, scoring,
                 killer, stopping, cfFaults>>

\* proxy_stamp: clash or the VPN goes down, comes up, or restarts; a gateway
\* reload (reload_gen) changes both stamps.
EngineChanges(b) ==
  /\ EnvStep /\ b # base["proxied"]
  /\ base' = [base EXCEPT !["proxied"] = b]
  /\ UNCHANGED <<cfg, bin, grace, verdict, alive, born, slots, tick, web, rescorer, scoring,
                 killer, stopping, cfFaults>>

GatewayReloads ==
  /\ EnvStep
  /\ base' = [e \in Egresses |-> IF base[e] = None THEN None ELSE base[e] + 1]
  /\ UNCHANGED <<cfg, bin, grace, verdict, alive, born, slots, tick, web, rescorer, scoring,
                 killer, stopping, cfFaults>>

VerdictExpires(e) ==
  /\ EnvStep /\ verdict[e] # None
  /\ verdict' = [verdict EXCEPT ![e] = None]
  /\ UNCHANGED <<cfg, base, bin, grace, alive, born, slots, tick, web, rescorer, scoring,
                 killer, stopping, cfFaults>>

ReplicaDies(p) ==
  /\ p \in alive /\ Fault
  /\ alive' = alive \ {p}
  /\ UNCHANGED <<world, verdict, born, slots, tick, web, rescorer, scoring, killer, stopping>>

GraceEnds ==
  /\ grace /\ grace' = FALSE
  /\ UNCHANGED <<cfg, base, bin, env, verdict, alive, born, slots, tick, web, rescorer, scoring,
                 killer, stopping, cfFaults>>
-----------------------------------------------------------------------------
(***************************************************************************)
(* Who starts a tick.                                                      *)
(***************************************************************************)
Entered == [NoTick EXCEPT !.pc = "enter"]

MonitorTicks ==
  /\ tick.pc = "idle"
  /\ tick' = Entered
  /\ UNCHANGED <<world, verdict, alive, born, slots, web, rescorer, scoring, killer, stopping, cfFaults>>

\* try_lock fails: the watchdog must not count a restart in progress as a miss.
MonitorSkips ==
  /\ tick.pc # "idle"
  /\ slots' = [e \in Egresses |-> [slots[e] EXCEPT !.misses = 0, !.down = 0]]
  /\ slots' # slots
  /\ UNCHANGED <<world, verdict, alive, born, tick, web, rescorer, scoring, killer, stopping, cfFaults>>

\* restart: refused while stopping, without a token, or for a replica the
\* configuration does not want; otherwise it waits for the lock.
WebRestarts(which) ==
  /\ web = None /\ ~stopping /\ cfg.token # None
  /\ EnvStep
  /\ Cardinality(which) = 1 => \A e \in which : WantEgress(e, cfg)
  /\ web' = which
  /\ UNCHANGED <<cfg, base, bin, grace, verdict, alive, born, slots, tick, rescorer, scoring,
                 killer, stopping, cfFaults>>

WebLocks ==
  /\ web # None /\ tick.pc = "idle"
  /\ alive' = alive \ {slots[e].pid : e \in web}
  /\ slots' = [e \in Egresses |-> IF e \in web THEN Forgotten(slots[e]) ELSE slots[e]]
  /\ tick' = Entered
  /\ web' = None
  /\ UNCHANGED <<world, verdict, born, rescorer, scoring, killer, stopping, cfFaults>>

\* spawn_rescoring, every hour: score the transports and keep, switch or leave.
RescorerStarts(e) ==
  /\ rescorer.pc = "idle" /\ ~stopping /\ EnvStep
  /\ cfg.token # None /\ cfg.policy = "auto" /\ WantEgress(e, cfg)
  /\ Running(e) /\ slots[e].proto # None
  /\ rescorer' = [pc |-> "picking", e |-> e, incumbent |-> slots[e].proto]
  /\ UNCHANGED <<cfg, base, bin, grace, verdict, alive, born, slots, tick, web, scoring, killer,
                 stopping, cfFaults>>

RescorerPicks(winner) ==
  /\ rescorer.pc = "picking"
  /\ \/ /\ winner = None \/ winner # rescorer.incumbent     \* no verdict, or DWELL not elapsed
        /\ rescorer' = NoRescore /\ UNCHANGED verdict
     \/ /\ winner = rescorer.incumbent
        /\ verdict' = [verdict EXCEPT ![rescorer.e] = winner]
        /\ rescorer' = NoRescore
     \/ /\ winner \notin {None, rescorer.incumbent}
        /\ verdict' = [verdict EXCEPT ![rescorer.e] = winner]
        /\ rescorer' = [rescorer EXCEPT !.pc = "waiting"]
  /\ UNCHANGED <<world, alive, born, slots, tick, web, scoring, killer, stopping, cfFaults>>

\* switch_protocol, once it has the lock.
RescorerSwitches ==
  /\ rescorer.pc = "waiting" /\ tick.pc = "idle"
  /\ KillOne(rescorer.e)
  /\ tick' = Entered
  /\ rescorer' = NoRescore
  /\ UNCHANGED <<world, verdict, born, web, scoring, killer, stopping, cfFaults>>

\* The background scoring task.
Scores(e, winner) ==
  /\ e \in scoring
  /\ scoring' = scoring \ {e}
  /\ verdict' = IF winner = None THEN verdict ELSE [verdict EXCEPT ![e] = winner]
  /\ UNCHANGED <<world, alive, born, slots, tick, web, rescorer, killer, stopping, cfFaults>>
-----------------------------------------------------------------------------
(***************************************************************************)
(* tick_locked.                                                            *)
(***************************************************************************)
Live(e) == \E p \in alive : born[p].e = e

\* Stopping, or no token: kill what runs and leave.
TickLeaves ==
  /\ tick.pc = "enter"
  /\ stopping \/ cfg.token = None
  /\ IF stopping THEN UNCHANGED <<alive, slots>>
     ELSE /\ alive' = alive \ {slots[e].pid : e \in Egresses}
          /\ slots' = [e \in Egresses |-> IF Running(e) THEN Forgotten(slots[e]) ELSE slots[e]]
  /\ tick' = NoTick
  /\ UNCHANGED <<world, verdict, born, web, rescorer, scoring, killer, stopping, cfFaults>>

\* A fixed policy forgets all verdicts.
TickEnters ==
  /\ tick.pc = "enter"
  /\ ~stopping /\ cfg.token # None
  /\ verdict' = IF cfg.policy = "auto" THEN verdict ELSE [e \in Egresses |-> None]
  /\ tick' = [tick EXCEPT !.pc = "watch", !.cfg = cfg,
                          !.todo = {e \in Egresses : WantEgress(e, cfg)}]
  /\ UNCHANGED <<world, alive, born, slots, web, rescorer, scoring, killer, stopping, cfFaults>>

\* ready_watchdog for one egress: its metrics endpoint reports a registered
\* tunnel, or it does not.
Watched(e, more) == tick' = [tick EXCEPT !.todo = @ \ {e}, !.rescore = @ \cup more]

WatchdogReady ==
  LET e == First(tick.todo)
  IN  /\ tick.pc = "watch" /\ tick.todo # {}
      /\ Live(e)
      /\ slots' = [slots EXCEPT ![e].misses = 0, ![e].down = 0]
      /\ Watched(e, {})
      /\ UNCHANGED <<world, verdict, alive, born, web, rescorer, scoring, killer, stopping, cfFaults>>

TooManyMisses(p) == p.misses >= ReadyMisses

\* down counts the time since unready_since, as far as RescoreAfter.
WatchdogMisses ==
  LET e == First(tick.todo)
      p == [slots[e] EXCEPT !.misses = @ + 1, !.down = IF @ < RescoreAfter THEN @ + 1 ELSE @]
      rescore == p.down >= RescoreAfter /\ tick.cfg.policy = "auto"
      restart == TooManyMisses(p)
  IN  /\ tick.pc = "watch" /\ tick.todo # {}
      /\ IF Live(e) THEN Fault ELSE UNCHANGED cfFaults
      /\ IF slots[e].proto = None THEN UNCHANGED <<alive, slots>> /\ Watched(e, {})
         ELSE /\ alive' = IF rescore \/ restart THEN alive \ {p.pid} ELSE alive
              /\ slots' = [slots EXCEPT ![e] =
                            IF rescore THEN [Forgotten(p) EXCEPT !.misses = 0, !.down = 0]
                            ELSE IF restart THEN [Forgotten(p) EXCEPT !.misses = 0] ELSE p]
              /\ Watched(e, IF rescore THEN {e} ELSE {})
      /\ UNCHANGED <<world, verdict, born, web, rescorer, scoring, killer, stopping>>

\* block_on_scoring for the egresses the watchdog gave up on.
TickScores(winner) ==
  LET e == First(tick.rescore)
  IN  /\ tick.pc = "watch" /\ tick.todo = {} /\ tick.rescore # {}
      /\ verdict' = IF winner = None THEN verdict ELSE [verdict EXCEPT ![e] = winner]
      /\ tick' = [tick EXCEPT !.rescore = @ \ {e}]
      /\ UNCHANGED <<world, alive, born, slots, web, rescorer, scoring, killer, stopping, cfFaults>>

TickPlans ==
  /\ tick.pc = "watch" /\ tick.todo = {} /\ tick.rescore = {}
  /\ tick' = [tick EXCEPT !.pc = "plan", !.todo = Egresses]
  /\ UNCHANGED <<world, verdict, alive, born, slots, web, rescorer, scoring, killer, stopping, cfFaults>>

NeedsStartTokenOnly(e) == ~Running(e) \/ slots[e].token # tick.cfg.token
NeedsStart(e) ==
  ~Running(e) \/ slots[e].token # tick.cfg.token \/ slots[e].stamp # Stamp(e, tick.cfg)

\* One egress: stop it, leave it, or plan its start.
PlanOne ==
  LET e == First(tick.todo)
      stop == ~WantEgress(e, tick.cfg) \/ base[e] = None
  IN  /\ tick.pc = "plan" /\ tick.todo # {}
      /\ IF stop /\ Running(e) THEN KillOne(e) ELSE UNCHANGED <<alive, slots>>
      /\ tick' = [tick EXCEPT !.todo = @ \ {e},
                              !.plan[e] = IF ~stop /\ NeedsStart(e) THEN base[e] ELSE None]
      /\ UNCHANGED <<world, verdict, born, web, rescorer, scoring, killer, stopping, cfFaults>>

\* spawn_background_scoring: egresses without a fresh verdict whose probe gate
\* is open, unless a scoring is still in flight.
SpawnScoring(wanted) ==
  /\ cfg.policy = "auto" => wanted \subseteq {e \in Egresses : WantEgress(e, cfg) /\ verdict[e] = None}
  /\ scoring' = IF scoring = {} THEN wanted ELSE scoring

\* Nothing to start.
NothingPlanned == tick.pc = "plan" /\ tick.todo = {} /\ Planned = {}

TickRests(wanted) ==
  /\ NothingPlanned
  /\ IF tick.cfg.policy = "auto" /\ ~grace THEN SpawnScoring(wanted)
     ELSE wanted = {} /\ UNCHANGED scoring
  /\ tick' = NoTick
  /\ UNCHANGED <<world, verdict, alive, born, slots, web, rescorer, killer, stopping, cfFaults>>

\* The daily update found a new binary: restart_all_for_update.
AllWanted(c) == [e \in Egresses |-> IF WantEgress(e, c) THEN base[e] ELSE None]

TickUpdates ==
  /\ NothingPlanned /\ EnvStep
  /\ base["proxied"] # None /\ bin # 0
  /\ bin' = bin + 1
  /\ tick' = [tick EXCEPT !.pc = "start", !.plan = AllWanted(tick.cfg), !.chore = TRUE]
  /\ UNCHANGED <<cfg, base, grace, verdict, alive, born, slots, web, rescorer, scoring, killer,
                 stopping, cfFaults>>

\* Without a binary the tick first tries to download one (ensure_binary).
SomethingPlanned == tick.pc = "plan" /\ tick.todo = {} /\ Planned # {}

BinaryComesIn ==
  /\ SomethingPlanned /\ bin = 0
  /\ \/ bin' = 1 /\ UNCHANGED <<tick, cfFaults>>
     \/ Fault /\ tick' = NoTick /\ UNCHANGED bin
  /\ UNCHANGED <<cfg, base, grace, env, verdict, alive, born, slots, web, rescorer, scoring,
                 killer, stopping>>

Defers ==
  /\ SomethingPlanned /\ bin # 0 /\ grace
  /\ tick' = NoTick
  /\ UNCHANGED <<world, verdict, alive, born, slots, web, rescorer, scoring, killer, stopping, cfFaults>>

\* The update check before a start; a changed binary restarts all replicas.
StartsPlanned ==
  /\ SomethingPlanned /\ bin # 0 /\ ~grace
  /\ \/ tick' = [tick EXCEPT !.pc = "start"] /\ UNCHANGED <<bin, env>>
     \/ /\ base["proxied"] # None /\ EnvStep
        /\ bin' = bin + 1
        /\ tick' = [tick EXCEPT !.pc = "start",
                                !.plan = [e \in Egresses |-> IF e \in Planned THEN tick.plan[e]
                                                             ELSE AllWanted(tick.cfg)[e]]]
  /\ UNCHANGED <<cfg, base, grace, verdict, alive, born, slots, web, rescorer, scoring, killer,
                 stopping, cfFaults>>

TickEnds(wanted) ==
  /\ tick.pc = "start" /\ Planned = {}
  /\ IF tick.cfg.policy = "auto" /\ ~tick.chore THEN SpawnScoring(wanted)
     ELSE wanted = {} /\ UNCHANGED scoring
  /\ tick' = NoTick
  /\ UNCHANGED <<world, verdict, alive, born, slots, web, rescorer, killer, stopping, cfFaults>>
-----------------------------------------------------------------------------
(***************************************************************************)
(* start_replica: climb down the ladder of transports for one egress.      *)
(***************************************************************************)
Next1 == First(Planned)
Leave == tick' = [tick EXCEPT !.pc = "start", !.plan[Next1] = None, !.rungs = <<>>,
                              !.first = TRUE, !.pid = None]

StartReplica ==
  /\ tick.pc = "start" /\ Planned # {}
  /\ tick' = [tick EXCEPT !.pc = "rung", !.rungs = Ladder(tick.cfg.policy, verdict[Next1]),
                          !.first = TRUE]
  /\ UNCHANGED <<world, verdict, alive, born, slots, web, rescorer, scoring, killer, stopping, cfFaults>>

\* No edge answers and the egress reaches nothing: stop and give up for now.
LinkDown ==
  /\ tick.pc = "rung" /\ Head(tick.rungs).pin
  /\ Fault
  /\ IF Running(Next1) THEN KillOne(Next1) ELSE UNCHANGED <<alive, slots>>
  /\ Leave
  /\ UNCHANGED <<world, verdict, born, web, rescorer, scoring, killer, stopping>>

ReplaceReplicaKeepsOld ==
  /\ tick.pc = "rung"
  /\ tick' = [tick EXCEPT !.pc = "spawn"]
  /\ UNCHANGED <<world, verdict, alive, born, slots, web, rescorer, scoring, killer, stopping, cfFaults>>

ReplaceReplica ==
  /\ tick.pc = "rung"
  /\ KillOne(Next1)
  /\ tick' = [tick EXCEPT !.pc = "spawn"]
  /\ UNCHANGED <<world, verdict, born, web, rescorer, scoring, killer, stopping, cfFaults>>

SpawnsNothing ==
  /\ tick.pc = "spawn" /\ Fault
  /\ Leave
  /\ UNCHANGED <<world, verdict, alive, born, slots, web, rescorer, scoring, killer, stopping>>

SpawnCf(p) ==
  /\ tick.pc = "spawn" /\ p \notin alive /\ \A e \in Egresses : slots[e].pid # p
  /\ alive' = alive \cup {p}
  /\ born' = [born EXCEPT ![p] = [e |-> Next1, token |-> tick.cfg.token,
                                  proto |-> Head(tick.rungs).proto]]
  /\ tick' = [tick EXCEPT !.pc = "latch", !.pid = p]
  /\ UNCHANGED <<world, verdict, slots, web, rescorer, scoring, killer, stopping, cfFaults>>

\* The latch is checked again under the slot's lock ...
Disowned ==
  /\ tick.pc = "latch" /\ stopping
  /\ alive' = alive \ {tick.pid}
  /\ slots' = [slots EXCEPT ![Next1] = Forgotten(@)]
  /\ Leave
  /\ UNCHANGED <<world, verdict, born, web, rescorer, scoring, killer, stopping, cfFaults>>

PassesLatch ==
  /\ tick.pc = "latch" /\ ~stopping
  /\ tick' = [tick EXCEPT !.pc = "record"]
  /\ UNCHANGED <<world, verdict, alive, born, slots, web, rescorer, scoring, killer, stopping, cfFaults>>

\* ... and the replica is entered in the slot under the lock taken once more.
\* Only a fallback of an adaptive policy with rungs left waits for the tunnel.
Settled(e, proto) ==
  verdict' = IF tick.cfg.policy = "auto" /\ ~tick.first THEN [verdict EXCEPT ![e] = proto] ELSE verdict

RecordedAsDesired(proto) ==
  [pid |-> tick.pid, token |-> tick.cfg.token, stamp |-> Stamp(Next1, tick.cfg),
   proto |-> proto, misses |-> 0, down |-> 0]
Recorded(proto) ==
  [pid |-> tick.pid, token |-> tick.cfg.token, stamp |-> [base |-> tick.plan[Next1], proto |-> proto],
   proto |-> proto, misses |-> 0, down |-> 0]

Records ==
  LET proto == Head(tick.rungs).proto
      waits == tick.cfg.policy = "auto" /\ Len(tick.rungs) > 1
  IN  /\ tick.pc = "record"
      /\ slots' = [slots EXCEPT ![Next1] = Recorded(proto)]
      /\ IF waits THEN tick' = [tick EXCEPT !.pc = "wait"] /\ UNCHANGED verdict
         ELSE Leave /\ Settled(Next1, proto)
      /\ UNCHANGED <<world, alive, born, web, rescorer, scoring, killer, stopping, cfFaults>>

Connected ==
  /\ tick.pc = "wait" /\ Live(Next1)
  /\ Settled(Next1, Head(tick.rungs).proto)
  /\ Leave
  /\ UNCHANGED <<world, alive, born, slots, web, rescorer, scoring, killer, stopping, cfFaults>>

FallsBack ==
  /\ tick.pc = "wait"
  /\ IF Live(Next1) THEN Fault ELSE UNCHANGED cfFaults
  /\ KillOne(Next1)
  /\ tick' = [tick EXCEPT !.pc = "rung", !.rungs = Tail(@), !.first = FALSE]
  /\ UNCHANGED <<world, verdict, born, web, rescorer, scoring, killer, stopping>>
-----------------------------------------------------------------------------
(***************************************************************************)
(* kill: latch, then stop both replicas.                                   *)
(***************************************************************************)
KillStarts ==
  /\ killer = "no"
  /\ killer' = "direct" /\ stopping' = TRUE
  /\ UNCHANGED <<world, verdict, alive, born, slots, tick, web, rescorer, scoring, cfFaults>>

KillStep ==
  /\ killer \in Egresses
  /\ KillOne(killer)
  /\ killer' = IF killer = "direct" THEN "proxied" ELSE "done"
  /\ UNCHANGED <<world, verdict, born, tick, web, rescorer, scoring, stopping, cfFaults>>
-----------------------------------------------------------------------------
TickStep ==
  \/ TickLeaves \/ TickEnters \/ WatchdogReady \/ WatchdogMisses
  \/ \E w \in Protocols \cup {None} : TickScores(w)
  \/ TickPlans \/ PlanOne \/ TickUpdates \/ BinaryComesIn \/ Defers \/ StartsPlanned
  \/ \E S \in SUBSET Egresses : TickRests(S) \/ TickEnds(S)
  \/ StartReplica \/ LinkDown \/ ReplaceReplica \/ SpawnsNothing \/ Disowned \/ PassesLatch
  \/ Records \/ Connected \/ FallsBack
  \/ \E p \in Pids : SpawnCf(p)

Surroundings ==
  \/ \E c \in Configs : ConfigChanges(c)
  \/ \E b \in {None, 0, 1} : EngineChanges(b)
  \/ GatewayReloads
  \/ \E e \in Egresses : VerdictExpires(e)
  \/ \E p \in Pids : ReplicaDies(p)

RescorerStep == (\E w \in Protocols \cup {None} : RescorerPicks(w)) \/ RescorerSwitches
ScoringStep == \E e \in Egresses, w \in Protocols \cup {None} : Scores(e, w)

Next ==
  \/ Surroundings \/ GraceEnds
  \/ MonitorTicks \/ MonitorSkips
  \/ \E S \in (SUBSET Egresses) \ {{}} : WebRestarts(S)
  \/ WebLocks
  \/ \E e \in Egresses : RescorerStarts(e)
  \/ RescorerStep \/ ScoringStep
  \/ TickStep
  \/ KillStarts \/ KillStep

Spec == Init /\ [][Next]_vars

(***************************************************************************)
(* The monitor ticks for ever, a tick runs to its end (all its waits have  *)
(* time limits), and so do a shutdown once begun and the scoring tasks.    *)
(***************************************************************************)
CfFair ==
  /\ WF_vars(GraceEnds)
  /\ WF_vars(MonitorTicks)
  /\ WF_vars(TickStep)
  /\ WF_vars(WebLocks) /\ WF_vars(RescorerSwitches)
  /\ WF_vars(\E w \in Protocols \cup {None} : RescorerPicks(w))
  /\ WF_vars(ScoringStep)
  /\ WF_vars(KillStep)

FairSpec == Spec /\ CfFair
-----------------------------------------------------------------------------
(***************************************************************************)
(* Properties.                                                             *)
(***************************************************************************)

\* Types of the slots, the processes and the tick.
TypeOK ==
  /\ cfg \in Configs
  /\ base \in [Egresses -> Nat \cup {None}]
  /\ verdict \in [Egresses -> Protocols \cup {None}]
  /\ bin \in Nat
  /\ alive \subseteq Pids
  /\ born \in [Pids -> [e : Egresses \cup {None}, token : Tokens \cup {None},
                        proto : Protocols \cup {None}]]
  /\ \A e \in Egresses :
       /\ slots[e].pid \in Pids \cup {None} /\ slots[e].token \in Tokens \cup {None}
       /\ slots[e].proto \in Protocols \cup {None}
       /\ slots[e].misses \in 0 .. ReadyMisses - 1 /\ slots[e].down \in 0 .. RescoreAfter
  /\ tick.pc \in {"idle", "enter", "watch", "plan", "start", "rung", "spawn", "latch", "record", "wait"}
  /\ tick.pc \in {"rung", "spawn", "latch", "record", "wait"} => Planned # {} /\ tick.rungs # <<>>
  /\ web \in (SUBSET Egresses) \cup {None}
  /\ rescorer.pc \in {"idle", "picking", "waiting"}
  /\ scoring \subseteq Egresses
  /\ killer \in Egresses \cup {"no", "done"}
  /\ stopping \in BOOLEAN /\ grace \in BOOLEAN
  /\ env \in Nat /\ cfFaults \in Nat

\* Two replicas never run on the same egress, where they would share a metrics
\* port and a home directory: whatever restarts, switches, falls back, fails
\* half-way or shuts down.
OneReplicaPerEgress ==
  \A p, q \in alive : born[p].e = born[q].e => p = q

\* No process is lost sight of: what runs is in its slot, or is the one the
\* tick in progress has just spawned.
AllTracked ==
  \A p \in alive : p = slots[born[p].e].pid \/ (tick.pc \in {"latch", "record"} /\ tick.pid = p)

\* What a slot says of its running replica is what the replica was started
\* with, also for a fallback: otherwise a change would be overlooked.
SlotTruthful ==
  \A e \in Egresses :
    Running(e) /\ slots[e].token # None =>
      /\ born[slots[e].pid].e = e
      /\ born[slots[e].pid].token = slots[e].token
      /\ born[slots[e].pid].proto = slots[e].stamp.proto

\* Once the surroundings leave it in peace the supervisor runs exactly the
\* replicas the configuration asks for, each with the current token and stamp:
\* restarts, fallbacks and verdicts do not chase each other for ever.
AsAskedFor ==
  \/ stopping
  \/ \A e \in Egresses :
       IF cfg.token # None /\ WantEgress(e, cfg) /\ base[e] # None
       THEN Running(e) /\ slots[e].token = cfg.token /\ slots[e].stamp = Stamp(e, cfg)
       ELSE ~Live(e)
Converges == <>[]AsAskedFor

\* A shutdown leaves no replica behind: one spawned during shutdown is reaped.
NoOrphan == killer = "done" /\ tick.pc = "idle" => alive = {}

\* The slots tell the truth: no egress has two replicas, no replica is unknown to
\* the slots, and a slot records the transport and the stamp its replica runs with.
CfSafe == TypeOK /\ OneReplicaPerEgress /\ AllTracked /\ SlotTruthful

=============================================================================
