----------------------------- MODULE CfCtlProofs -----------------------------
(***************************************************************************)
(* For any tokens, policies, processes and bounds: an egress never has two *)
(* replicas, no replica is lost sight of, and a slot says of its replica   *)
(* what the replica was started with.                                      *)
(*                                                                         *)
(* The tick starts a replica in several sections of the slot's mutex, and  *)
(* the shutdown and the deaths of processes come between any two of them.  *)
(* The invariant therefore says, of each step of the tick, which processes *)
(* of its egress there may be: none between the kill and the spawn, and    *)
(* only the new one until it is in the slot.                               *)
(***************************************************************************)
EXTENDS CfCtl, TLAPS

Stamps == [base : Nat \cup {None}, proto : Protocols]
Procs == [pid : Pids \cup {None}, token : Tokens \cup {None}, stamp : Stamps \cup {None},
          proto : Protocols \cup {None}, misses : 0 .. ReadyMisses - 1, down : 0 .. RescoreAfter]
Births == [e : Egresses \cup {None}, token : Tokens \cup {None}, proto : Protocols \cup {None}]
Plans == [Egresses -> Nat \cup {None}]
Rungs == [proto : Protocols, pin : BOOLEAN]
TickSteps == {"idle", "enter", "watch", "plan", "start", "rung", "spawn", "latch", "record", "wait"}
Ticks == [pc : TickSteps, cfg : Configs \cup {None}, todo : SUBSET Egresses, rescore : SUBSET Egresses,
          plan : Plans, rungs : Seq(Rungs), first : BOOLEAN, pid : Pids \cup {None}, chore : BOOLEAN]
Rescores == [pc : {"idle", "picking", "waiting"}, e : Egresses \cup {None},
             incumbent : Protocols \cup {None}]

\* The types of TypeOK, with those of the fields it does not need.
WorldTyped ==
  /\ cfg \in Configs /\ base \in Plans /\ bin \in Nat /\ env \in Nat /\ grace \in BOOLEAN
  /\ verdict \in [Egresses -> Protocols \cup {None}]
  /\ alive \subseteq Pids /\ born \in [Pids -> Births]
  /\ web \in (SUBSET Egresses) \cup {None} /\ rescorer \in Rescores /\ scoring \subseteq Egresses
  /\ killer \in Egresses \cup {"no", "done"} /\ stopping \in BOOLEAN /\ cfFaults \in Nat
SlotsTyped == slots \in [Egresses -> Procs]

\* A tick that is on has a configuration, one that starts a replica a plan and a
\* transport, and one that waits for a tunnel another transport after this one.
TickTyped ==
  /\ tick \in Ticks
  /\ tick.pc \notin {"idle", "enter"} => tick.cfg \in Configs /\ tick.cfg.token # None
  /\ tick.pc \in {"rung", "spawn", "latch", "record", "wait"} => Planned # {} /\ tick.rungs # <<>>
  /\ tick.pc = "wait" => Len(tick.rungs) > 1

Typed == WorldTyped /\ SlotsTyped /\ TickTyped

\* A process that runs is of an egress.
BornSomewhere == \A p \in alive : born[p].e \in Egresses

\* Between the kill and the spawn the egress has no process ...
Cleared == tick.pc = "spawn" => \A p \in alive : born[p].e # Next1

\* ... and until it is in the slot only the one that was spawned, which no slot has.
Fresh ==
  tick.pc \in {"latch", "record"} =>
    /\ tick.pid \in Pids
    /\ \A e \in Egresses : slots[e].pid # tick.pid
    /\ born[tick.pid] = [e |-> Next1, token |-> tick.cfg.token, proto |-> Head(tick.rungs).proto]
    /\ \A p \in alive : born[p].e = Next1 => p = tick.pid

Kept == BornSomewhere /\ AllTracked /\ SlotTruthful /\ Cleared /\ Fresh

CfInv == Typed /\ Kept
-----------------------------------------------------------------------------
(***************************************************************************)
(* Steps that start no replica.                                            *)
(***************************************************************************)

\* A slot that goes on saying of its replica what it said before.
SameClaim(e) ==
  slots'[e].pid = slots[e].pid /\ slots'[e].token = slots[e].token /\ slots'[e].stamp = slots[e].stamp

\* A slot that forgot its replica, which does not run any more.
Dropped(e) == slots'[e].pid = None /\ slots'[e].token = None /\ slots[e].pid \notin alive'

\* The tick does not move, or is outside the sections that start a replica.
NotStarting ==
  \/ tick' = tick
  \/ tick.pc \notin {"latch", "record"} /\ tick'.pc \notin {"spawn", "latch", "record"}

\* Processes that end and slots that forget them leave the others as they are.
LEMMA NothingStarted ==
  ASSUME Typed, Kept, alive' \subseteq alive, born' = born, NotStarting,
         \A e \in Egresses : SameClaim(e) \/ Dropped(e)
  PROVE  Kept'
<1> USE DEF Kept
<1>n. None \notin Pids
  BY CfConstants
<1>1. BornSomewhere'
  BY DEF BornSomewhere
<1>2. AllTracked'
  <2> SUFFICES ASSUME NEW p \in alive'
               PROVE  p = slots'[born[p].e].pid \/ (tick'.pc \in {"latch", "record"} /\ tick'.pid = p)
    BY DEF AllTracked
  <2>1. born[p].e \in Egresses
    BY DEF BornSomewhere
  <2>2. p = slots[born[p].e].pid \/ (tick.pc \in {"latch", "record"} /\ tick.pid = p)
    BY DEF AllTracked
  <2> QED
    BY <2>1, <2>2 DEF NotStarting, SameClaim, Dropped
<1>3. SlotTruthful'
  <2> SUFFICES ASSUME NEW e \in Egresses, slots'[e].pid \in alive', slots'[e].token # None
               PROVE  /\ born[slots'[e].pid].e = e
                      /\ born[slots'[e].pid].token = slots'[e].token
                      /\ born[slots'[e].pid].proto = slots'[e].stamp.proto
    BY DEF SlotTruthful, Running
  <2>1. SameClaim(e)
    BY DEF Dropped
  <2> QED
    BY <2>1 DEF SameClaim, SlotTruthful, Running
<1>4. Cleared'
  BY DEF Cleared, NotStarting, Next1, Planned
<1>5. Fresh'
  <2> SUFFICES ASSUME tick' = tick, tick.pc \in {"latch", "record"}
               PROVE  Fresh'
    BY DEF NotStarting, Fresh
  <2>1. Next1' = Next1
    BY DEF Next1, Planned
  <2>2. \A e \in Egresses : slots'[e].pid # tick.pid
    BY <1>n DEF Fresh, SameClaim, Dropped
  <2> QED
    BY <2>1, <2>2 DEF Fresh
<1> QED
  BY <1>1, <1>2, <1>3, <1>4, <1>5
-----------------------------------------------------------------------------
(***************************************************************************)
(* Types.                                                                  *)
(***************************************************************************)

\* A configuration is a token, a way out and a policy.
LEMMA ConfigFields ==
  ASSUME NEW c \in Configs
  PROVE  /\ c.token \in Tokens \cup {None} /\ c.proxy \in ProxyModes
         /\ c.policy \in Policies /\ c.policy \in Protocols \cup {"auto"}
  BY CfConstants DEF Configs

\* The first of some egresses is one of them.
LEMMA FirstIsOne ==
  ASSUME NEW S \in SUBSET Egresses, S # {}
  PROVE  First(S) \in S
  BY DEF First, Egresses

\* An egress with a plan is an egress.
LEMMA NextIsPlanned ==
  ASSUME Planned # {}
  PROVE  Next1 \in Planned /\ Next1 \in Egresses
  BY FirstIsOne DEF Next1, Planned

\* What is desired of an egress is a transport.
LEMMA DesiredTyped ==
  ASSUME Typed, NEW e \in Egresses, NEW c \in Configs
  PROVE  DesiredProtocol(e, c) \in Protocols
<1>1. c.policy \in Protocols \cup {"auto"}
  BY ConfigFields
<1>2. verdict[e] \in Protocols \cup {None}
  BY DEF Typed, WorldTyped
<1> QED
  BY <1>1, <1>2 DEF DesiredProtocol, Protocols

\* The ladder has at least one rung.
LEMMA LadderTyped ==
  ASSUME NEW policy \in Protocols \cup {"auto"}, NEW remembered
  PROVE  Ladder(policy, remembered) \in Seq(Rungs) /\ Ladder(policy, remembered) # <<>>
<1> DEFINE own == [proto |-> policy, pin |-> TRUE]
           quic == [proto |-> "quic", pin |-> TRUE]
           http == [proto |-> "http2", pin |-> TRUE]
           last == [proto |-> "http2", pin |-> FALSE]
<1>1. quic \in Rungs /\ http \in Rungs /\ last \in Rungs /\ (policy # "auto" => own \in Rungs)
  BY DEF Rungs, Protocols
<1>2. Ladder(policy, remembered) = IF policy # "auto" THEN <<own>>
        ELSE (IF remembered = "http2" THEN <<>> ELSE <<quic>>) \o <<http, last>>
  BY DEF Ladder
<1> HIDE DEF own, quic, http, last
<1> QED
  BY <1>1, <1>2

\* A slot that is forgotten is one without a process.
LEMMA ForgottenTyped ==
  ASSUME NEW p \in Procs
  PROVE  Forgotten(p) \in Procs /\ Forgotten(p).pid = None /\ Forgotten(p).token = None
  BY DEF Forgotten, Procs

\* Counts that start again.
LEMMA ZeroedTyped ==
  ASSUME NEW p \in Procs, NEW q, q = [p EXCEPT !.misses = 0, !.down = 0]
  PROVE  q \in Procs /\ q.pid = p.pid /\ q.token = p.token /\ q.stamp = p.stamp
<1>1. 0 \in 0 .. ReadyMisses - 1 /\ 0 \in 0 .. RescoreAfter
  BY CfConstants
<1> DEFINE A == Pids \cup {None}
           B == Tokens \cup {None}
           C == Stamps \cup {None}
           D == Protocols \cup {None}
           M == 0 .. ReadyMisses - 1
           N == 0 .. RescoreAfter
<1>2. Procs = [pid : A, token : B, stamp : C, proto : D, misses : M, down : N]
  BY DEF Procs
<1> HIDE DEF A, B, C, D
<1> QED
  BY <1>1, <1>2

\* No tick is a tick, and so is one that has just come in.
LEMMA NoTickTyped == NoTick \in Ticks /\ Entered \in Ticks /\ NoTick.pc = "idle" /\ Entered.pc = "enter"
<1>1. NoTick \in Ticks
  BY DEF NoTick, Ticks, Plans, TickSteps
<1> QED
  BY <1>1 DEF NoTick, Entered, Ticks, TickSteps

\* One replica is stopped.
LEMMA KillOneTyped ==
  ASSUME Typed, NEW e \in Egresses, KillOne(e)
  PROVE  /\ alive' \subseteq alive /\ slots' \in [Egresses -> Procs]
         /\ Dropped(e) /\ \A o \in Egresses \ {e} : slots'[o] = slots[o]
  BY ForgottenTyped DEF KillOne, Typed, SlotsTyped, Dropped, WorldTyped

\* Its slot has forgotten it, and the other one says what it said.
LEMMA KillOneClaims ==
  ASSUME Typed, NEW e \in Egresses, KillOne(e)
  PROVE  \A o \in Egresses : SameClaim(o) \/ Dropped(o)
  BY KillOneTyped DEF SameClaim
-----------------------------------------------------------------------------
(***************************************************************************)
(* Around the ticks: the configuration, the egresses, the tasks that       *)
(* score, the deaths of processes and the latch of the shutdown.           *)
(***************************************************************************)
Outside ==
  \/ Surroundings \/ GraceEnds \/ ScoringStep \/ KillStarts
  \/ \E S \in (SUBSET Egresses) \ {{}} : WebRestarts(S)
  \/ \E e \in Egresses : RescorerStarts(e)
  \/ \E w \in Protocols \cup {None} : RescorerPicks(w)

\* They move neither the tick nor a slot, and start no process.
LEMMA OutsideFrame ==
  ASSUME Outside
  PROVE  tick' = tick /\ slots' = slots /\ born' = born /\ alive' \subseteq alive
<1>1. CASE Surroundings
  BY <1>1 DEF Surroundings, ConfigChanges, EngineChanges, GatewayReloads, VerdictExpires, ReplicaDies
<1>2. CASE GraceEnds \/ ScoringStep \/ KillStarts
  BY <1>2 DEF GraceEnds, ScoringStep, Scores, KillStarts
<1>3. ASSUME NEW S, WebRestarts(S)
      PROVE  tick' = tick /\ slots' = slots /\ born' = born /\ alive' \subseteq alive
  BY <1>3 DEF WebRestarts
<1>4. ASSUME NEW e, RescorerStarts(e)
      PROVE  tick' = tick /\ slots' = slots /\ born' = born /\ alive' \subseteq alive
  BY <1>4 DEF RescorerStarts
<1>5. ASSUME NEW w, RescorerPicks(w)
      PROVE  tick' = tick /\ slots' = slots /\ born' = born /\ alive' \subseteq alive
  BY <1>5 DEF RescorerPicks
<1> QED
  BY <1>1, <1>2, <1>3, <1>4, <1>5 DEF Outside

\* They keep the types.
LEMMA OutsideTyped ==
  ASSUME Typed, Outside
  PROVE  Typed'
<1> USE DEF Typed
<1>1. SlotsTyped' /\ TickTyped'
  BY OutsideFrame DEF SlotsTyped, TickTyped, Planned
<1>2. ASSUME NEW c \in Configs, ConfigChanges(c)
      PROVE  WorldTyped'
  BY <1>2 DEF WorldTyped, ConfigChanges, EnvStep
<1>3. ASSUME NEW b \in {None, 0, 1}, EngineChanges(b)
      PROVE  WorldTyped'
  <2>1. base' \in Plans
    BY <1>3 DEF WorldTyped, EngineChanges, Plans, Egresses
  <2> QED
    BY <1>3, <2>1 DEF WorldTyped, EngineChanges, EnvStep
<1>4. ASSUME GatewayReloads PROVE WorldTyped'
  <2>1. base' \in Plans
    BY <1>4 DEF WorldTyped, GatewayReloads, Plans
  <2>2. EnvStep /\ UNCHANGED <<cfg, bin, grace, verdict, alive, born, slots, tick, web, rescorer,
                               scoring, killer, stopping, cfFaults>>
    BY <1>4 DEF GatewayReloads
  <2> QED
    BY <1>4, <2>1, <2>2 DEF WorldTyped, EnvStep
<1>5. ASSUME NEW e \in Egresses, VerdictExpires(e)
      PROVE  WorldTyped'
  BY <1>5 DEF WorldTyped, VerdictExpires, EnvStep
<1>6. ASSUME NEW p \in Pids, ReplicaDies(p)
      PROVE  WorldTyped'
  BY <1>6 DEF WorldTyped, ReplicaDies, Fault, world
<1>7. ASSUME GraceEnds PROVE WorldTyped'
  <2>1. grace' = FALSE
    BY <1>7 DEF GraceEnds
  <2>2. UNCHANGED <<cfg, base, bin, env, verdict, alive, born, slots, tick, web, rescorer, scoring,
                    killer, stopping, cfFaults>>
    BY <1>7 DEF GraceEnds
  <2> QED
    BY <2>1, <2>2 DEF WorldTyped
<1>8. ASSUME NEW e \in Egresses, NEW w \in Protocols \cup {None}, Scores(e, w)
      PROVE  WorldTyped'
  BY <1>8 DEF WorldTyped, Scores, world
<1>9. ASSUME KillStarts PROVE WorldTyped'
  <2>1. killer' \in Egresses /\ stopping' = TRUE
    BY <1>9 DEF KillStarts, Egresses
  <2>2. UNCHANGED <<world, verdict, alive, born, slots, tick, web, rescorer, scoring, cfFaults>>
    BY <1>9 DEF KillStarts
  <2> QED
    BY <2>1, <2>2 DEF WorldTyped, world
<1>10. ASSUME NEW S \in SUBSET Egresses, WebRestarts(S)
       PROVE  WorldTyped'
  BY <1>10 DEF WorldTyped, WebRestarts, EnvStep
<1>11. ASSUME NEW e \in Egresses, RescorerStarts(e)
       PROVE  WorldTyped'
  <2>1. slots[e].proto \in Protocols \cup {None}
    BY DEF SlotsTyped, Procs
  <2>2. rescorer' \in Rescores
    BY <1>11, <2>1 DEF RescorerStarts, Rescores
  <2> QED
    BY <1>11, <2>2 DEF WorldTyped, RescorerStarts, EnvStep
<1>12. ASSUME NEW w \in Protocols \cup {None}, RescorerPicks(w)
       PROVE  WorldTyped'
  <2>1. rescorer' \in Rescores
    BY <1>12 DEF WorldTyped, RescorerPicks, Rescores, NoRescore
  <2>2. verdict' \in [Egresses -> Protocols \cup {None}]
    BY <1>12 DEF WorldTyped, RescorerPicks, Rescores
  <2> QED
    BY <1>12, <2>1, <2>2 DEF WorldTyped, RescorerPicks, world
<1> QED
  BY <1>1, <1>2, <1>3, <1>4, <1>5, <1>6, <1>7, <1>8, <1>9, <1>10, <1>11, <1>12
     DEF Outside, Surroundings, ScoringStep

\* They keep the invariant.
LEMMA OutsideKept ==
  ASSUME CfInv, Outside
  PROVE  CfInv'
<1>1. \A e \in Egresses : SameClaim(e)
  BY OutsideFrame DEF SameClaim
<1>2. Kept'
  BY <1>1, OutsideFrame, NothingStarted DEF CfInv, NotStarting
<1> QED
  BY <1>2, OutsideTyped DEF CfInv
-----------------------------------------------------------------------------
(***************************************************************************)
(* Who starts a tick, and the shutdown.                                    *)
(***************************************************************************)

\* What the lemma NothingStarted asks of a step.
Calm ==
  /\ alive' \subseteq alive /\ born' = born /\ NotStarting
  /\ \A e \in Egresses : SameClaim(e) \/ Dropped(e)

\* A monitor that finds the lock free starts a tick.
LEMMA MonitorTicksCalm ==
  ASSUME Typed, MonitorTicks
  PROVE  Typed' /\ Calm
<1>1. tick' = Entered /\ UNCHANGED <<world, verdict, alive, born, slots, web, rescorer, scoring,
                                     killer, stopping, cfFaults>> /\ tick.pc = "idle"
  BY DEF MonitorTicks
<1>2. TickTyped'
  BY <1>1, NoTickTyped DEF TickTyped
<1>3. WorldTyped' /\ SlotsTyped'
  BY <1>1 DEF Typed, WorldTyped, SlotsTyped, world
<1>4. Calm
  BY <1>1, NoTickTyped DEF Calm, NotStarting, SameClaim
<1> QED
  BY <1>2, <1>3, <1>4 DEF Typed

\* A monitor that finds it taken resets the counts.
LEMMA MonitorSkipsCalm ==
  ASSUME Typed, MonitorSkips
  PROVE  Typed' /\ Calm
<1>1. /\ slots' = [e \in Egresses |-> [slots[e] EXCEPT !.misses = 0, !.down = 0]]
      /\ UNCHANGED <<world, verdict, alive, born, tick, web, rescorer, scoring, killer, stopping,
                     cfFaults>>
  BY DEF MonitorSkips
<1>2. \A e \in Egresses : slots'[e] \in Procs /\ SameClaim(e)
  <2> TAKE e \in Egresses
  <2> DEFINE p == slots[e]
  <2>1. p \in Procs /\ slots'[e] = [p EXCEPT !.misses = 0, !.down = 0]
    BY <1>1 DEF Typed, SlotsTyped
  <2> HIDE DEF p
  <2>2. slots'[e] \in Procs /\ slots'[e].pid = p.pid /\ slots'[e].token = p.token /\ slots'[e].stamp = p.stamp
    BY <2>1, ZeroedTyped
  <2> QED
    BY <2>2 DEF SameClaim, p
<1>3. SlotsTyped'
  BY <1>1, <1>2 DEF SlotsTyped
<1>4. WorldTyped' /\ TickTyped'
  BY <1>1 DEF Typed, WorldTyped, TickTyped, Planned, world
<1> QED
  BY <1>1, <1>2, <1>3, <1>4 DEF Typed, Calm, NotStarting

\* The panel gets the lock.
LEMMA WebLocksCalm ==
  ASSUME Typed, WebLocks
  PROVE  Typed' /\ Calm
<1>1. /\ tick.pc = "idle" /\ tick' = Entered
      /\ alive' = alive \ {slots[e].pid : e \in web}
      /\ slots' = [e \in Egresses |-> IF e \in web THEN Forgotten(slots[e]) ELSE slots[e]]
      /\ web' = None
      /\ UNCHANGED <<world, verdict, born, rescorer, scoring, killer, stopping, cfFaults>>
  BY DEF WebLocks
<1>2. \A e \in Egresses : slots'[e] \in Procs /\ (SameClaim(e) \/ Dropped(e))
  BY <1>1, ForgottenTyped DEF Typed, SlotsTyped, SameClaim, Dropped
<1>3. SlotsTyped'
  BY <1>1, <1>2 DEF SlotsTyped
<1>4. TickTyped'
  BY <1>1, NoTickTyped DEF TickTyped
<1>5. WorldTyped'
  BY <1>1 DEF Typed, WorldTyped, world
<1> QED
  BY <1>1, <1>2, <1>3, <1>4, <1>5, NoTickTyped DEF Typed, Calm, NotStarting

\* The rescoring gets it.
LEMMA RescorerSwitchesCalm ==
  ASSUME Typed, RescorerSwitches
  PROVE  Typed' /\ Calm
<1>1. /\ rescorer.pc = "waiting" /\ tick.pc = "idle" /\ KillOne(rescorer.e) /\ tick' = Entered
      /\ rescorer' = NoRescore
      /\ UNCHANGED <<world, verdict, born, web, scoring, killer, stopping, cfFaults>>
  BY DEF RescorerSwitches
<1>2. alive' = alive \ {slots[rescorer.e].pid}
  BY <1>1 DEF KillOne
<1>3. slots' = [slots EXCEPT ![rescorer.e] = Forgotten(@)]
  BY <1>1 DEF KillOne
<1>4. \A e \in Egresses : slots'[e] \in Procs /\ (SameClaim(e) \/ Dropped(e))
  BY <1>2, <1>3, ForgottenTyped DEF Typed, SlotsTyped, SameClaim, Dropped
<1>5. SlotsTyped'
  BY <1>3, <1>4 DEF SlotsTyped, Typed
<1>6. TickTyped'
  BY <1>1, NoTickTyped DEF TickTyped
<1>7. WorldTyped'
  <2>1. rescorer' \in Rescores
    BY <1>1 DEF NoRescore, Rescores
  <2> QED
    BY <1>1, <1>2, <2>1 DEF Typed, WorldTyped, world
<1> QED
  BY <1>1, <1>2, <1>4, <1>5, <1>6, <1>7, NoTickTyped DEF Typed, Calm, NotStarting

\* The shutdown stops one replica, whatever the tick is at.
LEMMA KillStepCalm ==
  ASSUME Typed, KillStep
  PROVE  Typed' /\ Calm
<1>1. /\ killer \in Egresses /\ KillOne(killer)
      /\ killer' = IF killer = "direct" THEN "proxied" ELSE "done"
      /\ UNCHANGED <<world, verdict, born, tick, web, rescorer, scoring, stopping, cfFaults>>
  BY DEF KillStep
<1>2. alive' \subseteq alive /\ slots' \in [Egresses -> Procs]
  BY <1>1, KillOneTyped
<1>3. \A o \in Egresses : SameClaim(o) \/ Dropped(o)
  BY <1>1, KillOneClaims
<1>4. WorldTyped'
  BY <1>1, <1>2 DEF Typed, WorldTyped, world, Egresses
<1>5. TickTyped'
  BY <1>1 DEF Typed, TickTyped, Planned
<1> QED
  BY <1>1, <1>2, <1>3, <1>4, <1>5 DEF Typed, SlotsTyped, Calm, NotStarting
-----------------------------------------------------------------------------
(***************************************************************************)
(* The sections of a tick that start no replica.                           *)
(***************************************************************************)

\* What is planned follows from the plan.
LEMMA SamePlanned ==
  ASSUME tick'.plan = tick.plan
  PROVE  Planned' = Planned /\ Next1' = Next1
  BY DEF Planned, Next1

\* A tick that is over keeps the types, if the rest does.
LEMMA OverTyped ==
  ASSUME Typed, WorldTyped', SlotsTyped', tick' = NoTick
  PROVE  Typed' /\ tick'.pc = "idle"
  BY NoTickTyped DEF Typed, TickTyped

\* A tick that goes on without a plan of one replica needs its configuration only.
LEMMA GoesOnTyped ==
  ASSUME WorldTyped', SlotsTyped', tick' \in Ticks, tick'.pc \in {"watch", "plan", "start"},
         tick'.cfg \in Configs, tick'.cfg.token # None
  PROVE  Typed'
  BY DEF Typed, TickTyped

\* The fields of a tick.
LEMMA TickFields ==
  ASSUME Typed
  PROVE  /\ tick.pc \in TickSteps /\ tick.cfg \in Configs \cup {None} /\ tick.todo \subseteq Egresses
         /\ tick.rescore \subseteq Egresses /\ tick.plan \in Plans /\ tick.rungs \in Seq(Rungs)
         /\ tick.pid \in Pids \cup {None}
  BY DEF Typed, TickTyped, Ticks

\* Stopping, or without a token.
LEMMA TickLeavesCalm ==
  ASSUME Typed, TickLeaves
  PROVE  Typed' /\ Calm
<1>1. /\ tick.pc = "enter" /\ tick' = NoTick
      /\ UNCHANGED <<world, verdict, born, web, rescorer, scoring, killer, stopping, cfFaults>>
  BY DEF TickLeaves
<1>2. CASE stopping
  <2>1. UNCHANGED <<alive, slots>>
    BY <1>2 DEF TickLeaves
  <2> QED
    BY <1>1, <2>1, OverTyped DEF Typed, WorldTyped, SlotsTyped, world, Calm, NotStarting, SameClaim
<1>3. CASE ~stopping
  <2>1. /\ alive' = alive \ {slots[e].pid : e \in Egresses}
        /\ slots' = [e \in Egresses |-> IF Running(e) THEN Forgotten(slots[e]) ELSE slots[e]]
    BY <1>3 DEF TickLeaves
  <2>2. \A e \in Egresses : slots'[e] \in Procs /\ (SameClaim(e) \/ Dropped(e))
    BY <2>1, ForgottenTyped DEF Typed, SlotsTyped, SameClaim, Dropped
  <2>3. SlotsTyped'
    BY <2>1, <2>2 DEF SlotsTyped
  <2>4. WorldTyped'
    BY <1>1, <2>1 DEF Typed, WorldTyped, world
  <2> QED
    BY <1>1, <2>1, <2>2, <2>3, <2>4, OverTyped DEF Calm, NotStarting
<1> QED
  BY <1>2, <1>3

\* The configuration is read.
LEMMA TickEntersCalm ==
  ASSUME Typed, TickEnters
  PROVE  Typed' /\ Calm
<1>1. /\ tick.pc = "enter" /\ cfg.token # None
      /\ verdict' = IF cfg.policy = "auto" THEN verdict ELSE [e \in Egresses |-> None]
      /\ tick' = [tick EXCEPT !.pc = "watch", !.cfg = cfg,
                              !.todo = {e \in Egresses : WantEgress(e, cfg)}]
      /\ UNCHANGED <<world, alive, born, slots, web, rescorer, scoring, killer, stopping, cfFaults>>
  BY DEF TickEnters
<1>2. cfg \in Configs /\ {e \in Egresses : WantEgress(e, cfg)} \in SUBSET Egresses
  BY DEF Typed, WorldTyped
<1>3. tick' \in Ticks /\ tick'.pc = "watch" /\ tick'.cfg = cfg
  <2> DEFINE S == {e \in Egresses : WantEgress(e, cfg)}
  <2>1. S \in SUBSET Egresses
    OBVIOUS
  <2>2. tick' = [tick EXCEPT !.pc = "watch", !.cfg = cfg, !.todo = S]
    BY <1>1
  <2> HIDE DEF S
  <2> QED
    BY <1>2, <2>1, <2>2 DEF Typed, TickTyped, Ticks, TickSteps
<1>4. WorldTyped' /\ SlotsTyped'
  BY <1>1 DEF Typed, WorldTyped, SlotsTyped, world
<1> QED
  BY <1>1, <1>2, <1>3, <1>4, GoesOnTyped DEF Calm, NotStarting, SameClaim

\* A tunnel is registered.
LEMMA WatchdogReadyCalm ==
  ASSUME Typed, WatchdogReady
  PROVE  Typed' /\ Calm
<1> DEFINE e == First(tick.todo)
<1>1. /\ tick.pc = "watch" /\ tick.todo # {}
      /\ slots' = [slots EXCEPT ![e].misses = 0, ![e].down = 0]
      /\ Watched(e, {})
      /\ UNCHANGED <<world, verdict, alive, born, web, rescorer, scoring, killer, stopping, cfFaults>>
  BY DEF WatchdogReady
<1>2. e \in Egresses
  BY <1>1, FirstIsOne, TickFields
<1>3. tick' = [tick EXCEPT !.todo = @ \ {e}, !.rescore = @ \cup {}]
  BY <1>1 DEF Watched
<1> HIDE DEF e
<1>4. slots'[e] = [slots[e] EXCEPT !.misses = 0, !.down = 0] /\ \A o \in Egresses \ {e} : slots'[o] = slots[o]
  BY <1>1, <1>2 DEF Typed, SlotsTyped
<1>5. slots'[e] \in Procs /\ SameClaim(e)
  BY <1>2, <1>4, ZeroedTyped DEF Typed, SlotsTyped, SameClaim
<1>6. SlotsTyped' /\ \A o \in Egresses : SameClaim(o)
  BY <1>1, <1>2, <1>4, <1>5 DEF Typed, SlotsTyped, SameClaim
<1>7. tick' \in Ticks /\ tick'.pc = "watch" /\ tick'.cfg = tick.cfg
  BY <1>1, <1>3 DEF Typed, TickTyped, Ticks
<1>8. WorldTyped'
  BY <1>1 DEF Typed, WorldTyped, world
<1> QED
  BY <1>1, <1>6, <1>7, <1>8, GoesOnTyped DEF Typed, TickTyped, Calm, NotStarting

\* A tunnel is not: the replica is counted, or stopped.
LEMMA WatchdogMissesCalm ==
  ASSUME Typed, WatchdogMisses
  PROVE  Typed' /\ Calm
<1> DEFINE e == First(tick.todo)
           p == [slots[e] EXCEPT !.misses = @ + 1, !.down = IF @ < RescoreAfter THEN @ + 1 ELSE @]
           rescore == p.down >= RescoreAfter /\ tick.cfg.policy = "auto"
           restart == TooManyMisses(p)
           q == IF rescore THEN [Forgotten(p) EXCEPT !.misses = 0, !.down = 0]
                ELSE IF restart THEN [Forgotten(p) EXCEPT !.misses = 0] ELSE p
<1>1. /\ tick.pc = "watch" /\ tick.todo # {}
      /\ cfFaults' \in {cfFaults, cfFaults + 1}
      /\ UNCHANGED <<world, verdict, born, web, rescorer, scoring, killer, stopping>>
  BY DEF WatchdogMisses, Fault
<1>2. e \in Egresses
  BY <1>1, FirstIsOne, TickFields
<1>3. \/ UNCHANGED <<alive, slots>> /\ Watched(e, {})
      \/ /\ alive' = IF rescore \/ restart THEN alive \ {p.pid} ELSE alive
         /\ slots' = [slots EXCEPT ![e] = q]
         /\ Watched(e, IF rescore THEN {e} ELSE {})
  BY DEF WatchdogMisses
<1>4. PICK more \in {{}, {e}} : tick' = [tick EXCEPT !.todo = @ \ {e}, !.rescore = @ \cup more]
  BY <1>3 DEF Watched
<1>5. slots[e] \in Procs /\ p.pid = slots[e].pid /\ p.token = slots[e].token /\ p.stamp = slots[e].stamp
      /\ p.proto = slots[e].proto /\ p.misses = slots[e].misses + 1
      /\ p.down \in 0 .. RescoreAfter
  <2>1. slots[e] \in Procs
    BY <1>2 DEF Typed, SlotsTyped
  <2>2. slots[e].down \in 0 .. RescoreAfter
    BY <2>1 DEF Procs
  <2> QED
    BY <2>1, <2>2, CfConstants DEF Procs
<1>6. q \in Procs
  <2> DEFINE Missed == [pid : Pids \cup {None}, token : Tokens \cup {None}, stamp : Stamps \cup {None},
                        proto : Protocols \cup {None}, misses : Nat, down : 0 .. RescoreAfter]
             d == IF slots[e].down < RescoreAfter THEN slots[e].down + 1 ELSE slots[e].down
  <2>1. p \in Missed
    <3>1. p = [slots[e] EXCEPT !.misses = slots[e].misses + 1, !.down = d]
      OBVIOUS
    <3>2. slots[e] \in Missed /\ slots[e].down \in 0 .. RescoreAfter
      BY <1>5, CfConstants DEF Procs
    <3>3. d \in 0 .. RescoreAfter /\ slots[e].misses + 1 \in Nat
      BY <3>2, CfConstants
    <3> HIDE DEF d, e, p
    <3> QED
      BY <3>1, <3>2, <3>3
  <2> HIDE DEF p
  <2>2. Forgotten(p) \in Missed
    BY <2>1 DEF Forgotten
  <2>3. 0 \in 0 .. ReadyMisses - 1 /\ 0 \in 0 .. RescoreAfter
    BY CfConstants
  <2>4. ASSUME NEW x \in Missed
        PROVE  [x EXCEPT !.misses = 0, !.down = 0] \in Procs /\ [x EXCEPT !.misses = 0] \in Procs
    BY <2>3 DEF Procs
  <2>5. ~TooManyMisses(p) => p \in Procs
    <3>1. ~TooManyMisses(p) => p.misses \in 0 .. ReadyMisses - 1
      BY <2>1, CfConstants DEF TooManyMisses
    <3> QED
      BY <2>1, <3>1 DEF Procs
  <2> HIDE DEF Missed
  <2>6. CASE rescore
    BY <2>2, <2>4, <2>6
  <2>7. CASE ~rescore /\ restart
    BY <2>2, <2>4, <2>7
  <2>8. CASE ~rescore /\ ~restart
    BY <2>5, <2>8
  <2> QED
    BY <2>6, <2>7, <2>8
<1>7. (rescore \/ restart) => q.pid = None /\ q.token = None
  <2>1. Forgotten(p).pid = None /\ Forgotten(p).token = None
    BY <1>5 DEF Forgotten, Procs
  <2> QED
    BY <1>5, <2>1 DEF Forgotten, Procs
<1>8. ~(rescore \/ restart) => q = p
  OBVIOUS
<1> DEFINE gone == rescore \/ restart
<1>9. \/ UNCHANGED <<alive, slots>>
      \/ /\ alive' = IF gone THEN alive \ {p.pid} ELSE alive
         /\ slots' = [slots EXCEPT ![e] = q]
  BY <1>3
<1>10. (gone => q.pid = None /\ q.token = None) /\ (~gone => q = p)
  BY <1>7, <1>8
<1> HIDE DEF e, p, q, rescore, restart, gone
<1>11. SlotsTyped' /\ alive' \subseteq alive
  BY <1>2, <1>6, <1>9 DEF Typed, SlotsTyped
<1>12. \A o \in Egresses : SameClaim(o) \/ Dropped(o)
  BY <1>2, <1>5, <1>9, <1>10 DEF Typed, SlotsTyped, SameClaim, Dropped
<1>13. tick' \in Ticks /\ tick'.pc = "watch" /\ tick'.cfg = tick.cfg
  BY <1>1, <1>2, <1>4 DEF Typed, TickTyped, Ticks
<1>14. WorldTyped'
  BY <1>1, <1>11 DEF Typed, WorldTyped, world
<1> QED
  BY <1>1, <1>11, <1>12, <1>13, <1>14, GoesOnTyped DEF Typed, TickTyped, Calm, NotStarting

\* What the watchdog gave up on is scored, and then the starts are planned.
LEMMA TickScoresCalm ==
  ASSUME Typed, NEW w \in Protocols \cup {None}, TickScores(w)
  PROVE  Typed' /\ Calm
<1>1. /\ tick.pc = "watch" /\ tick.rescore # {}
      /\ verdict' = IF w = None THEN verdict ELSE [verdict EXCEPT ![First(tick.rescore)] = w]
      /\ tick' = [tick EXCEPT !.rescore = @ \ {First(tick.rescore)}]
      /\ UNCHANGED <<world, alive, born, slots, web, rescorer, scoring, killer, stopping, cfFaults>>
  BY DEF TickScores
<1>2. tick' \in Ticks /\ tick'.pc = "watch" /\ tick'.cfg = tick.cfg
  BY <1>1 DEF Typed, TickTyped, Ticks
<1>3. WorldTyped' /\ SlotsTyped'
  BY <1>1 DEF Typed, WorldTyped, SlotsTyped, world
<1> QED
  BY <1>1, <1>2, <1>3, GoesOnTyped DEF Typed, TickTyped, Calm, NotStarting, SameClaim

\* The watchdog is through: every egress is looked at.
LEMMA TickPlansCalm ==
  ASSUME Typed, TickPlans
  PROVE  Typed' /\ Calm
<1>1. /\ tick.pc = "watch" /\ tick' = [tick EXCEPT !.pc = "plan", !.todo = Egresses]
      /\ UNCHANGED <<world, verdict, alive, born, slots, web, rescorer, scoring, killer, stopping, cfFaults>>
  BY DEF TickPlans
<1>2. tick' \in Ticks /\ tick'.pc = "plan" /\ tick'.cfg = tick.cfg
  BY <1>1 DEF Typed, TickTyped, Ticks, TickSteps
<1>3. WorldTyped' /\ SlotsTyped'
  BY <1>1 DEF Typed, WorldTyped, SlotsTyped, world
<1> QED
  BY <1>1, <1>2, <1>3, GoesOnTyped DEF Typed, TickTyped, Calm, NotStarting, SameClaim

\* One egress is stopped, left or planned.
LEMMA PlanOneCalm ==
  ASSUME Typed, PlanOne
  PROVE  Typed' /\ Calm
<1> DEFINE e == First(tick.todo)
           stop == ~WantEgress(e, tick.cfg) \/ base[e] = None
           start == IF ~stop /\ NeedsStart(e) THEN base[e] ELSE None
<1>1. /\ tick.pc = "plan" /\ tick.todo # {}
      /\ KillOne(e) \/ UNCHANGED <<alive, slots>>
      /\ tick' = [tick EXCEPT !.todo = @ \ {e}, !.plan[e] = start]
      /\ UNCHANGED <<world, verdict, born, web, rescorer, scoring, killer, stopping, cfFaults>>
  BY DEF PlanOne
<1>2. e \in Egresses
  BY <1>1, FirstIsOne, TickFields
<1>3. start \in Nat \cup {None}
  BY <1>2 DEF Typed, WorldTyped, Plans
<1> HIDE DEF e, start
<1>4. alive' \subseteq alive /\ SlotsTyped' /\ \A o \in Egresses : SameClaim(o) \/ Dropped(o)
  BY <1>1, <1>2, KillOneTyped, KillOneClaims DEF Typed, SlotsTyped, SameClaim
<1>5. tick' \in Ticks /\ tick'.pc = "plan" /\ tick'.cfg = tick.cfg
  BY <1>1, <1>2, <1>3 DEF Typed, TickTyped, Ticks, Plans
<1>6. WorldTyped'
  BY <1>1, <1>4 DEF Typed, WorldTyped, world
<1> QED
  BY <1>1, <1>4, <1>5, <1>6, GoesOnTyped DEF Typed, TickTyped, Calm, NotStarting

\* The background scoring begins.
LEMMA SpawnScoringTyped ==
  ASSUME Typed, NEW S \in SUBSET Egresses, SpawnScoring(S) \/ UNCHANGED scoring
  PROVE  scoring' \subseteq Egresses
  BY DEF SpawnScoring, Typed, WorldTyped

\* Nothing is to be started.
LEMMA TickRestsCalm ==
  ASSUME Typed, NEW S \in SUBSET Egresses, TickRests(S)
  PROVE  Typed' /\ Calm
<1>1. /\ tick.pc = "plan" /\ tick' = NoTick /\ (SpawnScoring(S) \/ UNCHANGED scoring)
      /\ UNCHANGED <<world, verdict, alive, born, slots, web, rescorer, killer, stopping, cfFaults>>
  BY DEF TickRests, NothingPlanned
<1>2. WorldTyped' /\ SlotsTyped'
  BY <1>1, SpawnScoringTyped DEF Typed, WorldTyped, SlotsTyped, world
<1> QED
  BY <1>1, <1>2, OverTyped DEF Calm, NotStarting, SameClaim

\* Everything planned was started.
LEMMA TickEndsCalm ==
  ASSUME Typed, NEW S \in SUBSET Egresses, TickEnds(S)
  PROVE  Typed' /\ Calm
<1>1. /\ tick.pc = "start" /\ tick' = NoTick /\ (SpawnScoring(S) \/ UNCHANGED scoring)
      /\ UNCHANGED <<world, verdict, alive, born, slots, web, rescorer, killer, stopping, cfFaults>>
  BY DEF TickEnds
<1>2. WorldTyped' /\ SlotsTyped'
  BY <1>1, SpawnScoringTyped DEF Typed, WorldTyped, SlotsTyped, world
<1> QED
  BY <1>1, <1>2, OverTyped DEF Calm, NotStarting, SameClaim

\* What an update restarts is a plan.
LEMMA AllWantedTyped ==
  ASSUME Typed, NEW c
  PROVE  AllWanted(c) \in Plans
  BY DEF AllWanted, Plans, Typed, WorldTyped

\* All replicas are restarted for a new binary.
LEMMA TickUpdatesCalm ==
  ASSUME Typed, TickUpdates
  PROVE  Typed' /\ Calm
<1>1. /\ tick.pc = "plan" /\ EnvStep /\ bin' = bin + 1
      /\ tick' = [tick EXCEPT !.pc = "start", !.plan = AllWanted(tick.cfg), !.chore = TRUE]
      /\ UNCHANGED <<cfg, base, grace, verdict, alive, born, slots, web, rescorer, scoring, killer,
                     stopping, cfFaults>>
  BY DEF TickUpdates, NothingPlanned
<1>2. tick' \in Ticks /\ tick'.pc = "start" /\ tick'.cfg = tick.cfg
  BY <1>1, AllWantedTyped DEF Typed, TickTyped, Ticks, TickSteps
<1>3. WorldTyped' /\ SlotsTyped'
  BY <1>1 DEF Typed, WorldTyped, SlotsTyped, EnvStep
<1> QED
  BY <1>1, <1>2, <1>3, GoesOnTyped DEF Typed, TickTyped, Calm, NotStarting, SameClaim

\* The binary is fetched, or is not.
LEMMA BinaryComesInCalm ==
  ASSUME Typed, BinaryComesIn
  PROVE  Typed' /\ Calm
<1>1. /\ tick.pc = "plan"
      /\ \/ bin' = 1 /\ UNCHANGED <<tick, cfFaults>>
         \/ cfFaults' = cfFaults + 1 /\ tick' = NoTick /\ UNCHANGED bin
      /\ UNCHANGED <<cfg, base, grace, env, verdict, alive, born, slots, web, rescorer, scoring,
                     killer, stopping>>
  BY DEF BinaryComesIn, SomethingPlanned, Fault
<1>2. WorldTyped' /\ SlotsTyped'
  BY <1>1 DEF Typed, WorldTyped, SlotsTyped
<1>3. tick' = NoTick \/ (tick' = tick /\ Typed')
  BY <1>1, <1>2, GoesOnTyped DEF Typed, TickTyped
<1> QED
  BY <1>1, <1>2, <1>3, OverTyped DEF Calm, NotStarting, SameClaim

\* Shortly after the start of sniffbox the starts are put off.
LEMMA DefersCalm ==
  ASSUME Typed, Defers
  PROVE  Typed' /\ Calm
<1>1. /\ tick.pc = "plan" /\ tick' = NoTick
      /\ UNCHANGED <<world, verdict, alive, born, slots, web, rescorer, scoring, killer, stopping, cfFaults>>
  BY DEF Defers, SomethingPlanned
<1>2. WorldTyped' /\ SlotsTyped'
  BY <1>1 DEF Typed, WorldTyped, SlotsTyped, world
<1> QED
  BY <1>1, <1>2, OverTyped DEF Calm, NotStarting, SameClaim

\* The starts begin, with what an update adds to them.
LEMMA StartsPlannedCalm ==
  ASSUME Typed, StartsPlanned
  PROVE  Typed' /\ Calm
<1> DEFINE more == [e \in Egresses |-> IF e \in Planned THEN tick.plan[e] ELSE AllWanted(tick.cfg)[e]]
<1>1. /\ tick.pc = "plan"
      /\ UNCHANGED <<cfg, base, grace, verdict, alive, born, slots, web, rescorer, scoring, killer,
                     stopping, cfFaults>>
  BY DEF StartsPlanned, SomethingPlanned
<1>2. \/ tick' = [tick EXCEPT !.pc = "start"] /\ UNCHANGED <<bin, env>>
      \/ EnvStep /\ bin' = bin + 1 /\ tick' = [tick EXCEPT !.pc = "start", !.plan = more]
  BY DEF StartsPlanned
<1>3. more \in Plans
  BY AllWantedTyped, TickFields DEF Plans
<1> HIDE DEF more
<1>4. tick' \in Ticks /\ tick'.pc = "start" /\ tick'.cfg = tick.cfg
  <2>1. CASE tick' = [tick EXCEPT !.pc = "start"]
    BY <2>1 DEF Typed, TickTyped, Ticks, TickSteps
  <2>2. CASE tick' = [tick EXCEPT !.pc = "start", !.plan = more]
    BY <2>2, <1>3 DEF Typed, TickTyped, Ticks, TickSteps
  <2> QED
    BY <1>2, <2>1, <2>2
<1>5. WorldTyped' /\ SlotsTyped'
  BY <1>1, <1>2 DEF Typed, WorldTyped, SlotsTyped, EnvStep
<1> QED
  BY <1>1, <1>4, <1>5, GoesOnTyped DEF Typed, TickTyped, Calm, NotStarting, SameClaim
-----------------------------------------------------------------------------
(***************************************************************************)
(* start_replica, up to the kill and after the slot is written.            *)
(***************************************************************************)

\* The replica is over, one way or the other.
LEMMA LeaveTyped ==
  ASSUME Typed, Planned # {}, Leave, WorldTyped', SlotsTyped',
         tick.cfg \in Configs, tick.cfg.token # None
  PROVE  Typed' /\ tick'.pc = "start"
<1> DEFINE f == [tick.plan EXCEPT ![Next1] = None]
<1>1. f \in Plans
  BY TickFields, NextIsPlanned DEF Plans
<1>2. tick' = [tick EXCEPT !.pc = "start", !.plan = f, !.rungs = <<>>, !.first = TRUE, !.pid = None]
  BY DEF Leave
<1> HIDE DEF f
<1>3. tick' \in Ticks /\ tick'.pc = "start" /\ tick'.cfg = tick.cfg
  <2>1. tick \in Ticks
    BY DEF Typed, TickTyped
  <2> DEFINE R == Seq(Rungs)
             Q == Pids \cup {None}
             C == Configs \cup {None}
             E == SUBSET Egresses
  <2>2. Ticks = [pc : TickSteps, cfg : C, todo : E, rescore : E, plan : Plans, rungs : R,
                 first : BOOLEAN, pid : Q, chore : BOOLEAN]
    BY DEF Ticks
  <2>3. "start" \in TickSteps /\ <<>> \in R /\ None \in Q
    BY DEF TickSteps
  <2> HIDE DEF R, Q, C, E
  <2> QED
    BY <1>1, <1>2, <2>1, <2>2, <2>3
<1> QED
  BY <1>3, GoesOnTyped

\* The ladder is set up.
LEMMA StartReplicaCalm ==
  ASSUME Typed, StartReplica
  PROVE  Typed' /\ Calm
<1> DEFINE r == Ladder(tick.cfg.policy, verdict[Next1])
<1>1. /\ tick.pc = "start" /\ Planned # {}
      /\ tick' = [tick EXCEPT !.pc = "rung", !.rungs = r, !.first = TRUE]
      /\ UNCHANGED <<world, verdict, alive, born, slots, web, rescorer, scoring, killer, stopping, cfFaults>>
  BY DEF StartReplica
<1>2. tick.cfg \in Configs /\ tick.cfg.token # None
  BY <1>1 DEF Typed, TickTyped
<1>3. r \in Seq(Rungs) /\ r # <<>>
  BY <1>2, ConfigFields, LadderTyped
<1> HIDE DEF r
<1>4. tick' \in Ticks /\ tick'.pc = "rung" /\ tick'.cfg = tick.cfg /\ tick'.rungs = r /\ tick'.plan = tick.plan
  BY <1>1, <1>3 DEF Typed, TickTyped, Ticks, TickSteps
<1>5. TickTyped'
  BY <1>1, <1>2, <1>3, <1>4, SamePlanned DEF TickTyped
<1>6. WorldTyped' /\ SlotsTyped'
  BY <1>1 DEF Typed, WorldTyped, SlotsTyped, world
<1> QED
  BY <1>1, <1>4, <1>5, <1>6 DEF Typed, Calm, NotStarting, SameClaim

\* Nothing answers: the replica stops and the start is given up.
LEMMA LinkDownCalm ==
  ASSUME Typed, LinkDown
  PROVE  Typed' /\ Calm
<1>1. /\ tick.pc = "rung" /\ cfFaults' = cfFaults + 1 /\ Leave
      /\ KillOne(Next1) \/ UNCHANGED <<alive, slots>>
      /\ UNCHANGED <<world, verdict, born, web, rescorer, scoring, killer, stopping>>
  BY DEF LinkDown, Fault
<1>2. Planned # {} /\ Next1 \in Egresses /\ tick.cfg \in Configs /\ tick.cfg.token # None
  BY <1>1, NextIsPlanned DEF Typed, TickTyped
<1>3. alive' \subseteq alive /\ SlotsTyped' /\ \A o \in Egresses : SameClaim(o) \/ Dropped(o)
  BY <1>1, <1>2, KillOneTyped, KillOneClaims DEF Typed, SlotsTyped, SameClaim
<1>4. WorldTyped'
  BY <1>1, <1>3 DEF Typed, WorldTyped, world
<1> QED
  BY <1>1, <1>2, <1>3, <1>4, LeaveTyped DEF Calm, NotStarting

\* The spawn fails.
LEMMA SpawnsNothingCalm ==
  ASSUME Typed, SpawnsNothing
  PROVE  Typed' /\ Calm
<1>1. /\ tick.pc = "spawn" /\ cfFaults' = cfFaults + 1 /\ Leave
      /\ UNCHANGED <<world, verdict, alive, born, slots, web, rescorer, scoring, killer, stopping>>
  BY DEF SpawnsNothing, Fault
<1>2. Planned # {} /\ tick.cfg \in Configs /\ tick.cfg.token # None
  BY <1>1 DEF Typed, TickTyped
<1>3. WorldTyped' /\ SlotsTyped'
  BY <1>1 DEF Typed, WorldTyped, SlotsTyped, world
<1> QED
  BY <1>1, <1>2, <1>3, LeaveTyped DEF Calm, NotStarting, SameClaim

\* The transport of a rung.
LEMMA RungTyped ==
  ASSUME Typed, tick.rungs # <<>>
  PROVE  Head(tick.rungs).proto \in Protocols
<1>1. Head(tick.rungs) \in Rungs
  BY TickFields
<1> QED
  BY <1>1 DEF Rungs

\* A fallback that is settled on is a verdict.
LEMMA SettledTyped ==
  ASSUME Typed, NEW e, NEW w \in Protocols, Settled(e, w)
  PROVE  verdict' \in [Egresses -> Protocols \cup {None}]
  BY DEF Settled, Typed, WorldTyped

\* The tunnel registers.
LEMMA ConnectedCalm ==
  ASSUME Typed, Connected
  PROVE  Typed' /\ Calm
<1>1. /\ tick.pc = "wait" /\ Settled(Next1, Head(tick.rungs).proto) /\ Leave
      /\ UNCHANGED <<world, alive, born, slots, web, rescorer, scoring, killer, stopping, cfFaults>>
  BY DEF Connected
<1>2. Planned # {} /\ tick.rungs # <<>> /\ tick.cfg \in Configs /\ tick.cfg.token # None
  BY <1>1 DEF Typed, TickTyped
<1>3. verdict' \in [Egresses -> Protocols \cup {None}]
  BY <1>1, <1>2, RungTyped, SettledTyped
<1>4. WorldTyped' /\ SlotsTyped'
  BY <1>1, <1>3 DEF Typed, WorldTyped, SlotsTyped, world
<1> QED
  BY <1>1, <1>2, <1>4, LeaveTyped DEF Calm, NotStarting, SameClaim

\* It does not, and the next transport is tried.
LEMMA FallsBackCalm ==
  ASSUME Typed, FallsBack
  PROVE  Typed' /\ Calm
<1>1. /\ tick.pc = "wait" /\ cfFaults' \in {cfFaults, cfFaults + 1} /\ KillOne(Next1)
      /\ tick' = [tick EXCEPT !.pc = "rung", !.rungs = Tail(@), !.first = FALSE]
      /\ UNCHANGED <<world, verdict, born, web, rescorer, scoring, killer, stopping>>
  BY DEF FallsBack, Fault
<1>2. Next1 \in Egresses /\ Planned # {} /\ tick.cfg \in Configs /\ tick.cfg.token # None
      /\ tick.rungs \in Seq(Rungs) /\ Len(tick.rungs) > 1
  BY <1>1, NextIsPlanned, TickFields DEF Typed, TickTyped
<1> DEFINE r == Tail(tick.rungs)
<1>3. r \in Seq(Rungs) /\ r # <<>>
  BY <1>2, SMTT(30)
<1>4. tick' = [tick EXCEPT !.pc = "rung", !.rungs = r, !.first = FALSE]
  BY <1>1
<1> HIDE DEF r
<1>5. tick' \in Ticks /\ tick'.pc = "rung" /\ tick'.cfg = tick.cfg /\ tick'.rungs = r /\ tick'.plan = tick.plan
  BY <1>3, <1>4 DEF Typed, TickTyped, Ticks, TickSteps
<1>6. TickTyped'
  BY <1>2, <1>3, <1>5, SamePlanned DEF TickTyped
<1>7. alive' \subseteq alive /\ SlotsTyped' /\ \A o \in Egresses : SameClaim(o) \/ Dropped(o)
  BY <1>1, <1>2, KillOneTyped, KillOneClaims DEF SlotsTyped
<1>8. WorldTyped'
  BY <1>1, <1>7 DEF Typed, WorldTyped, world
<1> QED
  BY <1>1, <1>5, <1>6, <1>7, <1>8 DEF Typed, Calm, NotStarting
-----------------------------------------------------------------------------
(***************************************************************************)
(* The sections between the kill and the slot.                             *)
(***************************************************************************)

\* A section of the start that leaves the plan and the transports alone.
LEMMA SectionTyped ==
  ASSUME Typed, WorldTyped', SlotsTyped', NEW pc \in {"spawn", "latch", "record", "wait"},
         NEW q \in Pids \cup {None}, tick' = [tick EXCEPT !.pc = pc, !.pid = q],
         tick.pc \in {"rung", "spawn", "latch", "record"}, pc = "wait" => Len(tick.rungs) > 1
  PROVE  /\ Typed' /\ tick'.pc = pc /\ tick'.pid = q /\ tick'.cfg = tick.cfg
         /\ tick'.rungs = tick.rungs /\ Planned' = Planned /\ Next1' = Next1
<1>1. /\ tick' \in Ticks /\ tick'.pc = pc /\ tick'.pid = q /\ tick'.cfg = tick.cfg
      /\ tick'.rungs = tick.rungs /\ tick'.plan = tick.plan
  BY DEF Typed, TickTyped, Ticks, TickSteps
<1>2. Planned' = Planned /\ Next1' = Next1
  BY <1>1, SamePlanned
<1>3. TickTyped'
  BY <1>1, <1>2 DEF Typed, TickTyped
<1> QED
  BY <1>1, <1>2, <1>3 DEF Typed

\* The same, said of a step that leaves the process alone too.
LEMMA SamePid ==
  ASSUME Typed, NEW pc, tick' = [tick EXCEPT !.pc = pc]
  PROVE  tick' = [tick EXCEPT !.pc = pc, !.pid = tick.pid] /\ tick.pid \in Pids \cup {None}
  BY DEF Typed, TickTyped, Ticks

\* The old replica is stopped: its egress has no process left.
LEMMA ReplaceReplicaKept ==
  ASSUME CfInv, ReplaceReplica
  PROVE  CfInv'
<1> USE DEF CfInv, Kept
<1>1. /\ tick.pc = "rung" /\ KillOne(Next1) /\ tick' = [tick EXCEPT !.pc = "spawn"]
      /\ UNCHANGED <<world, verdict, born, web, rescorer, scoring, killer, stopping, cfFaults>>
  BY DEF ReplaceReplica
<1>2. Next1 \in Egresses
  BY <1>1, NextIsPlanned DEF Typed, TickTyped
<1>3. alive' \subseteq alive /\ SlotsTyped' /\ \A o \in Egresses : SameClaim(o) \/ Dropped(o)
  BY <1>1, <1>2, KillOneTyped, KillOneClaims DEF SlotsTyped
<1>4. WorldTyped'
  BY <1>1, <1>3 DEF Typed, WorldTyped, world
<1>5. Typed' /\ tick'.pc = "spawn" /\ Next1' = Next1
  BY <1>1, <1>3, <1>4, SamePid, SectionTyped
<1>6. BornSomewhere'
  BY <1>1, <1>3 DEF BornSomewhere
<1>7. AllTracked'
  <2> SUFFICES ASSUME NEW p \in alive'
               PROVE  p = slots'[born[p].e].pid
    BY <1>1 DEF AllTracked
  <2>1. born[p].e \in Egresses /\ p = slots[born[p].e].pid
    BY <1>1, <1>3 DEF BornSomewhere, AllTracked
  <2> QED
    BY <1>3, <2>1 DEF SameClaim, Dropped
<1>8. SlotTruthful'
  <2> SUFFICES ASSUME NEW e \in Egresses, slots'[e].pid \in alive', slots'[e].token # None
               PROVE  /\ born[slots'[e].pid].e = e
                      /\ born[slots'[e].pid].token = slots'[e].token
                      /\ born[slots'[e].pid].proto = slots'[e].stamp.proto
    BY <1>1 DEF SlotTruthful, Running
  <2>1. SameClaim(e)
    BY <1>3 DEF Dropped
  <2> QED
    BY <1>3, <2>1 DEF SameClaim, SlotTruthful, Running
<1>9. Cleared'
  <2> SUFFICES ASSUME NEW p \in alive', born[p].e = Next1
               PROVE  FALSE
    BY <1>1, <1>5 DEF Cleared
  <2>1. p = slots[Next1].pid
    BY <1>1, <1>3 DEF AllTracked
  <2> QED
    BY <1>1, <2>1 DEF KillOne
<1>10. Fresh'
  BY <1>5 DEF Fresh
<1> QED
  BY <1>5, <1>6, <1>7, <1>8, <1>9, <1>10

\* A process is started with what the tick asks for.
LEMMA SpawnKept ==
  ASSUME CfInv, NEW p \in Pids, SpawnCf(p)
  PROVE  CfInv'
<1> USE DEF CfInv, Kept
<1> DEFINE b == [e |-> Next1, token |-> tick.cfg.token, proto |-> Head(tick.rungs).proto]
<1>1. /\ tick.pc = "spawn" /\ p \notin alive /\ (\A e \in Egresses : slots[e].pid # p)
      /\ alive' = alive \cup {p} /\ born' = [born EXCEPT ![p] = b]
      /\ tick' = [tick EXCEPT !.pc = "latch", !.pid = p]
      /\ UNCHANGED <<world, verdict, slots, web, rescorer, scoring, killer, stopping, cfFaults>>
  BY DEF SpawnCf
<1>2. /\ Next1 \in Egresses /\ tick.cfg \in Configs /\ tick.cfg.token # None
      /\ tick.rungs # <<>> /\ Head(tick.rungs).proto \in Protocols
  BY <1>1, NextIsPlanned, RungTyped DEF Typed, TickTyped
<1>3. b \in Births /\ b.e = Next1
  BY <1>2, ConfigFields DEF Births
<1> HIDE DEF b
<1>4. born' \in [Pids -> Births] /\ born'[p] = b /\ \A q \in Pids \ {p} : born'[q] = born[q]
  BY <1>1, <1>3 DEF Typed, WorldTyped
<1>5. alive \subseteq Pids
  BY DEF Typed, WorldTyped
<1>6. WorldTyped' /\ SlotsTyped'
  BY <1>1, <1>4, <1>5 DEF Typed, WorldTyped, SlotsTyped, world
<1>7. Typed' /\ tick'.pc = "latch" /\ tick'.pid = p /\ tick'.cfg = tick.cfg /\ tick'.rungs = tick.rungs
      /\ Next1' = Next1
  BY <1>1, <1>6, SectionTyped
<1>8. BornSomewhere'
  BY <1>1, <1>2, <1>3, <1>4, <1>5 DEF BornSomewhere
<1>9. AllTracked'
  BY <1>1, <1>4, <1>5, <1>7 DEF AllTracked
<1>10. SlotTruthful'
  <2> SUFFICES ASSUME NEW e \in Egresses, slots[e].pid \in alive', slots[e].token # None
               PROVE  /\ born'[slots[e].pid].e = e
                      /\ born'[slots[e].pid].token = slots[e].token
                      /\ born'[slots[e].pid].proto = slots[e].stamp.proto
    BY <1>1 DEF SlotTruthful, Running
  <2>1. slots[e].pid \in alive /\ slots[e].pid # p
    BY <1>1
  <2> QED
    BY <1>4, <1>5, <2>1 DEF SlotTruthful, Running
<1>11. Cleared'
  BY <1>7 DEF Cleared
<1>12. Fresh'
  <2>1. \A q \in alive' : born'[q].e = Next1 => q = p
    BY <1>1, <1>4, <1>5 DEF Cleared
  <2> QED
    BY <1>1, <1>4, <1>7, <2>1 DEF Fresh, b
<1> QED
  BY <1>7, <1>8, <1>9, <1>10, <1>11, <1>12

\* A shutdown has begun meanwhile: the process is stopped again.
LEMMA DisownedKept ==
  ASSUME CfInv, Disowned
  PROVE  CfInv'
<1> USE DEF CfInv, Kept
<1>1. /\ tick.pc = "latch" /\ alive' = alive \ {tick.pid} /\ Leave
      /\ slots' = [slots EXCEPT ![Next1] = Forgotten(@)]
      /\ UNCHANGED <<world, verdict, born, web, rescorer, scoring, killer, stopping, cfFaults>>
  BY DEF Disowned
<1>2. Planned # {} /\ Next1 \in Egresses /\ tick.cfg \in Configs /\ tick.cfg.token # None
  BY <1>1, NextIsPlanned DEF Typed, TickTyped
<1>3. /\ slots' \in [Egresses -> Procs] /\ slots'[Next1].pid = None /\ slots'[Next1].token = None
      /\ \A e \in Egresses \ {Next1} : slots'[e] = slots[e]
  BY <1>1, <1>2, ForgottenTyped DEF Typed, SlotsTyped
<1>4. WorldTyped' /\ SlotsTyped'
  BY <1>1, <1>3 DEF Typed, WorldTyped, SlotsTyped, world
<1>5. Typed' /\ tick'.pc = "start"
  BY <1>1, <1>2, <1>4, LeaveTyped
<1>6. BornSomewhere'
  BY <1>1 DEF BornSomewhere
<1>7. \A p \in alive' : born[p].e # Next1
  BY <1>1 DEF Fresh
<1>8. AllTracked'
  <2> SUFFICES ASSUME NEW p \in alive'
               PROVE  p = slots'[born[p].e].pid
    BY <1>1 DEF AllTracked
  <2>1. born[p].e \in Egresses \ {Next1} /\ p = slots[born[p].e].pid
    BY <1>1, <1>7 DEF BornSomewhere, AllTracked
  <2> QED
    BY <1>3, <2>1
<1>9. SlotTruthful'
  BY <1>1, <1>2, <1>3 DEF SlotTruthful, Running
<1>10. Cleared' /\ Fresh'
  BY <1>5 DEF Cleared, Fresh
<1> QED
  BY <1>5, <1>6, <1>8, <1>9, <1>10

\* None has: the process may be entered.
LEMMA PassesLatchKept ==
  ASSUME CfInv, PassesLatch
  PROVE  CfInv'
<1> USE DEF CfInv, Kept
<1>1. /\ tick.pc = "latch" /\ tick' = [tick EXCEPT !.pc = "record"]
      /\ UNCHANGED <<world, verdict, alive, born, slots, web, rescorer, scoring, killer, stopping, cfFaults>>
  BY DEF PassesLatch
<1>2. WorldTyped' /\ SlotsTyped'
  BY <1>1 DEF Typed, WorldTyped, SlotsTyped, world
<1>3. /\ Typed' /\ tick'.pc = "record" /\ tick'.pid = tick.pid /\ tick'.cfg = tick.cfg
      /\ tick'.rungs = tick.rungs /\ Next1' = Next1
  BY <1>1, <1>2, SamePid, SectionTyped
<1>4. BornSomewhere' /\ AllTracked' /\ SlotTruthful' /\ Cleared'
  BY <1>1, <1>3 DEF BornSomewhere, AllTracked, SlotTruthful, Running, Cleared
<1>5. Fresh'
  BY <1>1, <1>3 DEF Fresh
<1> QED
  BY <1>3, <1>4, <1>5

\* The process is entered in the slot, with what it was started with.
LEMMA RecordsKept ==
  ASSUME CfInv, Records
  PROVE  CfInv'
<1> USE DEF CfInv, Kept
<1> DEFINE w == Head(tick.rungs).proto
           r == Recorded(w)
<1>1. /\ tick.pc = "record" /\ slots' = [slots EXCEPT ![Next1] = r]
      /\ UNCHANGED <<world, alive, born, web, rescorer, scoring, killer, stopping, cfFaults>>
  BY DEF Records
<1>2. \/ Len(tick.rungs) > 1 /\ tick' = [tick EXCEPT !.pc = "wait"] /\ UNCHANGED verdict
      \/ Leave /\ Settled(Next1, w)
  BY DEF Records
<1>3. /\ Planned # {} /\ Next1 \in Egresses /\ tick.cfg \in Configs /\ tick.cfg.token # None
      /\ tick.rungs # <<>> /\ w \in Protocols /\ tick.pid \in Pids
  BY <1>1, NextIsPlanned, RungTyped DEF Typed, TickTyped, Fresh
<1>4. r \in Procs /\ r.pid = tick.pid /\ r.token = tick.cfg.token /\ r.stamp.proto = w
  <2>1. tick.cfg.token \in Tokens \cup {None} /\ tick.plan[Next1] \in Nat \cup {None}
    BY <1>3, ConfigFields, TickFields DEF Plans
  <2> DEFINE st == [base |-> tick.plan[Next1], proto |-> w]
  <2>2. st \in Stamps /\ st.proto = w
    BY <1>3, <2>1 DEF Stamps
  <2>3. r = [pid |-> tick.pid, token |-> tick.cfg.token, stamp |-> st, proto |-> w, misses |-> 0, down |-> 0]
    BY DEF Recorded
  <2>4. 0 \in 0 .. ReadyMisses - 1 /\ 0 \in 0 .. RescoreAfter
    BY CfConstants
  <2> HIDE DEF st, w, r
  <2> QED
    BY <1>3, <2>1, <2>2, <2>3, <2>4 DEF Procs
<1> HIDE DEF r, w
<1>5. /\ slots' \in [Egresses -> Procs] /\ slots'[Next1] = r
      /\ \A e \in Egresses \ {Next1} : slots'[e] = slots[e]
  BY <1>1, <1>3, <1>4 DEF Typed, SlotsTyped
<1>6. verdict' \in [Egresses -> Protocols \cup {None}]
  BY <1>2, <1>3, SettledTyped DEF Typed, WorldTyped
<1>7. WorldTyped' /\ SlotsTyped'
  BY <1>1, <1>5, <1>6 DEF Typed, WorldTyped, SlotsTyped, world
<1>8. Typed' /\ tick'.pc \in {"wait", "start"}
  <2>1. CASE Len(tick.rungs) > 1 /\ tick' = [tick EXCEPT !.pc = "wait"]
    BY <1>1, <1>7, <2>1, SamePid, SectionTyped
  <2>2. CASE Leave
    BY <1>3, <1>7, <2>2, LeaveTyped
  <2> QED
    BY <1>2, <2>1, <2>2
<1>9. BornSomewhere'
  BY <1>1 DEF BornSomewhere
<1>10. AllTracked'
  <2> SUFFICES ASSUME NEW p \in alive
               PROVE  p = slots'[born[p].e].pid
    BY <1>1 DEF AllTracked
  <2>1. born[p].e \in Egresses
    BY DEF BornSomewhere
  <2>2. CASE born[p].e = Next1
    BY <1>1, <1>4, <1>5, <2>2 DEF Fresh
  <2>3. CASE born[p].e # Next1
    <3>1. p # tick.pid
      BY <1>1, <2>3 DEF Fresh
    <3> QED
      BY <1>5, <2>1, <2>3, <3>1 DEF AllTracked
  <2> QED
    BY <2>2, <2>3
<1>11. SlotTruthful'
  <2> SUFFICES ASSUME NEW e \in Egresses, slots'[e].pid \in alive, slots'[e].token # None
               PROVE  /\ born[slots'[e].pid].e = e
                      /\ born[slots'[e].pid].token = slots'[e].token
                      /\ born[slots'[e].pid].proto = slots'[e].stamp.proto
    BY <1>1 DEF SlotTruthful, Running
  <2>1. CASE e = Next1
    BY <1>1, <1>4, <1>5, <2>1 DEF Fresh, w
  <2>2. CASE e # Next1
    BY <1>5, <2>2 DEF SlotTruthful, Running
  <2> QED
    BY <2>1, <2>2
<1>12. Cleared' /\ Fresh'
  BY <1>8 DEF Cleared, Fresh
<1> QED
  BY <1>8, <1>9, <1>10, <1>11, <1>12
-----------------------------------------------------------------------------
(***************************************************************************)
(* The invariant, and what it says.                                        *)
(***************************************************************************)

\* A calm step keeps the invariant.
LEMMA CalmKept ==
  ASSUME CfInv, Typed', Calm
  PROVE  CfInv'
  BY NothingStarted DEF CfInv, Calm

\* It holds beside the replicas of an earlier run.
LEMMA CfInvInit == Init => CfInv
<1> SUFFICES ASSUME Init
             PROVE  CfInv
  OBVIOUS
<1>1. PICK adopted \in [Egresses -> Pids \cup {None}] :
        /\ adopted["direct"] = adopted["proxied"] => adopted["direct"] = None
        /\ alive = {adopted[e] : e \in Egresses} \ {None}
        /\ slots = [e \in Egresses |-> [NoProc EXCEPT !.pid = adopted[e]]]
        /\ born = [p \in Pids |-> IF p \in alive
                                  THEN [NotBorn EXCEPT !.e = CHOOSE e \in Egresses : adopted[e] = p]
                                  ELSE NotBorn]
  BY DEF Init
<1>2. alive \subseteq Pids
  BY <1>1
<1>3. \A p \in alive : born[p].e \in Egresses /\ adopted[born[p].e] = p /\ born[p] \in Births
  BY <1>1, <1>2 DEF NotBorn, Births
<1>4. born \in [Pids -> Births]
  BY <1>1, <1>3 DEF NotBorn, Births
<1>5. 0 \in 0 .. ReadyMisses - 1 /\ 0 \in 0 .. RescoreAfter
  BY CfConstants
<1>6. \A e \in Egresses : slots[e] \in Procs /\ slots[e].pid = adopted[e] /\ slots[e].token = None
  BY <1>1, <1>5 DEF NoProc, Procs
<1>7. SlotsTyped
  BY <1>1, <1>6 DEF SlotsTyped
<1>8. WorldTyped
  <2>1. rescorer \in Rescores
    BY DEF Init, NoRescore, Rescores
  <2>2. /\ cfg \in Configs /\ base = [e \in Egresses |-> 0] /\ verdict = [e \in Egresses |-> None]
        /\ bin \in {0, 1} /\ web = None /\ scoring = {} /\ killer = "no" /\ stopping = FALSE
        /\ grace = TRUE /\ env = 0 /\ cfFaults = 0
    BY DEF Init
  <2>3. base \in Plans /\ verdict \in [Egresses -> Protocols \cup {None}] /\ bin \in Nat /\ env \in Nat
        /\ cfFaults \in Nat /\ web \in (SUBSET Egresses) \cup {None} /\ scoring \subseteq Egresses
    BY <2>2 DEF Plans
  <2>4. killer \in Egresses \cup {"no", "done"} /\ stopping \in BOOLEAN /\ grace \in BOOLEAN
    BY <2>2
  <2> QED
    BY <1>2, <1>4, <2>1, <2>2, <2>3, <2>4 DEF WorldTyped
<1>9. TickTyped /\ tick.pc = "idle"
  BY NoTickTyped DEF Init, TickTyped
<1>10. BornSomewhere /\ AllTracked
  BY <1>3, <1>6 DEF BornSomewhere, AllTracked
<1>11. SlotTruthful
  BY <1>6 DEF SlotTruthful
<1>12. Cleared /\ Fresh
  BY <1>9 DEF Cleared, Fresh
<1> QED
  BY <1>7, <1>8, <1>9, <1>10, <1>11, <1>12 DEF CfInv, Typed, Kept

\* Every step of the tick keeps it.
LEMMA TickStepKept ==
  ASSUME CfInv, TickStep
  PROVE  CfInv'
<1> USE DEF CfInv
<1>1. CASE TickLeaves \/ TickEnters \/ WatchdogReady \/ WatchdogMisses \/ TickPlans \/ PlanOne
  BY <1>1, CalmKept, TickLeavesCalm, TickEntersCalm, WatchdogReadyCalm, WatchdogMissesCalm,
     TickPlansCalm, PlanOneCalm
<1>2. CASE TickUpdates \/ BinaryComesIn \/ Defers \/ StartsPlanned \/ StartReplica \/ LinkDown
  BY <1>2, CalmKept, TickUpdatesCalm, BinaryComesInCalm, DefersCalm, StartsPlannedCalm,
     StartReplicaCalm, LinkDownCalm
<1>3. CASE SpawnsNothing \/ Connected \/ FallsBack
  BY <1>3, CalmKept, SpawnsNothingCalm, ConnectedCalm, FallsBackCalm
<1>4. ASSUME NEW w \in Protocols \cup {None}, TickScores(w)
      PROVE  CfInv'
  BY <1>4, CalmKept, TickScoresCalm
<1>5. ASSUME NEW S \in SUBSET Egresses, TickRests(S) \/ TickEnds(S)
      PROVE  CfInv'
  BY <1>5, CalmKept, TickRestsCalm, TickEndsCalm
<1>6. CASE ReplaceReplica \/ Disowned \/ PassesLatch \/ Records
  BY <1>6, ReplaceReplicaKept, DisownedKept, PassesLatchKept, RecordsKept
<1>7. ASSUME NEW p \in Pids, SpawnCf(p)
      PROVE  CfInv'
  BY <1>7, SpawnKept
<1> QED
  BY <1>1, <1>2, <1>3, <1>4, <1>5, <1>6, <1>7 DEF TickStep

\* Every step keeps it.
LEMMA CfInvNext == CfInv /\ [Next]_vars => CfInv'
<1> SUFFICES ASSUME CfInv, [Next]_vars
             PROVE  CfInv'
  OBVIOUS
<1>1. CASE Outside
  BY <1>1, OutsideKept
<1>2. CASE MonitorTicks \/ MonitorSkips \/ WebLocks \/ RescorerSwitches \/ KillStep
  BY <1>2, CalmKept, MonitorTicksCalm, MonitorSkipsCalm, WebLocksCalm, RescorerSwitchesCalm, KillStepCalm
     DEF CfInv
<1>3. CASE TickStep
  BY <1>3, TickStepKept
<1>4. CASE UNCHANGED vars
  <2>1. UNCHANGED <<cfg, base, bin, grace, env, verdict, alive, born, slots, tick, web, rescorer,
                    scoring, killer, stopping, cfFaults>>
    BY <1>4 DEF vars, world
  <2>2. Typed'
    BY <2>1 DEF CfInv, Typed, WorldTyped, SlotsTyped, TickTyped, Planned
  <2> QED
    BY <2>1, <2>2, NothingStarted DEF CfInv, NotStarting, SameClaim
<1> QED
  BY <1>1, <1>2, <1>3, <1>4 DEF Next, Outside, RescorerStep

\* For any tokens, policies, ways out, processes and bounds the supervisor and its
\* slots stay well typed, no process of cloudflared is lost sight of, and what is
\* known of one that a tick is starting is true of it.
THEOREM CfInvariant == Spec => []CfInv
<1> QED
  BY CfInvInit, CfInvNext, PTL DEF Spec

\* The slots tell the truth: no egress has two replicas, no replica is unknown to
\* the slots, and a slot records the transport and the token its replica runs with.
THEOREM CfSupervised == Spec => []CfSafe
<1>1. CfInv => CfSafe
  <2> SUFFICES ASSUME CfInv
               PROVE  CfSafe
    OBVIOUS
  <2> USE DEF CfInv, Kept
  <2>1. OneReplicaPerEgress
    <3> SUFFICES ASSUME NEW p \in alive, NEW q \in alive, born[p].e = born[q].e
                 PROVE  p = q
      BY DEF OneReplicaPerEgress
    <3> QED
      BY DEF AllTracked, Fresh
  <2>2. TypeOK
    <3>1. \A e \in Egresses :
            /\ slots[e].pid \in Pids \cup {None} /\ slots[e].token \in Tokens \cup {None}
            /\ slots[e].proto \in Protocols \cup {None}
            /\ slots[e].misses \in 0 .. ReadyMisses - 1 /\ slots[e].down \in 0 .. RescoreAfter
      BY DEF Typed, SlotsTyped, Procs
    <3>2. tick.pc \in TickSteps
      BY TickFields
    <3>3. rescorer.pc \in {"idle", "picking", "waiting"}
      BY DEF Typed, WorldTyped, Rescores
    <3> QED
      BY <3>1, <3>2, <3>3 DEF TypeOK, Typed, WorldTyped, TickTyped, TickSteps, Births, Plans
  <2> QED
    BY <2>1, <2>2 DEF CfSafe
<1> QED
  BY <1>1, CfInvariant, PTL
=============================================================================
