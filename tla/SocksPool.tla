----------------------------- MODULE SocksPool -----------------------------
(***************************************************************************)
(* The pool of pre-handshaked SOCKS5 connections (sb-outbound/pool.rs).    *)
(* Clients take the oldest idle connection or, finding none, dial one      *)
(* themselves ("cold"); a warmer task, woken by a timer or by a Notify     *)
(* that remembers one wake-up, dials the pool back up to its minimum.      *)
(* Configuration reloads resize the pool and a restarted clash flushes it  *)
(* while all this goes on.                                                 *)
(*                                                                         *)
(* An idle connection is the time it was put back; whether it is still     *)
(* alive is found out when it is taken.                                    *)
(***************************************************************************)
EXTENDS Naturals, Sequences, FiniteSets

CONSTANTS
  Clients,      \* tasks that acquire connections
  Cfgs,         \* the configurations a reload may bring: min, max, timeout
  InitCfg,      \* the one the pool is built with
  WarmParallel, \* WARM_PARALLEL
  MaxFail,      \* MAX_CONSECUTIVE_FAIL
  MaxOps,       \* bound: acquires, releases, flushes and resizes
  MaxTime,      \* bound: clock ticks
  MaxFaults     \* bound: dials the upstream refuses, idle connections it closes

ASSUME PoolConstants ==
  /\ Cfgs \subseteq [min : Nat, max : Nat, timeout : Nat \ {0}]
  /\ InitCfg \in Cfgs
  /\ WarmParallel \in Nat \ {0}
  /\ MaxFail \in Nat \ {0}
  /\ MaxOps \in Nat
  /\ MaxTime \in Nat
  /\ MaxFaults \in Nat

VARIABLES
  cfg,      \* the ArcSwap'd PoolCfg
  idle,     \* put_at of each idle connection, front first
  clock,    \* Instant::now
  permit,   \* warm_notify holds a wake-up nobody has consumed
  cold,     \* pressure.cold_pending
  client,   \* where each client is, with the now and the cfg it works with
  warmer,   \* the warmer task and the state of its round
  maxSeen,  \* history: the largest max ever configured
  ops,      \* history: operations begun
  faults    \* history: dials refused and idle connections found dead

vars == <<cfg, idle, clock, permit, cold, client, warmer, maxSeen, ops, faults>>
-----------------------------------------------------------------------------
Least(a, b) == IF a <= b THEN a ELSE b
Most(a, b) == IF a >= b THEN a ELSE b

Stale(put, now, c) == now >= put + c.timeout

\* The queue without the stale connections at its front.
FreshSuffix(q, now, c) ==
  IF \E i \in 1 .. Len(q) : ~Stale(q[i], now, c)
  THEN SubSeq(q, CHOOSE i \in 1 .. Len(q) :
                   /\ ~Stale(q[i], now, c)
                   /\ \A j \in 1 .. i - 1 : Stale(q[j], now, c), Len(q))
  ELSE <<>>

NoCfg == InitCfg
Away == [pc |-> "away", now |-> 0, cfg |-> NoCfg, wake |-> FALSE]
Round(t) == [pc |-> "spawn", target |-> t, fails |-> 0, lanes |-> 1, dials |-> 0,
             tried |-> 0, hit |-> FALSE]
NoRound(pc) == [Round(0) EXCEPT !.pc = pc]

\* A tokio interval ticks at once, so the warmer starts with a round.
Init ==
  /\ cfg = InitCfg
  /\ idle = <<>>
  /\ clock = 0
  /\ permit = FALSE
  /\ cold = 0
  /\ client = [a \in Clients |-> Away]
  /\ warmer = NoRound("evict")
  /\ maxSeen = InitCfg.max
  /\ ops = 0
  /\ faults = 0
-----------------------------------------------------------------------------
(***************************************************************************)
(* acquire, one step per hold of the idle lock.                            *)
(***************************************************************************)
AcquireStarts(a) ==
  /\ client[a].pc = "away" /\ ops < MaxOps
  /\ ops' = ops + 1
  /\ client' = [client EXCEPT ![a] = [pc |-> "take", now |-> clock, cfg |-> cfg, wake |-> FALSE]]
  /\ UNCHANGED <<cfg, idle, clock, permit, cold, warmer, maxSeen, faults>>

\* Stale connections are dropped, the next one is taken and probed: a live one
\* is the result, a dead one is discarded and the loop goes on.
AcquireTakes(a) ==
  LET me == client[a]
      fresh == FreshSuffix(idle, me.now, me.cfg)
      wake == me.wake \/ fresh # idle
  IN  /\ me.pc = "take"
      /\ \/ /\ fresh = <<>>
            /\ idle' = <<>>
            /\ client' = [client EXCEPT ![a].pc = "miss", ![a].wake = wake]
            /\ UNCHANGED faults
         \/ /\ fresh # <<>>
            /\ idle' = Tail(fresh)
            /\ \/ /\ client' = [client EXCEPT ![a].pc = "hit",
                                              ![a].wake = wake \/ Len(fresh) - 1 < me.cfg.min]
                  /\ UNCHANGED faults
               \/ /\ faults < MaxFaults /\ faults' = faults + 1
                  /\ client' = [client EXCEPT ![a].wake = TRUE]
      /\ UNCHANGED <<cfg, clock, permit, cold, warmer, maxSeen, ops>>

AcquireHits(a) ==
  /\ client[a].pc = "hit"
  /\ permit' = (permit \/ client[a].wake)
  /\ client' = [client EXCEPT ![a] = [Away EXCEPT !.pc = "holding"]]
  /\ UNCHANGED <<cfg, idle, clock, cold, warmer, maxSeen, ops, faults>>

AcquireMisses(a) ==
  /\ client[a].pc = "miss"
  /\ cold' = cold + 1
  /\ permit' = TRUE
  /\ client' = [client EXCEPT ![a] = [Away EXCEPT !.pc = "dial"]]
  /\ UNCHANGED <<cfg, idle, clock, warmer, maxSeen, ops, faults>>

\* dial_and_handshake ends by itself (DIAL_TIMEOUT) with a stream or an error.
AcquireDialed(a) ==
  /\ client[a].pc = "dial"
  /\ \E pc \in {"holding", "away"} : client' = [client EXCEPT ![a] = [Away EXCEPT !.pc = pc]]
  /\ UNCHANGED <<cfg, idle, clock, permit, cold, warmer, maxSeen, ops, faults>>

Uses(a) ==
  /\ client[a].pc = "holding"
  /\ client' = [client EXCEPT ![a] = Away]
  /\ UNCHANGED <<cfg, idle, clock, permit, cold, warmer, maxSeen, ops, faults>>

\* release_clean reads the configuration, then takes the lock.
ReleaseStarts(a) ==
  /\ client[a].pc = "holding"
  /\ client' = [client EXCEPT ![a].pc = "release", ![a].cfg = cfg]
  /\ UNCHANGED <<cfg, idle, clock, permit, cold, warmer, maxSeen, ops, faults>>

ReleasePushesFront(a) ==
  /\ client[a].pc = "release"
  /\ idle' = IF Len(idle) < client[a].cfg.max THEN <<clock>> \o idle ELSE idle
  /\ client' = [client EXCEPT ![a] = Away]
  /\ UNCHANGED <<cfg, clock, permit, cold, warmer, maxSeen, ops, faults>>

ReleaseClean(a) ==
  /\ client[a].pc = "release"
  /\ idle' = IF Len(idle) < client[a].cfg.max THEN Append(idle, clock) ELSE idle
  /\ client' = [client EXCEPT ![a] = Away]
  /\ UNCHANGED <<cfg, clock, permit, cold, warmer, maxSeen, ops, faults>>
-----------------------------------------------------------------------------
FlushIdle ==
  /\ ops < MaxOps /\ ops' = ops + 1
  /\ idle' = <<>>
  /\ permit' = TRUE
  /\ UNCHANGED <<cfg, clock, cold, client, warmer, maxSeen, faults>>

Resize(c) ==
  /\ ops < MaxOps /\ ops' = ops + 1
  /\ c # cfg
  /\ cfg' = c
  /\ maxSeen' = Most(maxSeen, c.max)
  /\ permit' = TRUE
  /\ UNCHANGED <<idle, clock, cold, client, warmer, faults>>

TimePasses ==
  /\ clock < MaxTime
  /\ clock' = clock + 1
  /\ UNCHANGED <<cfg, idle, permit, cold, client, warmer, maxSeen, ops, faults>>
-----------------------------------------------------------------------------
(***************************************************************************)
(* warmer_loop and warm_once.                                              *)
(***************************************************************************)
WarmerWakes(byPermit) ==
  /\ warmer.pc = "wait"
  /\ warmer' = NoRound("evict")
  /\ permit' = (permit /\ ~byPermit)
  /\ UNCHANGED <<cfg, idle, clock, cold, client, maxSeen, ops, faults>>

WarmerTicks == WarmerWakes(FALSE)
WarmerNotified == permit /\ WarmerWakes(TRUE)

WarmerEvicts ==
  /\ warmer.pc = "evict"
  /\ idle' = FreshSuffix(idle, clock, cfg)
  /\ warmer' = NoRound("check")
  /\ UNCHANGED <<cfg, clock, permit, cold, client, maxSeen, ops, faults>>

\* Below the minimum a round begins.  Cold dials since the last round raise its
\* target, by the minimum again at most.
WarmerChecks ==
  /\ warmer.pc = "check"
  /\ \/ /\ Len(idle) >= cfg.min
        /\ warmer' = NoRound("wait")
        /\ UNCHANGED cold
     \/ /\ Len(idle) < cfg.min
        /\ warmer' = Round(Least(cfg.min + Least(cold, cfg.min), cfg.max))
        /\ cold' = 0
  /\ UNCHANGED <<cfg, idle, clock, permit, client, maxSeen, ops, faults>>

MayDialOffByOne ==
  /\ warmer.fails < MaxFail
  /\ warmer.dials < warmer.lanes
  /\ Len(idle) + warmer.dials + 1 < warmer.target

MayDial ==
  /\ warmer.fails < MaxFail
  /\ warmer.dials < warmer.lanes
  /\ Len(idle) + warmer.dials < warmer.target

WarmerDials ==
  /\ warmer.pc = "spawn" /\ MayDial
  /\ warmer' = [warmer EXCEPT !.dials = @ + 1, !.tried = IF warmer.hit THEN 0 ELSE @ + 1]
  /\ UNCHANGED <<cfg, idle, clock, permit, cold, client, maxSeen, ops, faults>>

WarmerJoins ==
  /\ warmer.pc = "spawn" /\ ~MayDial
  /\ warmer' = IF warmer.dials = 0 THEN NoRound("wait") ELSE [warmer EXCEPT !.pc = "join"]
  /\ UNCHANGED <<cfg, idle, clock, permit, cold, client, maxSeen, ops, faults>>

\* A handshake completed: more lanes open, and the connection is kept if the
\* configuration of this moment has room for it.
Warmed ==
  /\ warmer.pc = "join"
  /\ warmer' = [warmer EXCEPT !.pc = "spawn", !.dials = @ - 1, !.fails = 0,
                              !.lanes = WarmParallel, !.tried = 0, !.hit = TRUE]
  /\ idle' = IF Len(idle) < cfg.max THEN Append(idle, clock) ELSE idle
  /\ UNCHANGED <<cfg, clock, permit, cold, client, maxSeen, ops, faults>>

WarmFails ==
  /\ warmer.pc = "join" /\ faults < MaxFaults
  /\ faults' = faults + 1
  /\ warmer' = [warmer EXCEPT !.pc = "spawn", !.dials = @ - 1, !.fails = @ + 1]
  /\ UNCHANGED <<cfg, idle, clock, permit, cold, client, maxSeen, ops>>

WarmerRounds == WarmerEvicts \/ WarmerChecks \/ WarmerDials \/ WarmerJoins \/ Warmed \/ WarmFails
-----------------------------------------------------------------------------
ClientStep(a) ==
  \/ AcquireTakes(a) \/ AcquireHits(a) \/ AcquireMisses(a) \/ AcquireDialed(a)
  \/ Uses(a) \/ ReleaseStarts(a) \/ ReleaseClean(a)

Next ==
  \/ \E a \in Clients : AcquireStarts(a) \/ ClientStep(a)
  \/ FlushIdle
  \/ \E c \in Cfgs : Resize(c)
  \/ TimePasses
  \/ WarmerTicks \/ WarmerNotified
  \/ WarmerRounds

Spec == Init /\ [][Next]_vars

(***************************************************************************)
(* The runtime polls every task; every dial ends within DIAL_TIMEOUT.  The *)
(* timer of warmer_loop always comes again (FairSpec); without its help    *)
(* (NotifySpec) the warmer must still react to every notification.         *)
(***************************************************************************)
NotifyFair ==
  /\ \A a \in Clients : WF_vars(ClientStep(a))
  /\ WF_vars(WarmerRounds)
  /\ WF_vars(WarmerNotified)

NotifySpec == Spec /\ NotifyFair

FairSpec == NotifySpec /\ WF_vars(WarmerTicks)
-----------------------------------------------------------------------------
(***************************************************************************)
(* Properties.                                                             *)
(***************************************************************************)

ClientStates ==
  [pc : {"away", "take", "hit", "miss", "dial", "holding", "release"},
   now : Nat, cfg : Cfgs, wake : BOOLEAN]

WarmerStates ==
  [pc : {"wait", "evict", "check", "spawn", "join"}, target : Nat, fails : Nat,
   lanes : Nat, dials : Nat, tried : Nat, hit : BOOLEAN]

\* Types of the pool, its clients and the warmer.
TypeOK ==
  /\ cfg \in Cfgs
  /\ idle \in Seq(Nat)
  /\ clock \in Nat
  /\ permit \in BOOLEAN
  /\ cold \in Nat
  /\ client \in [Clients -> ClientStates]
  /\ warmer \in WarmerStates
  /\ maxSeen \in Nat
  /\ ops \in Nat
  /\ faults \in Nat

\* acquire and evict_stale look for stale connections only at the front: that
\* finds them all because the queue is ordered by age, whoever appends to it.
OldestFirst ==
  /\ \A i, j \in 1 .. Len(idle) : i < j => idle[i] <= idle[j]
  /\ \A i \in 1 .. Len(idle) : idle[i] <= clock

\* The warmer and releases together never keep more idle connections than the
\* largest maximum configured so far, although each checks room on its own.
IdleWithinMax == Len(idle) <= maxSeen

\* An upstream that has completed no handshake in this round is probed by one
\* dial at a time, and after MaxFail dials left alone until the next wake-up.
ProbedSerially ==
  ~warmer.hit => warmer.dials <= 1 /\ warmer.tried <= MaxFail

\* Once clients, reloads and faults of the upstream cease the pool fills up to its minimum
\* and stays there: no wake-up is lost between a client that takes the pool
\* below its minimum and a warmer that is just finishing a round.
Full == Len(idle) >= Least(cfg.min, cfg.max)
Refilled == <>[]Full

\* Every round of the warmer comes to its end: it fills the pool or gives up.
RoundEnds == []<>(warmer.pc = "wait")

\* The pool keeps its promises to both sides: its queue is sorted by age and within
\* the maximum, and an upstream that does not answer is tried one dial at a time.
PoolSafe == TypeOK /\ OldestFirst /\ IdleWithinMax /\ ProbedSerially

=============================================================================
