---------------------------- MODULE GroupsProofs ----------------------------
(***************************************************************************)
(* Proofs, for every value of the constants, of the safety of what deals   *)
(* with what is upstream: the pool of SOCKS5 connections (SocksPool,       *)
(* invariant PoolInv), the runner of a smart group (SmartGroup, invariant  *)
(* SmartInv) and the subscriptions that give clash its nodes and groups    *)
(* (PpSub, invariant PsInv).                                               *)
(***************************************************************************)
EXTENDS SocksPool, SmartGroup, PpSub, FiniteSetTheorems, SequenceTheorems, WellFoundedInduction, TLAPS

(***************************************************************************)
(* The pool of connections (SocksPool).                                    *)
(***************************************************************************)

\* No configuration in use allows more connections than the largest seen.
MaxKnown ==
  /\ InitCfg.max <= maxSeen
  /\ cfg.max <= maxSeen
  /\ \A a \in Clients : client[a].cfg.max <= maxSeen

\* A warmer waiting for a dial has one in flight.
JoinHasDial == warmer.pc = "join" => warmer.dials >= 1

\* Until the first success of a round there is one lane, each try is a counted
\* failure or still in flight, and none starts after MaxFail failures.
SerialTries ==
  ~warmer.hit =>
    /\ warmer.lanes = 1
    /\ warmer.dials <= 1
    /\ warmer.tried = warmer.fails + warmer.dials
    /\ warmer.fails <= MaxFail
    /\ warmer.dials = 1 => warmer.fails < MaxFail

PoolInv ==
  /\ TypeOK
  /\ OldestFirst
  /\ IdleWithinMax
  /\ MaxKnown
  /\ JoinHasDial
  /\ SerialTries
-----------------------------------------------------------------------------
\* Dropping the stale front of the queue leaves nothing or a final part of it.
LEMMA FreshSuffixIsSuffix ==
  ASSUME NEW q \in Seq(Nat), NEW time \in Nat, NEW c \in Cfgs
  PROVE  \/ FreshSuffix(q, time, c) = <<>>
         \/ \E k \in 1 .. Len(q) : FreshSuffix(q, time, c) = SubSeq(q, k, Len(q))
<1> DEFINE First(i) == /\ ~Stale(q[i], time, c)
                       /\ \A j \in 1 .. i - 1 : Stale(q[j], time, c)
<1>1. CASE \E i \in 1 .. Len(q) : ~Stale(q[i], time, c)
  <2> DEFINE S == {i \in 1 .. Len(q) : ~Stale(q[i], time, c)}
  <2>1. \E i \in S : \A j \in S : i <= j
    <3>1. S \in SUBSET Nat /\ S # {}
      BY <1>1
    <3>2. PICK n \in S : \A m \in S : ~(<<m, n>> \in OpToRel(<, Nat))
      BY <3>1, NatLessThanWellFounded, WFMin, Zenon
    <3>3. ASSUME NEW m \in S PROVE n <= m
      <4>1. m \in Nat /\ n \in Nat
        OBVIOUS
      <4>2. m < n => <<m, n>> \in OpToRel(<, Nat)
        BY <4>1, Zenon DEF OpToRel
      <4>3. ~(m < n)
        BY <4>2, <3>2, Zenon
      <4> QED BY <4>1, <4>3
    <3> QED BY <3>3
  <2>2. \E i \in 1 .. Len(q) : First(i)
    BY <2>1
  <2>3. (CHOOSE i \in 1 .. Len(q) : First(i)) \in 1 .. Len(q)
    BY <2>2
  <2> QED BY <1>1, <2>3 DEF FreshSuffix
<1>2. CASE ~ \E i \in 1 .. Len(q) : ~Stale(q[i], time, c)
  BY <1>2 DEF FreshSuffix
<1> QED BY <1>1, <1>2

\* A queue ordered by age and not younger than t.
Aged(q, t) ==
  /\ \A i, j \in 1 .. Len(q) : i < j => q[i] <= q[j]
  /\ \A i \in 1 .. Len(q) : q[i] <= t

\* What acquire and evict_stale leave in the queue is no longer than before and
\* still ordered by age.
LEMMA FreshSuffixAged ==
  ASSUME NEW q \in Seq(Nat), NEW time \in Nat, NEW c \in Cfgs, NEW t \in Nat, Aged(q, t)
  PROVE  /\ FreshSuffix(q, time, c) \in Seq(Nat)
         /\ Len(FreshSuffix(q, time, c)) <= Len(q)
         /\ Aged(FreshSuffix(q, time, c), t)
<1>1. CASE FreshSuffix(q, time, c) = <<>>
  BY <1>1 DEF Aged
<1>2. CASE \E k \in 1 .. Len(q) : FreshSuffix(q, time, c) = SubSeq(q, k, Len(q))
  <2>1. PICK k \in 1 .. Len(q) : FreshSuffix(q, time, c) = SubSeq(q, k, Len(q))
    BY <1>2
  <2>2. /\ SubSeq(q, k, Len(q)) \in Seq(Nat)
        /\ Len(SubSeq(q, k, Len(q))) = Len(q) - k + 1
        /\ \A i \in 1 .. Len(q) - k + 1 : SubSeq(q, k, Len(q))[i] = q[k + i - 1]
    BY SubSeqProperties
  <2> DEFINE r == SubSeq(q, k, Len(q))
  <2>3. Len(r) <= Len(q)
    BY <2>2
  <2>4. \A i \in 1 .. Len(r) : r[i] = q[k + i - 1] /\ k + i - 1 \in 1 .. Len(q)
    BY <2>2
  <2> HIDE DEF r
  <2>5. Aged(r, t)
    <3>1. ASSUME NEW i \in 1 .. Len(r) PROVE r[i] <= t
      BY <2>4 DEF Aged
    <3>2. ASSUME NEW i \in 1 .. Len(r), NEW j \in 1 .. Len(r), i < j PROVE r[i] <= r[j]
      <4>1. k + i - 1 < k + j - 1
        BY <3>2
      <4> QED BY <2>4, <4>1 DEF Aged
    <3> QED BY <3>1, <3>2 DEF Aged
  <2> QED BY <2>1, <2>2, <2>3, <2>5 DEF r
<1> QED BY <1>1, <1>2, FreshSuffixIsSuffix

\* Taking the oldest connection keeps the order.
LEMMA TailAged ==
  ASSUME NEW q \in Seq(Nat), NEW t \in Nat, Aged(q, t), q # <<>>
  PROVE  Tail(q) \in Seq(Nat) /\ Len(Tail(q)) <= Len(q) /\ Aged(Tail(q), t)
BY HeadTailProperties DEF Aged

\* Adding a connection of this moment at the back keeps the order.
LEMMA AppendAged ==
  ASSUME NEW q \in Seq(Nat), NEW t \in Nat, Aged(q, t)
  PROVE  Append(q, t) \in Seq(Nat) /\ Len(Append(q, t)) = Len(q) + 1 /\ Aged(Append(q, t), t)
BY AppendProperties DEF Aged
-----------------------------------------------------------------------------
\* What the assumptions say of configurations.
LEMMA CfgTypes ==
  /\ InitCfg \in Cfgs
  /\ \A c \in Cfgs : c.min \in Nat /\ c.max \in Nat
BY PoolConstants

\* A client outside acquire and release is well typed.
LEMMA AwayTyped == Away \in ClientStates /\ Away.cfg = InitCfg
BY CfgTypes DEF Away, NoCfg, ClientStates

\* A fresh round, or none, is well typed and satisfies the warmer's invariant.
LEMMA RoundTyped ==
  ASSUME NEW t \in Nat, NEW pc \in {"wait", "evict", "check"}
  PROVE  /\ Round(t) \in WarmerStates /\ NoRound(pc) \in WarmerStates
         /\ Round(t).pc = "spawn" /\ NoRound(pc).pc = pc
         /\ Round(t).lanes = 1 /\ NoRound(pc).lanes = 1
         /\ Round(t).dials = 0 /\ NoRound(pc).dials = 0
         /\ Round(t).tried = 0 /\ NoRound(pc).tried = 0
         /\ Round(t).fails = 0 /\ NoRound(pc).fails = 0
BY DEF Round, NoRound, WarmerStates

\* The invariant split by what the actions touch.
QueueInv == OldestFirst /\ IdleWithinMax
WarmerInv == warmer \in WarmerStates /\ JoinHasDial /\ SerialTries
ClientInv == client \in [Clients -> ClientStates] /\ MaxKnown
PlainTypes ==
  /\ cfg \in Cfgs /\ idle \in Seq(Nat) /\ clock \in Nat /\ permit \in BOOLEAN
  /\ cold \in Nat /\ maxSeen \in Nat /\ ops \in Nat /\ faults \in Nat

\* The invariant is the conjunction of its parts.
LEMMA PoolInvParts == PoolInv <=> QueueInv /\ WarmerInv /\ ClientInv /\ PlainTypes
BY DEF PoolInv, TypeOK, QueueInv, WarmerInv, ClientInv, PlainTypes

\* The same, of the next state.
LEMMA PoolInvPartsPrimed == QueueInv' /\ WarmerInv' /\ ClientInv' /\ PlainTypes' => PoolInv'
BY DEF PoolInv, TypeOK, QueueInv, WarmerInv, ClientInv, PlainTypes

\* A step that leaves queue and clock alone keeps the queue's part.
LEMMA QueueFrame == ASSUME QueueInv, UNCHANGED <<idle, clock, maxSeen>> PROVE QueueInv'
BY DEF QueueInv, OldestFirst, IdleWithinMax

\* A step of someone else keeps the warmer's part.
LEMMA WarmerFrame == ASSUME WarmerInv, UNCHANGED warmer PROVE WarmerInv'
BY DEF WarmerInv, JoinHasDial, SerialTries

\* A step that touches no client and no configuration keeps the clients' part.
LEMMA ClientFrame == ASSUME ClientInv, UNCHANGED <<cfg, client, maxSeen>> PROVE ClientInv'
BY DEF ClientInv, MaxKnown

\* A warmer whose round has just begun, or that has none.
LEMMA FreshRound ==
  ASSUME \/ \E t \in Nat : warmer' = Round(t)
         \/ \E pc \in {"wait", "evict", "check"} : warmer' = NoRound(pc)
  PROVE  WarmerInv'
BY RoundTyped, PoolConstants DEF WarmerInv, JoinHasDial, SerialTries

\* A client whose state changes to one with a configuration already in use.
LEMMA ClientChanges ==
  ASSUME NEW a \in Clients, NEW moved \in ClientStates, ClientInv, PlainTypes,
         client' = [client EXCEPT ![a] = moved], UNCHANGED <<cfg, maxSeen>>,
         moved.cfg.max <= maxSeen
  PROVE  ClientInv'
BY DEF ClientInv, MaxKnown, PlainTypes

-----------------------------------------------------------------------------
\* The pool starts in a state that satisfies the invariant.
LEMMA PoolInvInit == Init => PoolInv
<1> SUFFICES ASSUME Init PROVE PoolInv
  OBVIOUS
<1>1. idle = <<>> /\ maxSeen = InitCfg.max /\ InitCfg.max \in Nat
  BY CfgTypes DEF Init
<1>2. QueueInv
  <2>1. Len(idle) = 0
    BY <1>1
  <2> QED BY <1>1, <2>1 DEF QueueInv, OldestFirst, IdleWithinMax
<1>3. PlainTypes
  <2>1. idle \in Seq(Nat)
    BY <1>1
  <2> QED BY <1>1, <2>1, CfgTypes DEF Init, PlainTypes
<1>4. ClientInv
  BY CfgTypes, AwayTyped DEF Init, ClientInv, MaxKnown
<1>5. WarmerInv
  BY RoundTyped, PoolConstants DEF Init, WarmerInv, JoinHasDial, SerialTries
<1> QED BY <1>2, <1>3, <1>4, <1>5, PoolInvParts

\* The queue's part holds again when what is left or added is ordered by age
\* and fits.
LEMMA QueueChanges ==
  ASSUME idle' \in Seq(Nat), Aged(idle', clock), Len(idle') <= maxSeen,
         UNCHANGED <<clock, maxSeen>>
  PROVE  QueueInv'
BY DEF Aged, QueueInv, OldestFirst, IdleWithinMax

\* Every step of clients, warmer, reloads and clock preserves the invariant.
LEMMA PoolInvStep == PoolInv /\ [Next]_vars => PoolInv'
<1> SUFFICES ASSUME PoolInv, [Next]_vars PROVE PoolInv'
  OBVIOUS
<1> USE PoolInvPartsPrimed
<1>a. QueueInv /\ WarmerInv /\ ClientInv /\ PlainTypes
  BY PoolInvParts
<1>b. Aged(idle, clock) /\ idle \in Seq(Nat) /\ clock \in Nat /\ Len(idle) <= maxSeen /\ maxSeen \in Nat
  BY <1>a DEF QueueInv, OldestFirst, IdleWithinMax, Aged, PlainTypes
<1>c. ASSUME NEW a \in Clients
      PROVE  /\ client[a] \in ClientStates
             /\ client[a].now \in Nat /\ client[a].cfg \in Cfgs /\ client[a].cfg.max \in Nat
             /\ client[a].wake \in BOOLEAN
             /\ client[a].cfg.max <= maxSeen
  BY <1>a, CfgTypes DEF ClientInv, ClientStates, MaxKnown
<1>d. Away \in ClientStates /\ Away.cfg.max <= maxSeen
  BY <1>a, AwayTyped DEF ClientInv, MaxKnown
<1>e. \A pc \in {"dial", "holding", "away"} :
        [Away EXCEPT !.pc = pc] \in ClientStates /\ [Away EXCEPT !.pc = pc].cfg.max <= maxSeen
  BY <1>d DEF ClientStates
<1>f. cfg \in Cfgs /\ cfg.max \in Nat /\ cfg.min \in Nat /\ cfg.max <= maxSeen
  BY <1>a, CfgTypes DEF PlainTypes, ClientInv, MaxKnown
<1>1. ASSUME NEW a \in Clients, AcquireStarts(a) PROVE PoolInv'
  <2>1. PICK moved \in ClientStates : client' = [client EXCEPT ![a] = moved] /\ moved.cfg.max <= maxSeen
    <3>1. [pc |-> "take", now |-> clock, cfg |-> cfg, wake |-> FALSE] \in ClientStates
      BY <1>b, <1>f DEF ClientStates
    <3> QED BY <1>1, <3>1, <1>f DEF AcquireStarts
  <2>2. ClientInv'
    BY <1>1, <1>a, <2>1, ClientChanges DEF AcquireStarts
  <2>3. PlainTypes'
    BY <1>1, <1>a DEF AcquireStarts, PlainTypes
  <2>4. WarmerInv'
    BY <1>1, <1>a, WarmerFrame DEF AcquireStarts
  <2>5. QueueInv'
    BY <1>1, <1>a, QueueFrame DEF AcquireStarts
  <2> QED BY <2>2, <2>3, <2>4, <2>5
<1>2. ASSUME NEW a \in Clients, AcquireTakes(a) PROVE PoolInv'
  <2> DEFINE fresh == FreshSuffix(idle, client[a].now, client[a].cfg)
  <2>1. fresh \in Seq(Nat) /\ Len(fresh) <= Len(idle) /\ Aged(fresh, clock)
    BY <1>b, <1>c, FreshSuffixAged
  <2>2. /\ UNCHANGED <<cfg, clock, permit, cold, warmer, maxSeen, ops>>
        /\ idle' = <<>> \/ (fresh # <<>> /\ idle' = Tail(fresh))
        /\ faults' = faults \/ faults' = faults + 1
    BY <1>2 DEF AcquireTakes
  <2>3. \E w \in BOOLEAN, pc \in {"take", "miss", "hit"} :
          client' = [client EXCEPT ![a] = [client[a] EXCEPT !.pc = pc, !.wake = w]]
    <3>1. CASE client' = [client EXCEPT ![a].pc = "miss", ![a].wake = client[a].wake \/ fresh # idle]
      BY <3>1, <1>c
    <3>2. CASE client' = [client EXCEPT ![a].pc = "hit",
                 ![a].wake = (client[a].wake \/ fresh # idle) \/ Len(fresh) - 1 < client[a].cfg.min]
      BY <3>2, <1>c
    <3>3. CASE client' = [client EXCEPT ![a].wake = TRUE]
      <4>1. client[a].pc = "take"
        BY <1>2 DEF AcquireTakes
      <4>2. [client[a] EXCEPT !.wake = TRUE] = [client[a] EXCEPT !.pc = "take", !.wake = TRUE]
        BY <4>1, <1>c DEF ClientStates
      <4>3. client' = [client EXCEPT ![a] = [client[a] EXCEPT !.wake = TRUE]]
        BY <3>3
      <4> QED BY <4>2, <4>3
    <3> QED BY <1>2, <3>1, <3>2, <3>3 DEF AcquireTakes
  <2>4. PICK moved \in ClientStates : client' = [client EXCEPT ![a] = moved] /\ moved.cfg.max <= maxSeen
    <3>1. PICK w \in BOOLEAN, pc \in {"take", "miss", "hit"} :
            client' = [client EXCEPT ![a] = [client[a] EXCEPT !.pc = pc, !.wake = w]]
      BY <2>3
    <3> DEFINE moved == [client[a] EXCEPT !.pc = pc, !.wake = w]
    <3>2. moved \in ClientStates /\ moved.cfg = client[a].cfg
      BY <1>c DEF ClientStates
    <3> QED BY <3>1, <3>2, <1>c
  <2>5. ClientInv'
    BY <2>2, <2>4, <1>a, ClientChanges
  <2> HIDE DEF fresh
  <2>6. idle' \in Seq(Nat) /\ Len(idle') <= Len(idle) /\ Aged(idle', clock)
    <3>1. CASE idle' = <<>>
      BY <3>1, <1>b DEF Aged
    <3>2. CASE fresh # <<>> /\ idle' = Tail(fresh)
      <4>1. Tail(fresh) \in Seq(Nat) /\ Len(Tail(fresh)) <= Len(fresh) /\ Aged(Tail(fresh), clock)
        BY <1>b, <2>1, <3>2, TailAged
      <4> QED BY <3>2, <4>1, <2>1, <1>b
    <3> QED BY <2>2, <3>1, <3>2
  <2>7. QueueInv'
    BY <2>2, <2>6, <1>b, QueueChanges
  <2>8. PlainTypes'
    BY <2>2, <2>6, <1>a DEF PlainTypes
  <2>9. WarmerInv'
    BY <2>2, <1>a, WarmerFrame
  <2> QED BY <2>5, <2>7, <2>8, <2>9
<1>3. ASSUME NEW a \in Clients, AcquireHits(a) PROVE PoolInv'
  <2>1. PICK moved \in ClientStates : client' = [client EXCEPT ![a] = moved] /\ moved.cfg.max <= maxSeen
    BY <1>3, <1>e DEF AcquireHits
  <2>2. ClientInv'
    BY <1>3, <1>a, <2>1, ClientChanges DEF AcquireHits
  <2>3. PlainTypes'
    BY <1>3, <1>a, <1>c DEF AcquireHits, PlainTypes
  <2>4. WarmerInv'
    BY <1>3, <1>a, WarmerFrame DEF AcquireHits
  <2>5. QueueInv'
    BY <1>3, <1>a, QueueFrame DEF AcquireHits
  <2> QED BY <2>2, <2>3, <2>4, <2>5
<1>4. ASSUME NEW a \in Clients, AcquireMisses(a) PROVE PoolInv'
  <2>1. PICK moved \in ClientStates : client' = [client EXCEPT ![a] = moved] /\ moved.cfg.max <= maxSeen
    BY <1>4, <1>e DEF AcquireMisses
  <2>2. ClientInv'
    BY <1>4, <1>a, <2>1, ClientChanges DEF AcquireMisses
  <2>3. PlainTypes'
    BY <1>4, <1>a DEF AcquireMisses, PlainTypes
  <2>4. WarmerInv'
    BY <1>4, <1>a, WarmerFrame DEF AcquireMisses
  <2>5. QueueInv'
    BY <1>4, <1>a, QueueFrame DEF AcquireMisses
  <2> QED BY <2>2, <2>3, <2>4, <2>5
<1>5. ASSUME NEW a \in Clients, AcquireDialed(a) PROVE PoolInv'
  <2>1. PICK moved \in ClientStates : client' = [client EXCEPT ![a] = moved] /\ moved.cfg.max <= maxSeen
    BY <1>5, <1>e DEF AcquireDialed
  <2>2. ClientInv'
    BY <1>5, <1>a, <2>1, ClientChanges DEF AcquireDialed
  <2>3. PlainTypes'
    BY <1>5, <1>a DEF AcquireDialed, PlainTypes
  <2>4. WarmerInv'
    BY <1>5, <1>a, WarmerFrame DEF AcquireDialed
  <2>5. QueueInv'
    BY <1>5, <1>a, QueueFrame DEF AcquireDialed
  <2> QED BY <2>2, <2>3, <2>4, <2>5
<1>6. ASSUME NEW a \in Clients, Uses(a) PROVE PoolInv'
  <2>1. PICK moved \in ClientStates : client' = [client EXCEPT ![a] = moved] /\ moved.cfg.max <= maxSeen
    BY <1>6, <1>d DEF Uses
  <2>2. ClientInv'
    BY <1>6, <1>a, <2>1, ClientChanges DEF Uses
  <2>3. PlainTypes'
    BY <1>6, <1>a DEF Uses, PlainTypes
  <2>4. WarmerInv'
    BY <1>6, <1>a, WarmerFrame DEF Uses
  <2>5. QueueInv'
    BY <1>6, <1>a, QueueFrame DEF Uses
  <2> QED BY <2>2, <2>3, <2>4, <2>5
<1>7. ASSUME NEW a \in Clients, ReleaseStarts(a) PROVE PoolInv'
  <2>1. PICK moved \in ClientStates : client' = [client EXCEPT ![a] = moved] /\ moved.cfg.max <= maxSeen
    <3>1. [client[a] EXCEPT !.pc = "release", !.cfg = cfg] \in ClientStates
      BY <1>c, <1>f DEF ClientStates
    <3>2. [client[a] EXCEPT !.pc = "release", !.cfg = cfg].cfg.max <= maxSeen
      BY <1>c, <1>f DEF ClientStates
    <3>3. client' = [client EXCEPT ![a] = [client[a] EXCEPT !.pc = "release", !.cfg = cfg]]
      BY <1>7 DEF ReleaseStarts
    <3> QED BY <3>1, <3>2, <3>3
  <2>2. ClientInv'
    BY <1>7, <1>a, <2>1, ClientChanges DEF ReleaseStarts
  <2>3. PlainTypes'
    BY <1>7, <1>a DEF ReleaseStarts, PlainTypes
  <2>4. WarmerInv'
    BY <1>7, <1>a, WarmerFrame DEF ReleaseStarts
  <2>5. QueueInv'
    BY <1>7, <1>a, QueueFrame DEF ReleaseStarts
  <2> QED BY <2>2, <2>3, <2>4, <2>5
<1>8. ASSUME NEW a \in Clients, ReleaseClean(a) PROVE PoolInv'
  <2>1. idle' \in Seq(Nat) /\ Len(idle') <= maxSeen /\ Aged(idle', clock)
    <3>1. idle' = idle \/ (Len(idle) < client[a].cfg.max /\ idle' = Append(idle, clock))
      BY <1>8 DEF ReleaseClean
    <3>2. Append(idle, clock) \in Seq(Nat) /\ Len(Append(idle, clock)) = Len(idle) + 1
          /\ Aged(Append(idle, clock), clock)
      BY <1>b, AppendAged
    <3>3. CASE idle' = idle
      BY <3>3, <1>b
    <3>4. CASE Len(idle) < client[a].cfg.max /\ idle' = Append(idle, clock)
      <4>1. Len(idle) + 1 <= maxSeen
        BY <3>4, <1>b, <1>c, LenProperties
      <4> QED BY <3>2, <3>4, <4>1
    <3> QED BY <3>1, <3>3, <3>4
  <2>2. UNCHANGED <<cfg, clock, permit, cold, warmer, maxSeen, ops, faults>>
        /\ client' = [client EXCEPT ![a] = Away]
    BY <1>8 DEF ReleaseClean
  <2>3. QueueInv' /\ WarmerInv'
    BY <2>1, <2>2, <1>a, QueueChanges, WarmerFrame
  <2>4. ClientInv'
    BY <2>2, <1>a, <1>d, ClientChanges
  <2>5. PlainTypes'
    BY <2>1, <2>2, <1>a DEF PlainTypes
  <2> QED BY <2>3, <2>4, <2>5
<1>9. CASE FlushIdle
  <2>1. QueueInv'
    BY <1>9, <1>b DEF FlushIdle, QueueInv, OldestFirst, IdleWithinMax
  <2>2. PlainTypes'
    BY <1>9, <1>a DEF FlushIdle, PlainTypes
  <2>3. WarmerInv' /\ ClientInv'
    BY <1>9, <1>a, WarmerFrame, ClientFrame DEF FlushIdle
  <2> QED BY <2>1, <2>2, <2>3
<1>10. ASSUME NEW c \in Cfgs, Resize(c) PROVE PoolInv'
  <2>1. c.max \in Nat
    BY CfgTypes
  <2>2. maxSeen' \in Nat /\ maxSeen <= maxSeen' /\ c.max <= maxSeen'
    BY <1>10, <1>b, <2>1 DEF Resize, Most
  <2>3. UNCHANGED <<idle, clock, client, warmer>> /\ cfg' = c
    BY <1>10 DEF Resize
  <2>4. QueueInv'
    BY <2>2, <2>3, <1>a, <1>b DEF QueueInv, OldestFirst, IdleWithinMax
  <2>5. PlainTypes'
    BY <1>10, <2>2, <1>a DEF Resize, PlainTypes
  <2>6. InitCfg.max \in Nat /\ InitCfg.max <= maxSeen
    BY <1>a, CfgTypes DEF ClientInv, MaxKnown
  <2>7. ClientInv'
    BY <2>2, <2>3, <2>6, <1>a, <1>b, <1>c DEF ClientInv, MaxKnown
  <2> QED BY <2>3, <2>4, <2>5, <2>7, <1>a, WarmerFrame
<1>11. CASE TimePasses
  <2>1. QueueInv'
    BY <1>11, <1>a, <1>b DEF TimePasses, QueueInv, OldestFirst, IdleWithinMax
  <2>2. PlainTypes'
    BY <1>11, <1>a DEF TimePasses, PlainTypes
  <2> QED BY <1>11, <2>1, <2>2, <1>a, WarmerFrame, ClientFrame DEF TimePasses
<1>12. CASE WarmerTicks \/ WarmerNotified
  <2>1. /\ UNCHANGED <<cfg, idle, clock, cold, client, maxSeen, ops, faults>>
        /\ permit' \in BOOLEAN /\ warmer' = NoRound("evict")
    BY <1>12 DEF WarmerTicks, WarmerNotified, WarmerWakes
  <2>2. PlainTypes'
    BY <2>1, <1>a DEF PlainTypes
  <2> QED BY <2>1, <2>2, <1>a, FreshRound, QueueFrame, ClientFrame
<1>13. CASE WarmerEvicts
  <2>1. /\ FreshSuffix(idle, clock, cfg) \in Seq(Nat)
        /\ Len(FreshSuffix(idle, clock, cfg)) <= Len(idle)
        /\ Aged(FreshSuffix(idle, clock, cfg), clock)
    BY <1>b, <1>f, FreshSuffixAged
  <2>2. /\ UNCHANGED <<cfg, clock, permit, cold, client, maxSeen, ops, faults>>
        /\ warmer' = NoRound("check") /\ idle' = FreshSuffix(idle, clock, cfg)
    BY <1>13 DEF WarmerEvicts
  <2>3. idle' \in Seq(Nat) /\ Len(idle') <= maxSeen /\ Aged(idle', clock)
    BY <2>1, <2>2, <1>b
  <2>4. QueueInv' /\ WarmerInv' /\ ClientInv'
    BY <2>2, <2>3, <1>a, QueueChanges, FreshRound, ClientFrame
  <2>5. PlainTypes'
    BY <2>2, <2>3, <1>a DEF PlainTypes
  <2> QED BY <2>4, <2>5
<1>14. CASE WarmerChecks
  <2>1. Least(cfg.min + Least(cold, cfg.min), cfg.max) \in Nat
    BY <1>a, <1>f DEF PlainTypes, Least
  <2>2. WarmerInv'
    BY <1>14, <2>1, FreshRound DEF WarmerChecks
  <2>3. PlainTypes'
    BY <1>14, <1>a DEF WarmerChecks, PlainTypes
  <2> QED BY <1>14, <2>2, <2>3, <1>a, QueueFrame, ClientFrame DEF WarmerChecks
<1>g. /\ warmer.dials \in Nat /\ warmer.fails \in Nat /\ warmer.tried \in Nat /\ warmer.lanes \in Nat
      /\ warmer.hit \in BOOLEAN /\ MaxFail \in Nat /\ WarmParallel \in Nat
  BY <1>a, PoolConstants DEF WarmerInv, WarmerStates
<1>15. CASE WarmerDials
  <2> DEFINE d == warmer.dials + 1
             t == IF warmer.hit THEN 0 ELSE warmer.tried + 1
  <2>1. d \in Nat /\ t \in Nat
    BY <1>g
  <2>2. warmer' = [warmer EXCEPT !.dials = d, !.tried = t]
    BY <1>15 DEF WarmerDials
  <2>3. ~warmer.hit => d = 1 /\ t = warmer.fails + d /\ warmer.fails < MaxFail
    BY <1>15, <1>a, <1>g DEF WarmerDials, MayDial, WarmerInv, SerialTries
  <2> HIDE DEF d, t
  <2>4. /\ warmer' \in WarmerStates /\ warmer'.pc = warmer.pc /\ warmer'.dials = d
        /\ warmer'.tried = t /\ warmer'.fails = warmer.fails /\ warmer'.lanes = warmer.lanes
        /\ warmer'.hit = warmer.hit
    BY <1>a, <2>1, <2>2 DEF WarmerInv, WarmerStates
  <2>5. warmer.pc = "spawn"
    BY <1>15 DEF WarmerDials
  <2>6. WarmerInv'
    BY <2>3, <2>4, <2>5, <1>a, <1>g DEF WarmerInv, JoinHasDial, SerialTries
  <2>7. PlainTypes'
    BY <1>15, <1>a DEF WarmerDials, PlainTypes
  <2> QED BY <1>15, <2>6, <2>7, <1>a, QueueFrame, ClientFrame DEF WarmerDials
<1>16. CASE WarmerJoins
  <2>1. PlainTypes'
    BY <1>16, <1>a DEF WarmerJoins, PlainTypes
  <2>2. CASE warmer.dials = 0
    BY <1>16, <2>1, <2>2, <1>a, FreshRound, QueueFrame, ClientFrame DEF WarmerJoins
  <2>3. CASE warmer.dials # 0
    <3>1. warmer' = [warmer EXCEPT !.pc = "join"]
      BY <1>16, <2>3 DEF WarmerJoins
    <3>2. /\ warmer' \in WarmerStates /\ warmer'.dials = warmer.dials
          /\ warmer'.tried = warmer.tried /\ warmer'.fails = warmer.fails
          /\ warmer'.lanes = warmer.lanes /\ warmer'.hit = warmer.hit
      BY <3>1, <1>a DEF WarmerInv, WarmerStates
    <3>3. WarmerInv'
      BY <3>2, <2>3, <1>a, <1>g DEF WarmerInv, JoinHasDial, SerialTries
    <3> QED BY <1>16, <2>1, <3>3, <1>a, QueueFrame, ClientFrame DEF WarmerJoins
  <2> QED BY <2>2, <2>3
<1>h. warmer.pc = "join" => warmer.dials - 1 \in Nat
  BY <1>a, <1>g DEF WarmerInv, JoinHasDial
<1>17. CASE Warmed
  <2>1. idle' \in Seq(Nat) /\ Len(idle') <= maxSeen /\ Aged(idle', clock)
    <3>1. idle' = idle \/ (Len(idle) < cfg.max /\ idle' = Append(idle, clock))
      BY <1>17 DEF Warmed
    <3>2. Append(idle, clock) \in Seq(Nat) /\ Len(Append(idle, clock)) = Len(idle) + 1
          /\ Aged(Append(idle, clock), clock)
      BY <1>b, AppendAged
    <3>3. CASE idle' = idle
      BY <3>3, <1>b
    <3>4. CASE Len(idle) < cfg.max /\ idle' = Append(idle, clock)
      <4>1. Len(idle) + 1 <= maxSeen
        BY <3>4, <1>b, <1>f, LenProperties
      <4> QED BY <3>2, <3>4, <4>1
    <3> QED BY <3>1, <3>3, <3>4
  <2>2. UNCHANGED <<cfg, clock, permit, cold, client, maxSeen, ops, faults>>
    BY <1>17 DEF Warmed
  <2>3. QueueInv' /\ ClientInv'
    BY <2>1, <2>2, <1>a, QueueChanges, ClientFrame
  <2>4. warmer' \in WarmerStates /\ warmer'.pc = "spawn" /\ warmer'.hit = TRUE
    BY <1>17, <1>a, <1>g, <1>h DEF Warmed, WarmerInv, WarmerStates
  <2>5. WarmerInv'
    BY <2>4 DEF WarmerInv, JoinHasDial, SerialTries
  <2>6. PlainTypes'
    BY <2>1, <2>2, <1>a DEF PlainTypes
  <2> QED BY <2>3, <2>5, <2>6
<1>18. CASE WarmFails
  <2> DEFINE d == warmer.dials - 1
             f == warmer.fails + 1
  <2>1. d \in Nat /\ f \in Nat
    BY <1>18, <1>g, <1>h DEF WarmFails
  <2>2. warmer' = [warmer EXCEPT !.pc = "spawn", !.dials = d, !.fails = f]
    BY <1>18 DEF WarmFails
  <2>3. ~warmer.hit => d = 0 /\ warmer.tried = f + d /\ f <= MaxFail
    BY <1>18, <1>a, <1>g, <1>h DEF WarmFails, WarmerInv, JoinHasDial, SerialTries
  <2> HIDE DEF d, f
  <2>4. /\ warmer' \in WarmerStates /\ warmer'.pc = "spawn" /\ warmer'.dials = d
        /\ warmer'.tried = warmer.tried /\ warmer'.fails = f /\ warmer'.lanes = warmer.lanes
        /\ warmer'.hit = warmer.hit
    BY <1>a, <2>1, <2>2 DEF WarmerInv, WarmerStates
  <2>5. WarmerInv'
    BY <2>3, <2>4, <1>a, <1>g DEF WarmerInv, JoinHasDial, SerialTries
  <2>6. PlainTypes'
    BY <1>18, <1>a DEF WarmFails, PlainTypes
  <2> QED BY <1>18, <2>5, <2>6, <1>a, QueueFrame, ClientFrame DEF WarmFails
<1>19. CASE UNCHANGED vars
  <2>1. PlainTypes'
    BY <1>19, <1>a DEF vars, PlainTypes
  <2> QED BY <1>19, <2>1, <1>a, QueueFrame, WarmerFrame, ClientFrame DEF vars
<1> QED
  BY <1>1, <1>2, <1>3, <1>4, <1>5, <1>6, <1>7, <1>8, <1>9, <1>10, <1>11, <1>12, <1>13, <1>14,
     <1>15, <1>16, <1>17, <1>18, <1>19
  DEF Next, ClientStep, WarmerRounds

\* Spec keeps the invariant in every reachable state.
THEOREM PoolInvariant == Spec => []PoolInv
BY PoolInvInit, PoolInvStep, PTL DEF Spec

\* The state of the pool, its clients and the warmer is always well typed; in
\* particular the number of dials in flight never goes below zero.
THEOREM PoolTypes == Spec => []TypeOK
BY PoolInvariant, PTL DEF PoolInv

\* Whoever appends to it, the idle queue stays ordered by age, so checking only
\* its front finds every stale connection.
THEOREM PoolOldestFirst == Spec => []OldestFirst
BY PoolInvariant, PTL DEF PoolInv

\* Releases and parallel dials, each checking the room on its own, never exceed
\* the largest maximum configured.
THEOREM PoolWithinMax == Spec => []IdleWithinMax
BY PoolInvariant, PTL DEF PoolInv

\* An upstream that has not answered in this round is probed by one dial at a
\* time and by at most MaxFail of them.
THEOREM PoolProbedSerially == Spec => []ProbedSerially
<1>1. PoolInv => ProbedSerially
  <2>1. PoolInv => WarmerInv
    BY PoolInvParts
  <2>2. ASSUME WarmerInv, ~warmer.hit PROVE warmer.dials <= 1 /\ warmer.tried <= MaxFail
    <3>1. warmer.dials \in Nat /\ warmer.fails \in Nat /\ warmer.tried \in Nat /\ MaxFail \in Nat
      BY <2>2, PoolConstants DEF WarmerInv, WarmerStates
    <3> QED BY <2>2, <3>1 DEF WarmerInv, SerialTries
  <2> QED BY <2>1, <2>2 DEF ProbedSerially
<1> QED BY <1>1, PoolInvariant, PTL

\* What acquire, release and the warmer promise together.
THEOREM PoolSafety == Spec => []PoolSafe
BY PoolTypes, PoolOldestFirst, PoolWithinMax, PoolProbedSerially, PTL DEF PoolSafe
-----------------------------------------------------------------------------
(***************************************************************************)
(* A smart group (SmartGroup): what the failures on record have to do with *)
(* the tests that failed.                                                  *)
(***************************************************************************)

Places == {"wait", "fetch", "lock", "vanished", "seed", "ladder", "first", "fresh", "reselect", "anchor",
           "confirm", "judge", "hold", "order", "sweep", "compare", "check"}
Passes == [pc : Places, left : Int, members : SUBSET Nodes, cur : MaybeNode, locked : MaybeNode,
           anchor : MaybeNode, switched : BOOLEAN, anchorOk : BOOLEAN, todo : Seq(Nodes),
           pick : MaybeNode, rung : Int]

\* What clash and the user have, and what the runner has.
OutsideInv ==
  /\ health \in [Nodes -> BOOLEAN] /\ members \in SUBSET Nodes
  /\ now \in MaybeNode /\ lock \in MaybeNode /\ user \in MaybeNode
RunnerInv == pass \in Passes /\ anchor \in MaybeNode /\ gap \in 1 .. MaxGap

\* The record of a node: a streak is of tests that failed, the last one included.
NodeOK(h, k, m) ==
  /\ Len(h) <= HistCap
  /\ k > 0 => Len(h) > 0 /\ h[Len(h)] = FALSE /\ m > 0
  /\ k > 1 => m = 2
RecordInv ==
  /\ hist \in [Nodes -> Seq(BOOLEAN)] /\ streak \in [Nodes -> 0 .. BackoffAfter]
  /\ backed \in [Nodes -> BOOLEAN] /\ missed \in [Nodes -> 0 .. 2]
  /\ \A n \in Nodes : NodeOK(hist[n], streak[n], missed[n])

\* The ladder is for groups of which nothing is known; a failure that is to be
\* confirmed has happened.
StepInv ==
  /\ pass.pc = "ladder" => \A n \in pass.members : hist[n] = <<>>
  /\ pass.pc = "confirm" => pass.anchor \in Nodes /\ missed[pass.anchor] > 0

SmartInv == OutsideInv /\ RunnerInv /\ RecordInv /\ StepInv

\* One more sample.
LEMMA PushedIs ==
  ASSUME NEW h \in Seq(BOOLEAN), Len(h) <= HistCap, NEW ok \in BOOLEAN
  PROVE  LET q == Pushed(h, ok)
         IN  q \in Seq(BOOLEAN) /\ Len(q) <= HistCap /\ Len(q) > 0 /\ q[Len(q)] = ok
<1> DEFINE g == IF Len(h) = HistCap THEN Tail(h) ELSE h  q == Append(g, ok)
<1>1. g \in Seq(BOOLEAN) /\ Len(g) < HistCap
  <2>1. CASE Len(h) = HistCap
    <3>1. Tail(h) \in Seq(BOOLEAN) /\ Len(Tail(h)) = Len(h) - 1
      BY <2>1, SmartConstants
    <3> QED
      BY <2>1, <3>1
  <2>2. CASE Len(h) # HistCap
    BY <2>2, SmartConstants
  <2> QED
    BY <2>1, <2>2
<1> HIDE DEF g
<1>2. q \in Seq(BOOLEAN) /\ Len(q) = Len(g) + 1 /\ q[Len(g) + 1] = ok
  BY <1>1
<1>3. q = Pushed(h, ok)
  BY DEF Pushed, g
<1> HIDE DEF q
<1> QED
  BY <1>1, <1>2, <1>3, SmartConstants

\* The tests of some nodes go on record.  A failure that is recorded twice was
\* confirmed, others were missed as often as before and once more.
LEMMA ObservesKeeps ==
  ASSUME RecordInv, NEW S \in SUBSET Nodes, NEW ok \in [S -> BOOLEAN], NEW times \in {1, 2},
         Observes(S, ok, times), missed' \in [Nodes -> 0 .. 2],
         \A n \in Nodes \ S : missed'[n] = missed[n],
         \A n \in S : ~ok[n] => missed'[n] = 2 \/ (times = 1 /\ missed[n] = 0 /\ missed'[n] = 1)
  PROVE  RecordInv'
<1>1. ASSUME NEW n \in Nodes \ S
      PROVE  /\ hist'[n] = hist[n] /\ streak'[n] = streak[n] /\ backed'[n] = backed[n]
             /\ NodeOK(hist'[n], streak'[n], missed'[n])
  <2>1. hist'[n] = hist[n] /\ streak'[n] = streak[n] /\ backed'[n] = backed[n] /\ missed'[n] = missed[n]
    BY DEF Observes
  <2> QED
    BY <2>1 DEF RecordInv
<1>2. ASSUME NEW n \in S
      PROVE  /\ hist'[n] \in Seq(BOOLEAN) /\ streak'[n] \in 0 .. BackoffAfter /\ backed'[n] \in BOOLEAN
             /\ NodeOK(hist'[n], streak'[n], missed'[n])
  <2> DEFINE o == ok[n]  f == streak[n] + times
  <2>1. /\ hist'[n] = IF times = 1 THEN Pushed(hist[n], o) ELSE Pushed(Pushed(hist[n], o), o)
        /\ streak'[n] = IF o THEN 0 ELSE IF f < BackoffAfter THEN f ELSE BackoffAfter
        /\ backed'[n] = (~o /\ f >= BackoffAfter)
    BY DEF Observes
  <2>2. /\ hist[n] \in Seq(BOOLEAN) /\ NodeOK(hist[n], streak[n], missed[n])
        /\ streak[n] \in 0 .. BackoffAfter /\ missed[n] \in 0 .. 2 /\ missed'[n] \in 0 .. 2
        /\ o \in BOOLEAN /\ BackoffAfter \in Nat \ {0}
        /\ ~o => missed'[n] = 2 \/ (times = 1 /\ missed[n] = 0 /\ missed'[n] = 1)
    BY SmartConstants DEF RecordInv
  <2> HIDE DEF o
  <2>3. hist'[n] \in Seq(BOOLEAN) /\ Len(hist'[n]) <= HistCap /\ Len(hist'[n]) > 0 /\ hist'[n][Len(hist'[n])] = o
    <3> DEFINE q == Pushed(hist[n], o)  r == Pushed(q, o)
    <3>1. q \in Seq(BOOLEAN) /\ Len(q) <= HistCap /\ Len(q) > 0 /\ q[Len(q)] = o
      BY <2>2, PushedIs DEF NodeOK
    <3> HIDE DEF q
    <3>2. r \in Seq(BOOLEAN) /\ Len(r) <= HistCap /\ Len(r) > 0 /\ r[Len(r)] = o
      BY <2>2, <3>1, PushedIs
    <3>3. hist'[n] = IF times = 1 THEN q ELSE r
      BY <2>1 DEF q
    <3> QED
      BY <3>1, <3>2, <3>3
  <2>4. /\ streak'[n] \in 0 .. BackoffAfter
        /\ streak'[n] > 0 => ~o /\ missed'[n] > 0
        /\ streak'[n] > 1 => missed'[n] = 2
    BY <2>1, <2>2 DEF NodeOK
  <2>5. backed'[n] \in BOOLEAN
    BY <2>1
  <2> QED
    BY <2>2, <2>3, <2>4, <2>5 DEF NodeOK
<1>3. /\ hist' = [n \in Nodes |-> hist'[n]] /\ streak' = [n \in Nodes |-> streak'[n]]
      /\ backed' = [n \in Nodes |-> backed'[n]]
  BY DEF Observes
<1>4. ASSUME NEW n \in Nodes
      PROVE  /\ hist'[n] \in Seq(BOOLEAN) /\ streak'[n] \in 0 .. BackoffAfter /\ backed'[n] \in BOOLEAN
             /\ NodeOK(hist'[n], streak'[n], missed'[n])
  <2>1. CASE n \in S
    BY <1>2, <2>1
  <2>2. CASE n \notin S
    BY <1>1, <2>2 DEF RecordInv
  <2> QED
    BY <2>1, <2>2
<1>5. hist' \in [Nodes -> Seq(BOOLEAN)] /\ streak' \in [Nodes -> 0 .. BackoffAfter] /\ backed' \in [Nodes -> BOOLEAN]
  BY <1>3, <1>4
<1> QED
  BY <1>4, <1>5 DEF RecordInv

\* A test of one node is counted.
LEMMA TestsIs ==
  ASSUME RecordInv, NEW n \in Nodes, NEW ok \in BOOLEAN, Tests(n, ok)
  PROVE  /\ missed' \in [Nodes -> 0 .. 2] /\ \A m \in Nodes \ {n} : missed'[m] = missed[m]
         /\ missed'[n] = IF ok THEN 0 ELSE IF missed[n] = 0 THEN 1 ELSE 2
         /\ missed[n] \in 0 .. 2
BY DEF RecordInv, Tests

\* A test that goes on record.
LEMMA ObserveKeeps ==
  ASSUME RecordInv, NEW n \in Nodes, NEW ok \in BOOLEAN, NEW times \in {1, 2}, Tests(n, ok), Observe(n, ok, times),
         times = 2 => missed[n] > 0
  PROVE  RecordInv'
<1> DEFINE S == {n}  o == [x \in {n} |-> ok]
<1>1. Observes(S, o, times) /\ S \in SUBSET Nodes /\ o \in [S -> BOOLEAN] /\ o[n] = ok
  BY DEF Observe
<1>2. /\ missed' \in [Nodes -> 0 .. 2] /\ \A m \in Nodes \ S : missed'[m] = missed[m]
      /\ missed'[n] = IF ok THEN 0 ELSE IF missed[n] = 0 THEN 1 ELSE 2
      /\ missed[n] \in 0 .. 2
  BY TestsIs
<1> HIDE DEF o
<1>3. \A m \in S : ~o[m] => missed'[m] = 2 \/ (times = 1 /\ missed[m] = 0 /\ missed'[m] = 1)
  <2> SUFFICES ASSUME ~ok
               PROVE  missed'[n] = 2 \/ (times = 1 /\ missed[n] = 0 /\ missed'[n] = 1)
    BY <1>1
  <2>1. missed'[n] = IF missed[n] = 0 THEN 1 ELSE 2
    BY <1>2
  <2>2. times = 1 \/ missed[n] # 0
    OBVIOUS
  <2> QED
    BY <2>1, <2>2
<1> HIDE DEF S
<1> QED
  BY <1>1, <1>2, <1>3, ObservesKeeps

\* A test that fails and does not.
LEMMA TestKeeps ==
  ASSUME RecordInv, NEW n \in Nodes, Tests(n, FALSE), UNCHANGED <<hist, streak, backed>>
  PROVE  RecordInv' /\ missed'[n] > 0
<1>1. /\ missed' \in [Nodes -> 0 .. 2] /\ \A m \in Nodes \ {n} : missed'[m] = missed[m]
      /\ missed'[n] = IF missed[n] = 0 THEN 1 ELSE 2
      /\ missed[n] \in 0 .. 2
  BY TestsIs
<1>2. ASSUME NEW m \in Nodes
      PROVE  NodeOK(hist'[m], streak'[m], missed'[m])
  <2>1. NodeOK(hist[m], streak[m], missed[m]) /\ missed[m] \in 0 .. 2
    BY DEF RecordInv
  <2>2. missed'[m] \in 0 .. 2 /\ (missed[m] > 0 => missed'[m] > 0) /\ (missed[m] = 2 => missed'[m] = 2)
    BY <1>1, <2>1
  <2> QED
    BY <2>1, <2>2 DEF NodeOK
<1> QED
  BY <1>1, <1>2 DEF RecordInv

\* The runner's requests select a member or nothing new.
LEMMA SelectsKeeps ==
  ASSUME OutsideInv, NEW n, NEW r, Selects(n, r), UNCHANGED <<health, members, lock, user>>
  PROVE  OutsideInv'
BY DEF OutsideInv, Selects, MaybeNode

\* The runner between two passes.
LEMMA WaitingIs ==
  /\ \A k \in Int : Waiting(k) \in Passes
  /\ NextPass \in Passes /\ NextPass.pc = "fetch"
<1>1. \A k \in Int : Waiting(k) \in Passes
  BY DEF Waiting, Passes, Places, MaybeNode
<1>2. Waiting(0) \in Passes
  BY <1>1
<1> QED
  BY <1>1, <1>2 DEF NextPass, Passes, Places

\* A pass that ends or fails.
LEMMA PassOver ==
  ASSUME RunnerInv, NEW settled \in BOOLEAN, EndPass(settled) \/ PassFails
  PROVE  gap' \in 1 .. MaxGap /\ pass' \in Passes /\ pass'.pc \in {"wait", "fetch"}
<1>1. gap' \in 1 .. MaxGap
  BY SmartConstants DEF RunnerInv, EndPass, PassFails
<1>2. CASE EndPass(settled)
  <2>1. pass' = Waiting(gap') /\ gap' \in Int
    BY <1>1, <1>2 DEF EndPass
  <2> QED
    BY <1>1, <2>1, WaitingIs DEF Waiting
<1>3. CASE PassFails
  BY <1>1, <1>3, WaitingIs DEF PassFails
<1> QED
  BY <1>2, <1>3

\* Where nothing is recorded, the records stay right.
LEMMA RecordFrame ==
  ASSUME RecordInv, UNCHANGED <<hist, streak, backed, missed>>
  PROVE  RecordInv'
BY DEF RecordInv

\* A pass goes on to a step that neither climbs the ladder nor confirms.
Further(p) == p \in Passes /\ p.pc \notin {"ladder", "confirm"}

\* Steps of others: nodes, clash, the clock and the user.
LEMMA OthersKeep ==
  ASSUME SmartInv,
         \/ \E n \in Nodes : HealthChanges(n) \/ BackoffEnds(n) \/ UserLocks(n)
         \/ \E ms \in SUBSET Nodes : ClashReloads(ms)
         \/ UserSelects \/ UserUnlocks
  PROVE  SmartInv'
<1>1. UNCHANGED <<hist, streak, missed, anchor, gap, pass>>
  BY DEF HealthChanges, BackoffEnds, UserLocks, ClashReloads, UserSelects, UserUnlocks, gs, clash
<1>2. backed' \in [Nodes -> BOOLEAN]
  BY DEF HealthChanges, BackoffEnds, UserLocks, ClashReloads, UserSelects, UserUnlocks, gs, SmartInv, RecordInv
<1>3. OutsideInv'
  BY DEF HealthChanges, BackoffEnds, UserLocks, ClashReloads, UserSelects, UserUnlocks, clash, SmartInv, OutsideInv, MaybeNode
<1>4. RunnerInv' /\ StepInv'
  BY <1>1 DEF SmartInv, RunnerInv, StepInv
<1>5. RecordInv'
  BY <1>1, <1>2 DEF SmartInv, RecordInv
<1> QED
  BY <1>3, <1>4, <1>5 DEF SmartInv

\* Steps of a pass that record nothing.
LEMMA QuietKeeps ==
  ASSUME SmartInv, UNCHANGED <<hist, streak, backed, missed>>, OutsideInv', Further(pass'),
         anchor' \in MaybeNode, gap' \in 1 .. MaxGap
  PROVE  SmartInv'
<1>1. RecordInv'
  BY RecordFrame DEF SmartInv
<1> QED
  BY <1>1 DEF SmartInv, RunnerInv, StepInv, Further

\* Steps of a pass that record no sample.
LEMMA PassQuietly ==
  ASSUME SmartInv,
         \/ PassFetches \/ PassFindsNothing \/ PassReadsLock \/ PassReleasesVanished \/ LadderPicks
         \/ Reselects \/ JudgesLock \/ HoldsLock \/ SweepStarts \/ SweepKeeps \/ SweepSwitches
         \/ PassEnds \/ Sleeps
  PROVE  SmartInv'
<1>1. /\ OutsideInv /\ RunnerInv /\ pass \in Passes /\ gap \in 1 .. MaxGap /\ anchor \in MaybeNode
      /\ pass.members \in SUBSET Nodes /\ pass.cur \in MaybeNode /\ pass.locked \in MaybeNode
      /\ pass.anchor \in MaybeNode /\ pass.pick \in MaybeNode /\ pass.todo \in Seq(Nodes) /\ pass.left \in Int
      /\ members \in SUBSET Nodes /\ now \in MaybeNode /\ lock \in MaybeNode /\ None \in MaybeNode
      /\ Nodes \subseteq MaybeNode
  BY DEF SmartInv, OutsideInv, RunnerInv, Passes, MaybeNode
<1>2. UNCHANGED <<hist, streak, backed, missed>> /\ (anchor' = anchor \/ PassEnds)
  BY DEF PassFetches, PassFindsNothing, PassReadsLock, PassReleasesVanished, LadderPicks, Reselects,
         JudgesLock, HoldsLock, SweepStarts, SweepKeeps, SweepSwitches, PassEnds, Sleeps, gs
<1>3. ASSUME NEW settled \in BOOLEAN, EndPass(settled) \/ PassFails
      PROVE  Further(pass') /\ gap' \in 1 .. MaxGap
  BY <1>1, <1>3, PassOver DEF Further
<1>4. CASE PassFetches
  <2>1. OutsideInv' /\ anchor' = anchor
    BY <1>1, <1>4 DEF PassFetches, OutsideInv, clash, gs
  <2>2. CASE pass' = [pass EXCEPT !.pc = "lock", !.members = members, !.cur = now] /\ gap' = gap
    BY <1>1, <1>2, <2>1, <2>2, QuietKeeps DEF Further, Passes, Places
  <2>3. CASE PassFails
    BY <1>1, <1>2, <1>3, <2>1, <2>3, QuietKeeps
  <2> QED
    BY <1>4, <2>2, <2>3 DEF PassFetches
<1>5. CASE PassFindsNothing
  <2>1. OutsideInv' /\ anchor' = anchor /\ EndPass(FALSE)
    BY <1>1, <1>5 DEF PassFindsNothing, OutsideInv, clash, gs
  <2> QED
    BY <1>1, <1>2, <1>3, <2>1, QuietKeeps
<1>6. CASE PassReadsLock
  <2>1. OutsideInv' /\ anchor' = anchor /\ gap' = gap
    BY <1>1, <1>6 DEF PassReadsLock, OutsideInv, clash, gs
  <2>2. Further(pass')
    BY <1>1, <1>6 DEF PassReadsLock, Further, Passes, Places
  <2> QED
    BY <1>1, <1>2, <2>1, <2>2, QuietKeeps
<1>7. CASE PassReleasesVanished
  <2>1. OutsideInv' /\ anchor' = anchor /\ gap' = gap
    BY <1>1, <1>7 DEF PassReleasesVanished, OutsideInv, clash, gs
  <2>2. Further(pass')
    BY <1>1, <1>7 DEF PassReleasesVanished, Further, Passes, Places
  <2> QED
    BY <1>1, <1>2, <2>1, <2>2, QuietKeeps
<1>8. CASE LadderPicks
  <2>1. UNCHANGED <<health, members, lock, user, anchor>>
    BY <1>8 DEF LadderPicks, gs
  <2>2. now' = now \/ \E r : Selects(pass.pick, r)
    BY <1>8 DEF LadderPicks
  <2>3. OutsideInv'
    BY <1>1, <2>1, <2>2, SelectsKeeps DEF OutsideInv
  <2>4. EndPass(FALSE) \/ PassFails
    BY <1>8 DEF LadderPicks
  <2> QED
    BY <1>1, <1>2, <1>3, <2>1, <2>3, <2>4, QuietKeeps
<1>9. CASE Reselects
  <2>1. UNCHANGED <<health, members, lock, user, anchor>>
    BY <1>9 DEF Reselects, gs
  <2>2. now' = now \/ \E n, r : Selects(n, r)
    BY <1>9 DEF Reselects
  <2>3. OutsideInv'
    BY <1>1, <2>1, <2>2, SelectsKeeps DEF OutsideInv
  <2>4. \/ PassFails
        \/ gap' = gap /\ \E cur \in MaybeNode, sw \in BOOLEAN :
             pass' = [pass EXCEPT !.pc = "anchor", !.cur = cur, !.switched = sw,
                                  !.anchor = IF pass.locked # None THEN pass.locked ELSE cur]
    <3> DEFINE to(cur, sw) == [pass EXCEPT !.pc = "anchor", !.cur = cur, !.switched = sw,
                                           !.anchor = IF pass.locked # None THEN pass.locked ELSE cur]
    <3>1. Best(pass.members) \subseteq Nodes
      BY <1>1 DEF Best
    <3>2. CASE pass' = to(pass.cur, FALSE) /\ gap' = gap
      BY <1>1, <3>2
    <3>3. CASE PassFails
      BY <3>3
    <3>4. CASE \E pick \in IF pass.locked # None THEN {pass.locked} ELSE Best(pass.members) :
                 pass' = to(pick, TRUE) /\ gap' = gap
      <4>1. PICK pick \in MaybeNode : pass' = to(pick, TRUE) /\ gap' = gap
        BY <1>1, <3>1, <3>4
      <4> QED
        BY <4>1
    <3> QED
      BY <1>9, <3>2, <3>3, <3>4 DEF Reselects
  <2>5. Further(pass') /\ gap' \in 1 .. MaxGap
    <3>1. ASSUME NEW cur \in MaybeNode, NEW sw \in BOOLEAN,
                 pass' = [pass EXCEPT !.pc = "anchor", !.cur = cur, !.switched = sw,
                                      !.anchor = IF pass.locked # None THEN pass.locked ELSE cur]
          PROVE  Further(pass')
      BY <1>1, <3>1 DEF Further, Passes, Places
    <3> QED
      BY <1>1, <1>3, <2>4, <3>1
  <2> QED
    BY <1>1, <1>2, <2>1, <2>3, <2>5, QuietKeeps
<1>10. CASE JudgesLock
  <2>1. OutsideInv' /\ anchor' = anchor /\ gap' = gap
    BY <1>1, <1>10 DEF JudgesLock, OutsideInv, clash, gs
  <2>2. LatestOk(pass.anchor) \in BOOLEAN
    <3>1. hist \in [Nodes -> Seq(BOOLEAN)]
      BY DEF SmartInv, RecordInv
    <3>2. CASE pass.anchor = None
      BY <3>2 DEF LatestOk, Samples
    <3>3. CASE pass.anchor # None
      <4>1. Samples(pass.anchor) \in Seq(BOOLEAN)
        BY <1>1, <3>1, <3>3 DEF Samples, MaybeNode
      <4> QED
        BY <4>1 DEF LatestOk, Last
    <3> QED
      BY <3>2, <3>3
  <2>3. Further(pass')
    BY <1>1, <1>10, <2>2 DEF JudgesLock, Further, Passes, Places
  <2> QED
    BY <1>1, <1>2, <2>1, <2>3, QuietKeeps
<1>11. CASE HoldsLock
  <2>1. UNCHANGED <<health, members, lock, user, anchor>>
    BY <1>11 DEF HoldsLock, gs
  <2>2. now' = now \/ \E r : Selects(pass.locked, r)
    BY <1>11 DEF HoldsLock
  <2>3. OutsideInv'
    BY <1>1, <2>1, <2>2, SelectsKeeps DEF OutsideInv
  <2>4. \/ PassFails
        \/ gap' = gap /\ (\/ pass' = Goes("order")
                          \/ pass' = [Goes("order") EXCEPT !.cur = pass.locked, !.switched = TRUE])
    BY <1>11 DEF HoldsLock
  <2>5. Further(pass') /\ gap' \in 1 .. MaxGap
    <3>1. CASE pass' = Goes("order") \/ pass' = [Goes("order") EXCEPT !.cur = pass.locked, !.switched = TRUE]
      BY <1>1, <2>4, <1>3, <3>1, ZenonT(60) DEF Goes, Further, Passes, Places
    <3> QED
      BY <1>1, <1>3, <2>4, <3>1
  <2> QED
    BY <1>1, <1>2, <2>1, <2>3, <2>5, QuietKeeps
<1>12. CASE SweepStarts
  <2>1. OutsideInv' /\ anchor' = anchor /\ gap' = gap
    BY <1>1, <1>12 DEF SweepStarts, OutsideInv, clash, gs
  <2> DEFINE S == {n \in pass.members \ {pass.anchor} : ~backed[n]}
  <2>2. PICK order \in Sorted(S) : pass' = [Goes("sweep") EXCEPT !.todo = order]
    BY <1>12 DEF SweepStarts
  <2>3. S \in SUBSET Nodes /\ IsFiniteSet(S)
    BY <1>1, SmartConstants, FS_Subset
  <2> HIDE DEF S
  <2>4. order \in Seq(Nodes)
    <3>1. Cardinality(S) \in Nat
      BY <2>3, FS_CardinalityType
    <3>2. order \in [1 .. Cardinality(S) -> S]
      BY <2>2 DEF Sorted, SetToSeqs
    <3> QED
      BY <2>3, <3>1, <3>2
  <2>5. Further(pass')
    BY <1>1, <2>2, <2>4 DEF Goes, Further, Passes, Places
  <2> QED
    BY <1>1, <1>2, <2>1, <2>5, QuietKeeps
<1>13. CASE SweepKeeps
  <2>1. OutsideInv' /\ anchor' = anchor /\ gap' = gap
    BY <1>1, <1>13 DEF SweepKeeps, OutsideInv, clash, gs
  <2>2. Further(pass')
    BY <1>1, <1>13 DEF SweepKeeps, Goes, Further, Passes, Places
  <2> QED
    BY <1>1, <1>2, <2>1, <2>2, QuietKeeps
<1>14. CASE SweepSwitches
  <2>1. UNCHANGED <<health, members, lock, user, anchor>> /\ \E r : Selects(pass.pick, r)
    BY <1>14 DEF SweepSwitches, gs
  <2>2. OutsideInv'
    BY <1>1, <2>1, SelectsKeeps
  <2>3. \/ PassFails
        \/ gap' = gap /\ (\/ pass' = Goes("sweep")
                          \/ pass' = [Goes("sweep") EXCEPT !.cur = pass.pick, !.switched = TRUE])
    BY <1>14 DEF SweepSwitches
  <2>4. CASE PassFails
    BY <1>1, <1>2, <1>3, <2>1, <2>2, <2>4, QuietKeeps
  <2>5. CASE gap' = gap /\ (\/ pass' = Goes("sweep")
                            \/ pass' = [Goes("sweep") EXCEPT !.cur = pass.pick, !.switched = TRUE])
    <3>1. Further(pass')
      BY <1>1, <2>5 DEF Goes, Further, Passes, Places
    <3> QED
      BY <1>1, <1>2, <2>1, <2>2, <2>5, <3>1, QuietKeeps
  <2> QED
    BY <2>3, <2>4, <2>5
<1>15. CASE PassEnds
  <2>1. OutsideInv'
    BY <1>1, <1>15 DEF PassEnds, OutsideInv, clash
  <2>2. anchor' \in MaybeNode
    BY <1>1, <1>15 DEF PassEnds
  <2>3. \E settled \in BOOLEAN : EndPass(settled)
    <3>1. EndPass(~pass.switched /\ pass.anchorOk /\ ~Recovering)
      BY <1>15 DEF PassEnds
    <3> QED
      BY <3>1
  <2> QED
    BY <1>2, <1>3, <2>1, <2>2, <2>3, QuietKeeps
<1>16. CASE Sleeps
  <2>1. OutsideInv' /\ anchor' = anchor /\ gap' = gap
    BY <1>1, <1>16 DEF Sleeps, OutsideInv, clash, gs
  <2>2. CASE pass' = NextPass
    <3>1. Further(NextPass)
      BY WaitingIs DEF Further
    <3> QED
      BY <1>1, <1>2, <2>1, <2>2, <3>1, QuietKeeps
  <2>3. CASE pass' = [pass EXCEPT !.pc = "check", !.left = @ - 1]
    <3> DEFINE l == pass.left - 1
    <3>1. l \in Int /\ pass' = [pass EXCEPT !.pc = "check", !.left = l]
      BY <1>1, <2>3
    <3> HIDE DEF l
    <3>2. Further(pass')
      BY <1>1, <3>1 DEF Further, Passes, Places
    <3> QED
      BY <1>1, <1>2, <2>1, <3>2, QuietKeeps
  <2> QED
    BY <1>16, <2>2, <2>3 DEF Sleeps
<1> QED
  BY <1>4, <1>5, <1>6, <1>7, <1>8, <1>9, <1>10, <1>11, <1>12, <1>13, <1>14, <1>15, <1>16

\* Steps that record something leave clash and the user alone.
LEMMA RecordKeeps ==
  ASSUME SmartInv, UNCHANGED <<clash, lock, user>>, RecordInv', pass' \in Passes, anchor' = anchor,
         gap' \in 1 .. MaxGap, StepInv'
  PROVE  SmartInv'
<1>1. OutsideInv'
  BY DEF SmartInv, OutsideInv, clash
<1> QED
  BY <1>1 DEF SmartInv, RunnerInv

\* What clash remembers of a node is a history.
LEMMA SeedIs ==
  ASSUME NEW h \in Seeds
  PROVE  h \in Seq(BOOLEAN) /\ Len(h) <= HistCap
<1>1. PICK k \in 0 .. HistCap : h \in [1 .. k -> BOOLEAN]
  BY DEF Seeds
<1>2. k \in Nat /\ k <= HistCap
  BY <1>1, SmartConstants
<1> QED
  BY <1>1, <1>2

\* A pass forgets the nodes that left and seeds those of which nothing is known.
LEMMA SeedsKeep == SmartInv /\ PassSeeds => SmartInv'
<1> SUFFICES ASSUME SmartInv, PassSeeds
             PROVE  SmartInv'
  OBVIOUS
<1> DEFINE D == {n \in pass.members : hist[n] = <<>>}
<1>1. /\ RecordInv /\ pass \in Passes /\ pass.members \in SUBSET Nodes /\ gap \in 1 .. MaxGap
      /\ hist \in [Nodes -> Seq(BOOLEAN)] /\ streak \in [Nodes -> 0 .. BackoffAfter]
      /\ backed \in [Nodes -> BOOLEAN] /\ missed \in [Nodes -> 0 .. 2]
      /\ \A n \in Nodes : NodeOK(hist[n], streak[n], missed[n])
  BY DEF SmartInv, RunnerInv, RecordInv, Passes
<1>2. PICK seed \in [D -> Seeds] :
        /\ hist' = [n \in Nodes |-> IF n \notin pass.members THEN <<>>
                                    ELSE IF n \in DOMAIN seed THEN seed[n] ELSE hist[n]]
        /\ pass' = CASE {n \in pass.members : hist'[n] = <<>>} = pass.members -> [Goes("ladder") EXCEPT !.rung = 1]
                     [] {n \in pass.members : hist'[n] = <<>>} = {} -> Goes("reselect")
                     [] OTHER -> Goes("fresh")
  BY DEF PassSeeds
<1>3. /\ streak' = [n \in Nodes |-> IF n \in pass.members THEN streak[n] ELSE 0]
      /\ backed' = [n \in Nodes |-> n \in pass.members /\ backed[n]]
      /\ UNCHANGED <<clash, lock, user, anchor, gap, missed>>
  BY DEF PassSeeds
<1>4. ASSUME NEW n \in Nodes
      PROVE  /\ hist'[n] \in Seq(BOOLEAN) /\ streak'[n] \in 0 .. BackoffAfter /\ backed'[n] \in BOOLEAN
             /\ NodeOK(hist'[n], streak'[n], missed'[n])
  <2>0. /\ hist'[n] = IF n \notin pass.members THEN <<>> ELSE IF n \in D THEN seed[n] ELSE hist[n]
        /\ streak'[n] = (IF n \in pass.members THEN streak[n] ELSE 0)
        /\ backed'[n] = (n \in pass.members /\ backed[n]) /\ missed'[n] = missed[n]
        /\ HistCap \in Nat \ {0} /\ BackoffAfter \in Nat /\ <<>> \in Seq(BOOLEAN) /\ Len(<<>>) = 0
    BY <1>2, <1>3, SmartConstants
  <2>1. CASE n \notin pass.members
    BY <2>0, <2>1 DEF NodeOK
  <2>2. CASE n \in D
    <3>1. hist[n] = <<>> /\ n \in pass.members
      BY <2>2
    <3>2. streak[n] = 0
      <4>1. streak[n] \in Nat /\ (streak[n] > 0 => Len(hist[n]) > 0)
        BY <1>1, SmartConstants DEF NodeOK
      <4> QED
        BY <2>0, <3>1, <4>1
    <3>3. seed[n] \in Seq(BOOLEAN) /\ Len(seed[n]) <= HistCap
      BY <2>2, SeedIs
    <3> QED
      BY <1>1, <2>0, <2>2, <3>1, <3>2, <3>3 DEF NodeOK
  <2>3. CASE n \in pass.members \ D
    BY <1>1, <2>0, <2>3
  <2> QED
    BY <2>1, <2>2, <2>3
<1>5. RecordInv'
  <2>1. hist' \in [Nodes -> Seq(BOOLEAN)]
    BY <1>2, <1>4
  <2>2. streak' \in [Nodes -> 0 .. BackoffAfter] /\ backed' \in [Nodes -> BOOLEAN]
    BY <1>3, <1>4
  <2> QED
    BY <1>1, <1>3, <1>4, <2>1, <2>2 DEF RecordInv
<1>6. pass' \in Passes /\ StepInv'
  <2> DEFINE U == {n \in pass.members : hist'[n] = <<>>}
             toLadder == [Goes("ladder") EXCEPT !.rung = 1]
  <2>0. pass' = CASE U = pass.members -> toLadder [] U = {} -> Goes("reselect") [] OTHER -> Goes("fresh")
    BY <1>2
  <2>1. (U = pass.members /\ pass' = toLadder) \/ pass' = Goes("reselect") \/ pass' = Goes("fresh")
    <3> HIDE DEF U, toLadder
    <3> QED
      BY <2>0
  <2>2. CASE U = pass.members /\ pass' = toLadder
    <3>1. PICK r \in Int : pass' = [Goes("ladder") EXCEPT !.rung = r]
      BY <2>2
    <3>2. pass' \in Passes /\ pass'.pc = "ladder" /\ pass'.members = pass.members
      BY <1>1, <3>1 DEF Goes, Passes, Places
    <3>3. \A n \in pass.members : hist'[n] = <<>>
      BY <2>2
    <3> QED
      BY <3>2, <3>3 DEF StepInv
  <2>3. CASE pass' = Goes("reselect") \/ pass' = Goes("fresh")
    <3>1. pass' \in Passes /\ pass'.pc \in {"reselect", "fresh"}
      BY <1>1, <2>3 DEF Goes, Passes, Places
    <3> QED
      BY <3>1 DEF StepInv
  <2> QED
    BY <2>1, <2>2, <2>3
<1> QED
  BY <1>1, <1>3, <1>5, <1>6, RecordKeeps

\* Only successes go on record on the ladder, of nodes that have no streak.
LEMMA LadderKeeps == SmartInv /\ LadderRung => SmartInv'
<1> SUFFICES ASSUME SmartInv, LadderRung
             PROVE  SmartInv'
  OBVIOUS
<1>1. /\ RunnerInv /\ pass \in Passes /\ pass.members \in SUBSET Nodes /\ gap \in 1 .. MaxGap
      /\ hist \in [Nodes -> Seq(BOOLEAN)] /\ streak \in [Nodes -> 0 .. BackoffAfter]
      /\ backed \in [Nodes -> BOOLEAN] /\ missed \in [Nodes -> 0 .. 2]
      /\ \A n \in Nodes : NodeOK(hist[n], streak[n], missed[n])
      /\ \A n \in pass.members : hist[n] = <<>>
      /\ pass.pc = "ladder" /\ pass.rung \in Int
  BY DEF SmartInv, RunnerInv, RecordInv, Passes, StepInv, LadderRung
<1>2. UNCHANGED <<clash, lock, user, streak, backed, anchor>>
  BY DEF LadderRung
<1>3. PICK S \in SUBSET pass.members :
        /\ hist' = [n \in Nodes |-> IF n \in S THEN Pushed(hist[n], TRUE) ELSE hist[n]]
        /\ missed' = [n \in Nodes |-> IF n \in S THEN 0 ELSE missed[n]]
        /\ \/ S = {} /\ pass' = [pass EXCEPT !.rung = @ + 1] /\ UNCHANGED gap
           \/ EndPass(FALSE)
           \/ \E m \in S : pass' = [Goes("first") EXCEPT !.pick = m] /\ UNCHANGED gap
  BY DEF LadderRung
<1>4. ASSUME NEW n \in Nodes
      PROVE  hist'[n] \in Seq(BOOLEAN) /\ missed'[n] \in 0 .. 2 /\ NodeOK(hist'[n], streak'[n], missed'[n])
  <2>1. CASE n \in S
    <3>1. hist[n] = <<>> /\ Len(<<>>) = 0 /\ <<>> \in Seq(BOOLEAN) /\ HistCap \in Nat
      BY <1>1, <2>1, SmartConstants
    <3>2. streak[n] = 0
      <4>1. streak[n] \in Nat /\ (streak[n] > 0 => Len(hist[n]) > 0)
        BY <1>1, SmartConstants DEF NodeOK
      <4> QED
        BY <3>1, <4>1
    <3>3. PICK ok \in BOOLEAN : ok = TRUE
      OBVIOUS
    <3>4. hist'[n] = Pushed(hist[n], ok) /\ missed'[n] = 0 /\ streak'[n] = 0
      BY <1>2, <1>3, <2>1, <3>2, <3>3
    <3>5. hist[n] \in Seq(BOOLEAN) /\ Len(hist[n]) <= HistCap
      BY <1>1 DEF NodeOK
    <3>6. hist'[n] \in Seq(BOOLEAN) /\ Len(hist'[n]) <= HistCap
      BY <3>4, <3>5, PushedIs
    <3> QED
      BY <3>4, <3>6 DEF NodeOK
  <2>2. CASE n \notin S
    BY <1>1, <1>2, <1>3, <2>2
  <2> QED
    BY <2>1, <2>2
<1>5. RecordInv'
  <2>1. hist' \in [Nodes -> Seq(BOOLEAN)] /\ missed' \in [Nodes -> 0 .. 2]
    BY <1>3, <1>4
  <2> QED
    BY <1>1, <1>2, <1>4, <2>1 DEF RecordInv
<1>6. pass' \in Passes /\ StepInv' /\ gap' \in 1 .. MaxGap
  <2>1. CASE S = {} /\ pass' = [pass EXCEPT !.rung = @ + 1] /\ UNCHANGED gap
    <3> DEFINE r == pass.rung + 1
    <3>1. r \in Int /\ pass' = [pass EXCEPT !.rung = r]
      BY <1>1, <2>1
    <3> HIDE DEF r
    <3>2. pass' \in Passes /\ pass'.pc = "ladder" /\ pass'.members = pass.members
      BY <1>1, <3>1 DEF Passes
    <3>3. \A n \in pass.members : hist'[n] = <<>>
      BY <1>1, <1>3, <2>1
    <3> QED
      BY <1>1, <2>1, <3>2, <3>3 DEF StepInv
  <2>2. CASE EndPass(FALSE)
    BY <1>1, <2>2, PassOver DEF StepInv
  <2>3. CASE \E m \in S : pass' = [Goes("first") EXCEPT !.pick = m] /\ UNCHANGED gap
    <3>1. PICK m \in MaybeNode : pass' = [Goes("first") EXCEPT !.pick = m] /\ gap' = gap
      BY <1>1, <1>3, <2>3 DEF MaybeNode
    <3>2. pass' \in Passes /\ pass'.pc = "first"
      BY <1>1, <3>1 DEF Goes, Passes, Places
    <3> QED
      BY <1>1, <3>1, <3>2 DEF StepInv
  <2> QED
    BY <1>3, <2>1, <2>2, <2>3
<1> QED
  BY <1>1, <1>2, <1>5, <1>6, RecordKeeps

\* Every other test.
LEMMA TestedKeep ==
  ASSUME SmartInv, FreshTests \/ AnchorTests \/ AnchorRetests \/ SweepTests \/ ChecksAnchor
  PROVE  SmartInv'
<1>1. /\ RunnerInv /\ RecordInv /\ pass \in Passes /\ pass.members \in SUBSET Nodes /\ gap \in 1 .. MaxGap
      /\ missed \in [Nodes -> 0 .. 2] /\ pass.anchor \in MaybeNode /\ anchor \in MaybeNode
      /\ pass.todo \in Seq(Nodes) /\ MaybeNode = Nodes \cup {None}
  BY DEF SmartInv, RunnerInv, RecordInv, Passes, MaybeNode
<1>2. UNCHANGED <<clash, lock, user, anchor>>
  BY DEF FreshTests, AnchorTests, AnchorRetests, SweepTests, ChecksAnchor
<1>3. ASSUME NEW pc \in Places \ {"ladder", "confirm"}, pass' = Goes(pc)
      PROVE  pass' \in Passes /\ StepInv'
  BY <1>1, <1>3 DEF Goes, Passes, StepInv
<1>4. CASE FreshTests
  <2> DEFINE S == {n \in pass.members : hist[n] = <<>>}
  <2>1. PICK ok \in [S -> BOOLEAN] :
          /\ Observes(S, ok, 1)
          /\ missed' = [n \in Nodes |-> IF n \notin S THEN missed[n]
                                        ELSE IF ok[n] THEN 0 ELSE IF missed[n] = 0 THEN 1 ELSE 2]
    BY <1>4 DEF FreshTests
  <2>2. pass' = Goes("reselect") /\ gap' = gap
    BY <1>4 DEF FreshTests
  <2>3. S \in SUBSET Nodes
    BY <1>1
  <2> HIDE DEF S
  <2>4. missed' \in [Nodes -> 0 .. 2] /\ \A n \in Nodes \ S : missed'[n] = missed[n]
    BY <1>1, <2>1
  <2>5. \A n \in S : ~ok[n] => missed'[n] = 2 \/ (1 = 1 /\ missed[n] = 0 /\ missed'[n] = 1)
    BY <2>1, <2>3
  <2>6. RecordInv'
    BY <1>1, <2>1, <2>3, <2>4, <2>5, ObservesKeeps
  <2>7. pass' \in Passes /\ StepInv'
    BY <1>3, <2>2 DEF Places
  <2> QED
    BY <1>1, <1>2, <2>2, <2>6, <2>7, RecordKeeps
<1>5. CASE AnchorTests
  <2>0. gap' = gap
    BY <1>5 DEF AnchorTests
  <2>1. CASE pass' = Goes("judge") /\ UNCHANGED <<hist, streak, backed, missed>>
    <3>1. pass' \in Passes /\ StepInv'
      BY <1>3, <2>1 DEF Places
    <3> QED
      BY <1>1, <1>2, <2>0, <2>1, <3>1, RecordFrame, RecordKeeps
  <2>2. ASSUME pass.anchor \in pass.members, NEW ok \in BOOLEAN, Tests(pass.anchor, ok),
               Observe(pass.anchor, ok, 1), pass' = Goes("judge")
        PROVE  SmartInv'
    <3>1. pass' \in Passes /\ StepInv'
      BY <1>3, <2>2 DEF Places
    <3>2. RecordInv'
      BY <1>1, <2>2, ObserveKeeps
    <3> QED
      BY <1>1, <1>2, <2>0, <3>1, <3>2, RecordKeeps
  <2>3. ASSUME pass.anchor \in pass.members, Tests(pass.anchor, FALSE), UNCHANGED <<hist, streak, backed>>,
               pass' = Goes("confirm")
        PROVE  SmartInv'
    <3>1. RecordInv' /\ missed'[pass.anchor] > 0
      BY <1>1, <2>3, TestKeeps
    <3>2. pass' \in Passes /\ pass'.pc = "confirm" /\ pass'.anchor = pass.anchor
      BY <1>1, <2>3 DEF Goes, Passes, Places
    <3>3. StepInv'
      BY <1>1, <2>3, <3>1, <3>2 DEF StepInv
    <3> QED
      BY <1>1, <1>2, <2>0, <3>1, <3>2, <3>3, RecordKeeps
  <2> QED
    BY <1>5, <2>1, <2>2, <2>3 DEF AnchorTests
<1>6. CASE AnchorRetests
  <2>1. /\ pass.anchor \in Nodes /\ missed[pass.anchor] > 0 /\ pass' = Goes("judge") /\ gap' = gap
        /\ \E ok \in BOOLEAN : Tests(pass.anchor, ok) /\ Observe(pass.anchor, ok, IF ok THEN 1 ELSE 2)
    BY <1>6 DEF AnchorRetests, SmartInv, StepInv
  <2>2. RecordInv'
    <3>1. PICK ok \in BOOLEAN : Tests(pass.anchor, ok) /\ Observe(pass.anchor, ok, IF ok THEN 1 ELSE 2)
      BY <2>1
    <3>2. PICK times \in {1, 2} : Observe(pass.anchor, ok, times)
      BY <3>1
    <3> QED
      BY <1>1, <2>1, <3>1, <3>2, ObserveKeeps
  <2>3. pass' \in Passes /\ StepInv'
    BY <1>3, <2>1 DEF Places
  <2> QED
    BY <1>1, <1>2, <2>1, <2>2, <2>3, RecordKeeps
<1>7. CASE SweepTests
  <2> DEFINE n == Head(pass.todo)
  <2>1. /\ pass.todo # <<>> /\ gap' = gap
        /\ \E ok \in BOOLEAN : Tests(n, ok) /\ Observe(n, ok, 1)
        /\ pass' = [Goes("compare") EXCEPT !.pick = n, !.todo = Tail(pass.todo)]
    BY <1>1, <1>7 DEF SweepTests, Goes, Passes
  <2>2. n \in Nodes /\ n \in MaybeNode /\ Tail(pass.todo) \in Seq(Nodes)
    BY <1>1, <2>1
  <2> HIDE DEF n
  <2>3. RecordInv'
    BY <1>1, <2>1, <2>2, ObserveKeeps
  <2>4. pass' \in Passes /\ pass'.pc = "compare"
    BY <1>1, <2>1, <2>2 DEF Goes, Passes, Places
  <2>5. StepInv'
    BY <2>4 DEF StepInv
  <2> QED
    BY <1>1, <1>2, <2>1, <2>3, <2>4, <2>5, RecordKeeps
<1>8. CASE ChecksAnchor
  <2> DEFINE target == IF lock # None /\ anchor # lock THEN None ELSE anchor
  <2>1. CASE pass' = Goes("wait") /\ UNCHANGED <<hist, streak, backed, gap, missed>>
    <3>1. pass' \in Passes /\ StepInv'
      BY <1>3, <2>1 DEF Places
    <3> QED
      BY <1>1, <1>2, <2>1, <3>1, RecordFrame, RecordKeeps
  <2>2. ASSUME target # None, NEW ok \in BOOLEAN, Tests(target, ok), ok, Observe(target, TRUE, 1),
               pass' = Goes("wait"), gap' = gap
        PROVE  SmartInv'
    <3>1. pass' \in Passes /\ StepInv'
      BY <1>3, <2>2 DEF Places
    <3>2. target \in Nodes /\ Tests(target, TRUE)
      BY <1>1, <2>2
    <3>3. RecordInv'
      <4> HIDE DEF target
      <4>1. PICK yes \in BOOLEAN : yes = TRUE
        OBVIOUS
      <4>2. Tests(target, yes) /\ Observe(target, yes, 1)
        BY <2>2, <3>2, <4>1, Zenon
      <4> QED
        BY <1>1, <3>2, <4>2, ObserveKeeps
    <3> QED
      BY <1>1, <1>2, <2>2, <3>1, <3>3, RecordKeeps
  <2>3. ASSUME target # None, Tests(target, FALSE), PassFails, UNCHANGED <<hist, streak, backed>>
        PROVE  SmartInv'
    <3>1. target \in Nodes
      BY <1>1, <2>3
    <3>2. RecordInv'
      BY <1>1, <2>3, <3>1, TestKeeps
    <3>3. pass' \in Passes /\ pass'.pc \in {"wait", "fetch"} /\ gap' \in 1 .. MaxGap
      BY <1>1, <2>3, PassOver
    <3>4. StepInv'
      BY <3>3 DEF StepInv
    <3> QED
      BY <1>1, <1>2, <3>2, <3>3, <3>4, RecordKeeps
  <2> HIDE DEF target
  <2>4. \/ pass' = Goes("wait") /\ UNCHANGED <<hist, streak, backed, gap, missed>>
        \/ target # None /\ \E ok \in BOOLEAN :
             /\ Tests(target, ok)
             /\ \/ ok /\ Observe(target, TRUE, 1) /\ pass' = Goes("wait") /\ UNCHANGED gap
                \/ ~ok /\ PassFails /\ UNCHANGED <<hist, streak, backed>>
    BY <1>8 DEF ChecksAnchor, target
  <2> QED
    BY <2>1, <2>2, <2>3, <2>4
<1> QED
  BY <1>4, <1>5, <1>6, <1>7, <1>8

\* The invariant is what FailuresHonest says, and more.
LEMMA SmartInvIsHonest == SmartInv => FailuresHonest
<1> SUFFICES ASSUME SmartInv
             PROVE  FailuresHonest
  OBVIOUS
<1>1. SmartTypeOK
  BY DEF SmartInv, OutsideInv, RunnerInv, RecordInv, NodeOK, SmartTypeOK, Passes
<1>2. StreakRecorded
  <2> SUFFICES ASSUME NEW n \in Nodes, streak[n] > 0
               PROVE  hist[n] # <<>> /\ ~Last(hist[n])
    BY DEF StreakRecorded
  <2> QED
    BY DEF SmartInv, RecordInv, NodeOK, Last
<1>3. FailoverConfirmed
  <2> SUFFICES ASSUME ConfirmedDown(pass.cur)
               PROVE  missed[pass.cur] = 2
    BY DEF FailoverConfirmed
  <2>1. pass.cur \in Nodes /\ streak[pass.cur] >= 2
    BY DEF ConfirmedDown, SmartInv, RunnerInv, Passes, MaybeNode
  <2>2. streak[pass.cur] \in Nat
    BY <2>1, SmartConstants DEF SmartInv, RecordInv
  <2> QED
    BY <2>1, <2>2 DEF SmartInv, RecordInv, NodeOK
<1> QED
  BY <1>1, <1>2, <1>3 DEF FailuresHonest

\* A node is given up only on failures that happened, whatever mix of sweeps, ladders,
\* seeds and checks of the anchor wrote them down.
THEOREM GroupFailuresHonest == SmartSpec => []FailuresHonest
<1>1. SmartInit => SmartInv
  <2> SUFFICES ASSUME SmartInit
               PROVE  SmartInv
    OBVIOUS
  <2>1. OutsideInv
    BY DEF SmartInit, OutsideInv, MaybeNode
  <2>2. RunnerInv /\ pass.pc = "fetch"
    BY WaitingIs, SmartConstants DEF SmartInit, RunnerInv, MaybeNode
  <2>3. RecordInv
    <3>1. /\ hist \in [Nodes -> Seq(BOOLEAN)] /\ streak \in [Nodes -> 0 .. BackoffAfter]
          /\ backed \in [Nodes -> BOOLEAN] /\ missed \in [Nodes -> 0 .. 2]
      BY SmartConstants DEF SmartInit
    <3>2. \A n \in Nodes : NodeOK(hist[n], streak[n], missed[n])
      BY SmartConstants DEF SmartInit, NodeOK
    <3> QED
      BY <3>1, <3>2 DEF RecordInv
  <2> QED
    BY <2>1, <2>2, <2>3 DEF SmartInv, StepInv
<1>2. SmartInv /\ [SmartNext]_smartVars => SmartInv'
  <2> SUFFICES ASSUME SmartInv, [SmartNext]_smartVars
               PROVE  SmartInv'
    OBVIOUS
  <2>1. CASE UNCHANGED smartVars
    BY <2>1 DEF smartVars, clash, gs, SmartInv, OutsideInv, RunnerInv, RecordInv, StepInv
  <2> QED
    BY <2>1, OthersKeep, PassQuietly, SeedsKeep, LadderKeeps, TestedKeep DEF SmartNext, RunnerStep
<1> QED
  BY <1>1, <1>2, SmartInvIsHonest, PTL DEF SmartSpec

-----------------------------------------------------------------------------
(***************************************************************************)
(* Subscriptions (PpSub).  The groups that can be emitted are a least      *)
(* fixed point, which grows with the subscriptions there are.  A           *)
(* configuration continues a run, and has all the subscriptions that this  *)
(* run had; its rules are those of the run that made them, and name groups *)
(* that the subscriptions of that run allow.  Both go with whatever is     *)
(* read, written back or built anew, so it does not matter who overtakes   *)
(* whom.                                                                   *)
(***************************************************************************)
SubsIn(c) == {n.sub : n \in c.nodes}
Fresh == [g \in SUBSET GroupsOf |-> ProcessRules(g)]
Reused(prev) == [g \in SUBSET GroupsOf |-> prev.rules]

\* The targets of rules that were made for the subscriptions ok.
ServerNodes(ok) == {[sub |-> s, of |-> s, at |-> "server"] : s \in ok}
Allowed(ok) == ProxyGroups(ServerNodes(ok), ok) \cup BuiltinTargets

\* Payloads that come from the cache files of their subscriptions.
FromFiles(held) == \A x \in DOMAIN held : held[x] \in Subs /\ CachePath[held[x]] = CachePath[x]

\* A configuration with all the groups its subscriptions allow; h says what each run had.
ConfOK(c, h) ==
  /\ c \in SubConfs
  /\ c.groups = ProxyGroups(c.nodes, SubsIn(c))
  /\ \A n \in c.nodes : CachePath[n.of] = CachePath[n.sub]
  /\ c.run \in DOMAIN h /\ c.by \in DOMAIN h
  /\ h[c.run] \subseteq SubsIn(c)
  /\ \A r \in c.rules : RuleTarget[r] \in Allowed(h[c.by])

MaybeOK(c, h) == c = Absent \/ ConfOK(c, h)

Gots == UNION {[S -> SUBSET Lookups] : S \in SUBSET Subs}
Helds == UNION {[S -> Subs] : S \in SUBSET Subs}
MaybeConfs == SubConfs \cup {Absent}
RetryStates == [hash : MaybeConfs, n : Nat, ok : SUBSET Subs, got : Gots, socks : BOOLEAN, formats : BOOLEAN]

\* A retry state knows all the subscriptions its run had.
StateOK(s, h) == /\ s \in RetryStates /\ s.got \in [s.ok -> SUBSET Lookups]
                 /\ s.n \in DOMAIN h /\ h[s.n] \subseteq s.ok

RunPlaces == {"idle", "down", "emit", "save", "detect", "predetect", "prefetch", "copy"}
RunRecs == [at : RunPlaces, n : Nat, ok : SUBSET Subs, got : Gots, socks : BOOLEAN, read : MaybeConfs]

\* What a run knows of itself.
RunOK(r, h) ==
  /\ r \in RunRecs /\ MaybeOK(r.read, h)
  /\ r.at = "down" => r.n \notin DOMAIN h
  /\ r.at \notin {"idle", "down"} => r.n \in DOMAIN h /\ h[r.n] = r.ok /\ r.got \in [r.ok -> SUBSET Lookups]

HasState == LockPlaces \cup {"wait", "formats", "backfill", "subs", "check", "rebuild", "combine", "saving"}
FillPlaces == HasState \cup {"none", "load", "ended"}
FillRecs == [at : FillPlaces, s : RetryStates \cup {Absent}, read : MaybeConfs, prev : MaybeConfs,
             ok : Helds \cup {Absent}, fixed : BOOLEAN, rebuild : BOOLEAN]

\* What a gap-fill works with.
FillOK(r, h) ==
  /\ r \in FillRecs /\ MaybeOK(r.read, h) /\ MaybeOK(r.prev, h)
  /\ r.at \in HasState => StateOK(r.s, h)
  /\ r.at \in {"check", "rebuild"} => r.ok \in [r.s.ok -> Subs] /\ FromFiles(r.ok)
  /\ r.at = "rebuild" => r.prev # Absent

FilesOK == /\ MaybeOK(out, had) /\ MaybeOK(merged, had)
           /\ st = Absent \/ StateOK(st, had)
           /\ \A p \in DOMAIN cache : cache[p] \in Subs /\ CachePath[cache[p]] = p

CoreOK == /\ core \in [up : BOOLEAN, healthy : BOOLEAN, cfg : MaybeConfs]
          /\ MaybeOK(core.cfg, had)

HadOK == /\ runs \in Nat /\ \A n \in DOMAIN had : n \in Nat /\ n <= runs /\ had[n] \subseteq Subs
         /\ run.at # "idle" => run.n = runs
         /\ run.at \in {"detect", "predetect", "prefetch"} => StateOK(st, had)

PsInv == /\ FilesOK /\ CoreOK /\ HadOK /\ RunOK(run, had)
         /\ fill \in [Fillers -> FillRecs] /\ \A f \in Fillers : FillOK(fill[f], had)

\* The least fixed point is one: it is closed, and each of its groups is valid in it.
LEMMA GroupsFixed ==
  ASSUME NEW nodes, NEW ok, NEW G, G = ProxyGroups(nodes, ok)
  PROVE  /\ G \subseteq GroupsOf
         /\ \A g \in GroupsOf : SubDependencies(g, ok) /\ ValidStep(G, g, nodes) => g \in G
         /\ \A g \in G : SubDependencies(g, ok) /\ ValidStep(G, g, nodes)
<1> DEFINE potential == {g \in GroupsOf : SubDependencies(g, ok)}
           Closed(V) == \A g \in potential : ValidStep(V, g, nodes) => g \in V
<1>1. G = {g \in potential : \A V \in SUBSET potential : Closed(V) => g \in V}
  BY DEF ProxyGroups
<1>2. \A V, W : V \subseteq W => \A g : ValidStep(V, g, nodes) => ValidStep(W, g, nodes)
  BY DEF ValidStep
<1>3. Closed(G)
  <2> SUFFICES ASSUME NEW g \in potential, ValidStep(G, g, nodes), NEW V \in SUBSET potential, Closed(V)
               PROVE  g \in V
    BY <1>1
  <2>1. G \subseteq V
    BY <1>1
  <2> QED
    BY <1>2, <2>1
<1> DEFINE H == {g \in G : ValidStep(G, g, nodes)}
<1>4. H \in SUBSET potential /\ G \subseteq potential
  BY <1>1
<1>5. Closed(H)
  <2> SUFFICES ASSUME NEW g \in potential, ValidStep(H, g, nodes)
               PROVE  g \in H
    OBVIOUS
  <2>1. ValidStep(G, g, nodes)
    BY <1>2
  <2> QED
    BY <1>3, <2>1
<1>6. G \subseteq H
  <2> HIDE DEF H
  <2> QED
    BY <1>1, <1>4, <1>5
<1> QED
  BY <1>3, <1>4, <1>6

\* With more subscriptions there are more groups.
LEMMA GroupsGrow ==
  ASSUME NEW nodes, NEW nodes2, NEW ok, NEW ok2, ok \subseteq ok2,
         {n.sub : n \in nodes} \subseteq {n.sub : n \in nodes2}
  PROVE  ProxyGroups(nodes, ok) \subseteq ProxyGroups(nodes2, ok2)
<1> DEFINE G == ProxyGroups(nodes, ok)  H == ProxyGroups(nodes2, ok2)
           potential == {g \in GroupsOf : SubDependencies(g, ok)}
           Closed(V) == \A g \in potential : ValidStep(V, g, nodes) => g \in V
           V0 == H \cap potential
<1>1. G = {g \in potential : \A V \in SUBSET potential : Closed(V) => g \in V}
  BY DEF ProxyGroups
<1>2. \A g : FilteredNodes(g, nodes) # {} => FilteredNodes(g, nodes2) # {}
  <2> SUFFICES ASSUME NEW g, NEW n \in FilteredNodes(g, nodes)
               PROVE  FilteredNodes(g, nodes2) # {}
    OBVIOUS
  <2>1. n \in nodes /\ (NodeGroups[g].subs = {} \/ n.sub \in NodeGroups[g].subs)
    BY DEF FilteredNodes
  <2>2. PICK m \in nodes2 : m.sub = n.sub
    BY <2>1
  <2> QED
    BY <2>1, <2>2 DEF FilteredNodes
<1>3. \A g : ValidStep(V0, g, nodes) => ValidStep(H, g, nodes2)
  BY <1>2 DEF ValidStep
<1>4. \A g : SubDependencies(g, ok) => SubDependencies(g, ok2)
  BY DEF SubDependencies
<1>5. Closed(V0)
  <2>1. \A g \in GroupsOf : SubDependencies(g, ok2) /\ ValidStep(H, g, nodes2) => g \in H
    BY GroupsFixed
  <2> QED
    BY <1>3, <1>4, <2>1
<1>6. V0 \in SUBSET potential
  OBVIOUS
<1>7. G \subseteq V0
  <2> HIDE DEF V0
  <2> QED
    BY <1>1, <1>5, <1>6
<1> QED
  BY <1>7

LEMMA ServersOf ==
  ASSUME NEW ok
  PROVE  {n.sub : n \in ServerNodes(ok)} = ok
<1> DEFINE server(s) == [sub |-> s, of |-> s, at |-> "server"]
<1>1. ServerNodes(ok) = {server(s) : s \in ok} /\ \A s : server(s).sub = s
  BY DEF ServerNodes
<1> HIDE DEF server
<1>2. \A s \in ok : server(s) \in ServerNodes(ok)
  BY <1>1
<1> QED
  BY <1>1, <1>2

\* Every group of such a configuration offers something, and rules that were made for the
\* run it continues name groups it has.
LEMMA GroupsOffer ==
  ASSUME NEW c, NEW h, ConfOK(c, h)
  PROVE  /\ \A g \in c.groups : Members(g, c.groups, c.nodes) # {}
         /\ c.by = c.run => \A r \in c.rules : RuleTarget[r] \in c.groups \cup BuiltinTargets
<1>1. \A g \in c.groups : ValidStep(c.groups, g, c.nodes)
  BY GroupsFixed DEF ConfOK
<1>2. \A g \in c.groups : Members(g, c.groups, c.nodes) # {}
  BY <1>1 DEF ValidStep, Members
<1>3. Allowed(h[c.run]) \subseteq c.groups \cup BuiltinTargets
  <2> DEFINE S == h[c.run]
  <2>1. {n.sub : n \in ServerNodes(S)} = S
    BY ServersOf
  <2>2. S \subseteq SubsIn(c) /\ c.groups = ProxyGroups(c.nodes, SubsIn(c))
    BY DEF ConfOK
  <2>3. ProxyGroups(ServerNodes(S), S) \subseteq ProxyGroups(c.nodes, SubsIn(c))
    <3>1. {n.sub : n \in ServerNodes(S)} \subseteq {n.sub : n \in c.nodes}
      BY <2>1, <2>2 DEF SubsIn
    <3> HIDE DEF S
    <3> QED
      BY <2>2, <3>1, GroupsGrow
  <2> QED
    BY <2>2, <2>3 DEF Allowed
<1> QED
  BY <1>2, <1>3 DEF ConfOK

\* The nodes are those of the downloaded subscriptions, from their payloads.
LEMMA BuiltNodes ==
  ASSUME NEW ok \in SUBSET Subs, NEW got \in [ok -> SUBSET Lookups], NEW held \in [ok -> Subs], FromFiles(held),
         NEW nodes, nodes = BuildProxies(held, got)
  PROVE  /\ nodes \subseteq SubNodes /\ \A n \in nodes : CachePath[n.of] = CachePath[n.sub]
         /\ {n.sub : n \in nodes} = ok
<1>1. \A n \in nodes : n \in SubNodes /\ CachePath[n.of] = CachePath[n.sub] /\ n.sub \in ok
  <2> SUFFICES ASSUME NEW n \in nodes
               PROVE  n \in SubNodes /\ CachePath[n.of] = CachePath[n.sub] /\ n.sub \in ok
    OBVIOUS
  <2>1. PICK s \in ok : n \in {[sub |-> s, of |-> held[s], at |-> j] : j \in got[s] \cup {"server"}}
    BY DEF BuildProxies
  <2>2. PICK j \in got[s] \cup {"server"} : n = [sub |-> s, of |-> held[s], at |-> j]
    BY <2>1
  <2>3. j \in Lookups \cup {"server"} /\ s \in Subs /\ held[s] \in Subs /\ CachePath[held[s]] = CachePath[s]
    BY <2>1, <2>2 DEF FromFiles
  <2> QED
    BY <2>2, <2>3 DEF SubNodes
<1>2. \A s \in ok : \E n \in nodes : n.sub = s
  <2> SUFFICES ASSUME NEW s \in ok
               PROVE  \E n \in nodes : n.sub = s
    OBVIOUS
  <2> DEFINE piece(t) == {[sub |-> t, of |-> held[t], at |-> j] : j \in got[t] \cup {"server"}}
             n0 == [sub |-> s, of |-> held[s], at |-> "server"]
  <2>1. nodes = UNION {piece(t) : t \in ok} /\ n0 \in piece(s) /\ n0.sub = s
    BY DEF BuildProxies
  <2> HIDE DEF piece, n0
  <2> QED
    BY <2>1
<1> QED
  BY <1>1, <1>2

\* What emit_config makes for the run k of the subscriptions ok, with rules made by the
\* run b for the subscriptions that b had.
LEMMA EmittedOK ==
  ASSUME NEW h, NEW k \in Nat, NEW b \in Nat, k \in DOMAIN h, b \in DOMAIN h,
         NEW ok \in SUBSET Subs, NEW got \in [ok -> SUBSET Lookups], NEW held \in [ok -> Subs], FromFiles(held),
         h[k] \subseteq ok,
         NEW rulesOf \in [SUBSET GroupsOf -> SUBSET DOMAIN RuleTarget], NEW fmt \in {"guess", "known"},
         \A G : G = ProxyGroups(BuildProxies(held, got), ok) => \A r \in rulesOf[G] : RuleTarget[r] \in Allowed(h[b])
  PROVE  ConfOK(EmitConfig(k, b, held, got, rulesOf, fmt), h)
<1> DEFINE nodes == BuildProxies(held, got)
           G == ProxyGroups(nodes, ok)
           c == EmitConfig(k, b, held, got, rulesOf, fmt)
<1>1. c = [run |-> k, by |-> b, nodes |-> nodes, groups |-> G, rules |-> rulesOf[G], format |-> fmt]
  BY DEF EmitConfig
<1>2. nodes \subseteq SubNodes /\ (\A n \in nodes : CachePath[n.of] = CachePath[n.sub]) /\ {n.sub : n \in nodes} = ok
  BY BuiltNodes
<1>3. G \in SUBSET GroupsOf /\ rulesOf[G] \in SUBSET DOMAIN RuleTarget
  BY GroupsFixed
<1>4. G = ProxyGroups(nodes, ok) /\ \A r \in rulesOf[G] : RuleTarget[r] \in Allowed(h[b])
  OBVIOUS
<1> HIDE DEF nodes, G, c
<1>5. c \in SubConfs /\ c.nodes = nodes /\ c.groups = G /\ c.rules = rulesOf[G] /\ c.run = k /\ c.by = b
  BY <1>1, <1>2, <1>3 DEF SubConfs
<1>6. SubsIn(c) = ok
  BY <1>2, <1>5 DEF SubsIn
<1>7. ConfOK(c, h)
  BY <1>2, <1>4, <1>5, <1>6 DEF ConfOK
<1> QED
  BY <1>7 DEF c

\* What a run writes at first: its rules are for the groups that its subscriptions allow.
LEMMA WrittenOK ==
  ASSUME NEW h, NEW k \in Nat, k \in DOMAIN h, NEW ok \in SUBSET Subs, h[k] = ok,
         NEW got \in [ok -> SUBSET Lookups], NEW held, held = [x \in ok |-> x]
  PROVE  ConfOK(EmitConfig(k, k, held, got, Fresh, "guess"), h)
<1>1. held \in [ok -> Subs] /\ FromFiles(held)
  BY DEF FromFiles
<1>2. Fresh \in [SUBSET GroupsOf -> SUBSET DOMAIN RuleTarget]
  BY DEF Fresh, ProcessRules
<1>3. ASSUME NEW G, G = ProxyGroups(BuildProxies(held, got), ok)
      PROVE  \A r \in Fresh[G] : RuleTarget[r] \in Allowed(h[k])
  <2> DEFINE nodes == BuildProxies(held, got)
  <2>1. {n.sub : n \in nodes} = ok /\ {n.sub : n \in ServerNodes(ok)} = ok
    BY <1>1, BuiltNodes, ServersOf
  <2>2. G = ProxyGroups(nodes, ok)
    BY <1>3
  <2> HIDE DEF nodes
  <2>3. G \subseteq ProxyGroups(ServerNodes(ok), ok)
    BY <2>1, <2>2, GroupsGrow
  <2>4. G \in SUBSET GroupsOf
    BY <2>2, GroupsFixed
  <2> QED
    BY <2>3, <2>4 DEF Fresh, ProcessRules, Allowed
<1> QED
  BY <1>1, <1>2, <1>3, EmittedOK

\* What a gap-fill writes for the run k with the rules it found in prev.
LEMMA RebuiltOK ==
  ASSUME NEW h, NEW k \in Nat, k \in DOMAIN h, NEW ok \in SUBSET Subs, h[k] \subseteq ok,
         NEW got \in [ok -> SUBSET Lookups], NEW held \in [ok -> Subs], FromFiles(held),
         NEW prev, ConfOK(prev, h)
  PROVE  ConfOK(EmitConfig(k, prev.by, held, got, Reused(prev), prev.format), h)
<1>1. /\ prev.by \in Nat /\ prev.by \in DOMAIN h /\ prev.format \in {"guess", "known"}
      /\ prev.rules \subseteq DOMAIN RuleTarget /\ \A r \in prev.rules : RuleTarget[r] \in Allowed(h[prev.by])
  BY DEF ConfOK, SubConfs
<1>2. Reused(prev) \in [SUBSET GroupsOf -> SUBSET DOMAIN RuleTarget]
  BY <1>1 DEF Reused
<1>3. ASSUME NEW G, G = ProxyGroups(BuildProxies(held, got), ok)
      PROVE  \A r \in Reused(prev)[G] : RuleTarget[r] \in Allowed(h[prev.by])
  <2>1. G \in SUBSET GroupsOf
    BY <1>3, GroupsFixed
  <2> QED
    BY <1>1, <2>1 DEF Reused
<1> QED
  BY <1>1, <1>2, <1>3, EmittedOK

\* Detected formats change nothing else.
LEMMA BackfillOK ==
  ASSUME NEW h, NEW c, ConfOK(c, h)
  PROVE  ConfOK(BackfillFormats(c), h)
<1> DEFINE d == BackfillFormats(c)
<1>1. c \in SubConfs
  BY DEF ConfOK
<1>2. /\ d \in SubConfs /\ d.run = c.run /\ d.by = c.by
      /\ d.nodes = c.nodes /\ d.groups = c.groups /\ d.rules = c.rules
  BY <1>1 DEF BackfillFormats, SubConfs
<1> HIDE DEF d
<1>3. ConfOK(d, h)
  BY <1>2 DEF ConfOK, SubsIn
<1> QED
  BY <1>3 DEF d

\* What another run gets does not matter.
LEMMA StaysOK ==
  ASSUME NEW h, NEW h2, \A n \in DOMAIN h : n \in DOMAIN h2 /\ h2[n] = h[n]
  PROVE  /\ \A c : MaybeOK(c, h) => MaybeOK(c, h2)
         /\ \A s : StateOK(s, h) => StateOK(s, h2)
         /\ \A r : FillOK(r, h) => FillOK(r, h2)
<1>1. \A c : MaybeOK(c, h) => MaybeOK(c, h2)
  BY DEF MaybeOK, ConfOK
<1>2. \A s : StateOK(s, h) => StateOK(s, h2)
  BY DEF StateOK
<1> QED
  BY <1>1, <1>2 DEF FillOK

-----------------------------------------------------------------------------
LEMMA IdleRunOK ==
  ASSUME NEW h
  PROVE  RunOK(IdleRun, h) /\ IdleRun.at = "idle" /\ IdleRun \in RunRecs /\ IdleRun.read = Absent
<1> DEFINE e == [s \in {} |-> {}]
<1>1. e \in [{} -> SUBSET Lookups]
  OBVIOUS
<1>2. [{} -> SUBSET Lookups] \in {[S -> SUBSET Lookups] : S \in SUBSET Subs}
  OBVIOUS
<1> HIDE DEF e
<1>3. e \in Gots
  BY <1>1, <1>2 DEF Gots
<1>4. IdleRun = [at |-> "idle", n |-> 0, ok |-> {}, got |-> e, socks |-> FALSE, read |-> Absent]
  BY DEF IdleRun, e
<1>5. IdleRun \in RunRecs /\ IdleRun.at = "idle" /\ IdleRun.read = Absent
  BY <1>3, <1>4 DEF RunRecs, RunPlaces, MaybeConfs
<1> QED
  BY <1>5 DEF RunOK, MaybeOK

\* A gap-fill that has not started, or has ended, works with nothing.
LEMMA RestingOK ==
  ASSUME NEW h, NEW to \in {"none", "load", "ended"}
  PROVE  FillOK([NotStarted EXCEPT !.at = to], h) /\ FillOK(NotStarted, h)
<1> DEFINE r == [NotStarted EXCEPT !.at = to]
<1>1. /\ NotStarted \in FillRecs /\ NotStarted.at = "none"
      /\ NotStarted.read = Absent /\ NotStarted.prev = Absent
  BY DEF NotStarted, FillRecs, FillPlaces, MaybeConfs
<1>2. r \in FillRecs /\ r.at = to /\ r.read = Absent /\ r.prev = Absent
  <2> HIDE DEF NotStarted
  <2> QED
    BY <1>1 DEF FillRecs, FillPlaces
<1> HIDE DEF r
<1>3. FillOK(r, h) /\ FillOK(NotStarted, h)
  <2> HIDE DEF NotStarted
  <2> QED
    BY <1>1, <1>2 DEF FillOK, MaybeOK, HasState, LockPlaces
<1> QED
  BY <1>3 DEF r

\* A gap-fill that has its state goes from place to place.
LEMMA MovesOK ==
  ASSUME NEW h, NEW r, FillOK(r, h), r.at \in HasState, NEW to \in HasState \ {"check", "rebuild"}
  PROVE  FillOK([r EXCEPT !.at = to], h)
<1>1. r \in FillRecs
  BY DEF FillOK
<1>2. /\ [r EXCEPT !.at = to] \in FillRecs /\ [r EXCEPT !.at = to].at = to
      /\ [r EXCEPT !.at = to].s = r.s /\ [r EXCEPT !.at = to].read = r.read /\ [r EXCEPT !.at = to].prev = r.prev
  BY <1>1 DEF FillRecs, FillPlaces
<1> QED
  BY <1>2 DEF FillOK

-----------------------------------------------------------------------------
\* At the start nothing is written, and nothing runs.
LEMMA SubsStart == PsInit => PsInv
<1> SUFFICES ASSUME PsInit
             PROVE  PsInv
  OBVIOUS
<1>1. /\ out = Absent /\ st = Absent /\ merged = Absent /\ cache = [s \in {} |-> Absent] /\ runs = 0
      /\ core = [up |-> FALSE, healthy |-> FALSE, cfg |-> Absent] /\ run = IdleRun
      /\ fill = [f \in Fillers |-> NotStarted] /\ had = [n \in {} |-> {}]
  BY DEF PsInit
<1>2. FilesOK /\ CoreOK
  BY <1>1 DEF FilesOK, CoreOK, MaybeOK, MaybeConfs
<1>3. RunOK(run, had) /\ run.at = "idle"
  BY <1>1, IdleRunOK
<1>4. HadOK
  BY <1>1, <1>3 DEF HadOK
<1>5. FillOK(NotStarted, had)
  BY RestingOK
<1>6. fill \in [Fillers -> FillRecs] /\ \A f \in Fillers : FillOK(fill[f], had)
  BY <1>1, <1>5 DEF FillOK
<1> QED
  BY <1>2, <1>3, <1>4, <1>6 DEF PsInv

\* A step of the gap-fill f that leaves it with something it can work with, and the files
\* and clash with something that makes sense.
LEMMA FillKeeps ==
  ASSUME PsInv, NEW f \in Fillers, NEW new, FillOK(new, had), fill' = [fill EXCEPT ![f] = new],
         FilesOK', CoreOK', StateOK(st, had) => StateOK(st', had), UNCHANGED <<run, runs, had>>
  PROVE  PsInv'
<1>1. \A g \in Fillers : FillOK(fill[g], had)'
  BY DEF PsInv
<1>2. fill' \in [Fillers -> FillRecs]
  BY DEF PsInv, FillOK
<1>3. HadOK' /\ RunOK(run, had)'
  BY DEF PsInv, HadOK
<1> QED
  BY <1>1, <1>2, <1>3 DEF PsInv

\* A step of the run or of clash that starts no gap-fill.
LEMMA FillsStay ==
  ASSUME PsInv, UNCHANGED fill, \A n \in DOMAIN had : n \in DOMAIN had' /\ had'[n] = had[n],
         FilesOK', CoreOK', HadOK', RunOK(run, had)'
  PROVE  PsInv'
<1>1. \A r : FillOK(r, had) => FillOK(r, had')
  BY StaysOK
<1> QED
  BY <1>1 DEF PsInv

LEMMA GetSubKeeps == PsInv /\ GetSub => PsInv'
<1> SUFFICES ASSUME PsInv, GetSub
             PROVE  PsInv'
  OBVIOUS
<1>1. /\ runs' = runs + 1 /\ out' = Absent /\ run' = [IdleRun EXCEPT !.at = "down", !.n = runs + 1]
      /\ UNCHANGED <<st, cache, merged, core, fill, had>>
  BY DEF GetSub
<1>2. runs \in Nat /\ \A n \in DOMAIN had : n \in Nat /\ n <= runs
  BY DEF PsInv, HadOK
<1>3. run' \in RunRecs /\ run'.at = "down" /\ run'.n = runs + 1 /\ run'.read = Absent
  <2> DEFINE i == IdleRun
  <2>1. i \in RunRecs /\ i.read = Absent
    BY IdleRunOK
  <2> HIDE DEF i
  <2> DEFINE begun(k) == [i EXCEPT !.at = "down", !.n = k]
  <2>2. \A k \in Nat : begun(k) \in RunRecs /\ begun(k).at = "down" /\ begun(k).n = k /\ begun(k).read = Absent
    BY <2>1 DEF RunRecs, RunPlaces
  <2>3. run' = begun(runs + 1) /\ runs + 1 \in Nat
    BY <1>1, <1>2 DEF i
  <2> HIDE DEF begun
  <2> QED
    BY <2>2, <2>3
<1>4. runs + 1 \notin DOMAIN had
  BY <1>2
<1>5. RunOK(run, had)' /\ HadOK'
  BY <1>1, <1>2, <1>3, <1>4 DEF PsInv, RunOK, HadOK, MaybeOK
<1>6. FilesOK' /\ CoreOK'
  BY <1>1 DEF PsInv, FilesOK, CoreOK, MaybeOK
<1> QED
  BY <1>1, <1>5, <1>6, FillsStay

\* The process ends, and leaves what it has written.
LEMMA RunEndsKeeps ==
  ASSUME PsInv, run' = IdleRun, UNCHANGED <<out, st, cache, fill, runs, had>>, MaybeOK(merged', had), CoreOK'
  PROVE  PsInv'
<1>1. RunOK(run, had)' /\ run'.at = "idle"
  BY IdleRunOK
<1>2. FilesOK' /\ HadOK'
  BY <1>1 DEF PsInv, FilesOK, HadOK
<1> QED
  BY <1>1, <1>2, FillsStay

LEMMA DownloadSubsKeeps == PsInv /\ DownloadSubs => PsInv'
<1> SUFFICES ASSUME PsInv, DownloadSubs
             PROVE  PsInv'
  OBVIOUS
<1>1. run.at = "down" /\ UNCHANGED <<out, st, cache, merged, core, fill, runs>>
  BY DEF DownloadSubs
<1>2. CASE run' = IdleRun /\ UNCHANGED had
  BY <1>1, <1>2, RunEndsKeeps DEF PsInv, FilesOK, CoreOK
<1>3. CASE ~(run' = IdleRun /\ UNCHANGED had)
  <2> DEFINE ok == Downloaded(Subs)  got == [s \in ok |-> Resolved(Lookups)]
  <2>1. /\ run' = [run EXCEPT !.at = "emit", !.ok = ok, !.socks = core.up, !.got = got]
        /\ had' = [n \in DOMAIN had \cup {run.n} |-> IF n = run.n THEN ok ELSE had[n]]
    BY <1>3 DEF DownloadSubs
  <2>2. ok \in SUBSET Subs /\ Resolved(Lookups) \in SUBSET Lookups
    BY DEF Downloaded, Resolved
  <2> HIDE DEF ok
  <2>3. got \in [ok -> SUBSET Lookups]
    BY <2>2
  <2>4. got \in Gots
    BY <2>2, <2>3 DEF Gots
  <2> HIDE DEF got
  <2>5. run \in RunRecs /\ run.n \notin DOMAIN had /\ run.n = runs /\ core.up \in BOOLEAN
    BY <1>1 DEF PsInv, RunOK, HadOK, CoreOK
  <2>6. run' \in RunRecs /\ run'.at = "emit" /\ run'.n = run.n /\ run'.ok = ok /\ run'.got = got /\ run'.read = run.read
    BY <2>1, <2>2, <2>4, <2>5 DEF RunRecs, RunPlaces
  <2>7. /\ \A n \in DOMAIN had : n \in DOMAIN had' /\ had'[n] = had[n]
        /\ run.n \in DOMAIN had' /\ had'[run.n] = ok /\ DOMAIN had' = DOMAIN had \cup {run.n}
    BY <2>1, <2>5
  <2>8. \A c : MaybeOK(c, had) => MaybeOK(c, had')
    BY <2>7, StaysOK
  <2>9. \A s : StateOK(s, had) => StateOK(s, had')
    BY <2>7, StaysOK
  <2>10. RunOK(run, had)'
    BY <2>3, <2>6, <2>7, <2>8 DEF PsInv, RunOK
  <2>11. HadOK'
    BY <1>1, <2>2, <2>5, <2>6, <2>7, <2>9 DEF PsInv, HadOK
  <2>12. FilesOK' /\ CoreOK'
    BY <1>1, <2>8, <2>9 DEF PsInv, FilesOK, CoreOK
  <2> QED
    BY <1>1, <2>7, <2>10, <2>11, <2>12, FillsStay
<1> QED
  BY <1>2, <1>3

LEMMA RulesFailKeeps == PsInv /\ RulesFail => PsInv'
BY RunEndsKeeps DEF RulesFail, psHistory, PsInv, FilesOK, CoreOK

LEMMA WriteOutputKeeps == PsInv /\ WriteOutput => PsInv'
<1> SUFFICES ASSUME PsInv, WriteOutput
             PROVE  PsInv'
  OBVIOUS
<1> DEFINE held == [s \in run.ok |-> s]
<1>1. /\ run.at = "emit" /\ run' = [run EXCEPT !.at = "save"]
      /\ out' = EmitConfig(run.n, run.n, held, run.got, Fresh, "guess")
      /\ UNCHANGED <<st, cache, merged, core, fill, runs, had>>
  BY DEF WriteOutput, Fresh, psHistory
<1>2. /\ run \in RunRecs /\ run.n \in Nat /\ run.n \in DOMAIN had /\ had[run.n] = run.ok
      /\ run.ok \in SUBSET Subs /\ run.got \in [run.ok -> SUBSET Lookups]
  BY <1>1 DEF PsInv, RunOK, RunRecs
<1>3. ConfOK(out', had)
  BY <1>1, <1>2, WrittenOK
<1>4. RunOK(run, had)' /\ run'.at = "save" /\ run'.n = run.n
  BY <1>1, <1>2 DEF PsInv, RunOK, RunRecs, RunPlaces
<1>5. FilesOK' /\ CoreOK' /\ HadOK'
  BY <1>1, <1>3, <1>4 DEF PsInv, FilesOK, CoreOK, HadOK, MaybeOK
<1> QED
  BY <1>1, <1>4, <1>5, FillsStay

\* Payloads that are put in the cache go to the files of their subscriptions.
LEMMA CachedOK ==
  ASSUME FilesOK, NEW fresh \in SUBSET Subs,
         cache' = [p \in {CachePath[s] : s \in fresh} \cup DOMAIN cache |->
                    IF \E s \in fresh : CachePath[s] = p THEN CHOOSE s \in fresh : CachePath[s] = p ELSE cache[p]]
  PROVE  \A p \in DOMAIN cache' : cache'[p] \in Subs /\ CachePath[cache'[p]] = p
<1> TAKE p \in DOMAIN cache'
<1>1. CASE \E s \in fresh : CachePath[s] = p
  <2> DEFINE c == CHOOSE s \in fresh : CachePath[s] = p
  <2>1. c \in fresh /\ CachePath[c] = p
    BY <1>1
  <2>2. cache'[p] = c
    BY <1>1
  <2> QED
    BY <2>1, <2>2
<1>2. CASE ~\E s \in fresh : CachePath[s] = p
  BY <1>2 DEF FilesOK
<1> QED
  BY <1>1, <1>2

LEMMA SaveRetryKeeps == PsInv /\ SaveRetryState => PsInv'
<1> SUFFICES ASSUME PsInv, SaveRetryState
             PROVE  PsInv'
  OBVIOUS
<1>1. /\ run.at = "save" /\ run' = [run EXCEPT !.at = "detect"]
      /\ st' = [hash |-> out, n |-> run.n, ok |-> run.ok, got |-> run.got, socks |-> run.socks, formats |-> FALSE]
      /\ UNCHANGED <<out, merged, core, fill, runs, had>>
  BY DEF SaveRetryState, psHistory
<1>2. /\ run \in RunRecs /\ run.n \in DOMAIN had /\ had[run.n] = run.ok /\ run.got \in [run.ok -> SUBSET Lookups]
      /\ out \in MaybeConfs
  BY <1>1 DEF PsInv, RunOK, FilesOK, MaybeOK, ConfOK, MaybeConfs
<1>3. StateOK(st', had)
  BY <1>1, <1>2 DEF StateOK, RetryStates, RunRecs
<1>4. \A p \in DOMAIN cache' : cache'[p] \in Subs /\ CachePath[cache'[p]] = p
  <2>1. run.ok \in SUBSET Subs
    BY <1>2 DEF RunRecs
  <2> QED
    BY <2>1, CachedOK DEF SaveRetryState, PsInv
<1>5. RunOK(run, had)' /\ run'.at = "detect" /\ run'.n = run.n
  BY <1>1, <1>2 DEF PsInv, RunOK, RunRecs, RunPlaces
<1>6. FilesOK' /\ CoreOK' /\ HadOK'
  BY <1>1, <1>3, <1>4, <1>5 DEF PsInv, FilesOK, CoreOK, HadOK, MaybeOK
<1> QED
  BY <1>1, <1>5, <1>6, FillsStay

LEMMA DetectKeeps == PsInv /\ DetectFormats => PsInv'
<1> SUFFICES ASSUME PsInv, DetectFormats
             PROVE  PsInv'
  OBVIOUS
<1> DEFINE to == IF core.up THEN "predetect" ELSE "prefetch"
<1>1. /\ run.at = "detect" /\ run' = [run EXCEPT !.at = to, !.read = out]
      /\ UNCHANGED <<out, st, cache, merged, core, fill, runs, had>>
  BY DEF DetectFormats, psHistory
<1>2. run \in RunRecs /\ MaybeOK(out, had) /\ out \in MaybeConfs /\ to \in {"predetect", "prefetch"}
  BY DEF PsInv, RunOK, FilesOK, MaybeOK, ConfOK, MaybeConfs
<1> HIDE DEF to
<1>3. /\ run' \in RunRecs /\ run'.at = to /\ run'.n = run.n /\ run'.ok = run.ok /\ run'.got = run.got
      /\ run'.read = out
  BY <1>1, <1>2 DEF RunRecs, RunPlaces
<1>4. RunOK(run, had)'
  BY <1>1, <1>2, <1>3 DEF PsInv, RunOK
<1>5. FilesOK' /\ CoreOK' /\ HadOK'
  BY <1>1, <1>2, <1>3 DEF PsInv, FilesOK, CoreOK, HadOK
<1> QED
  BY <1>1, <1>4, <1>5, FillsStay

LEMMA BackfilledKeeps == PsInv /\ Backfilled => PsInv'
<1> SUFFICES ASSUME PsInv, Backfilled
             PROVE  PsInv'
  OBVIOUS
<1> DEFINE found == IF run.at = "prefetch" THEN Prefetches(run.read) ELSE Predetects(run.read)
           made == IF found THEN BackfillFormats(run.read) ELSE out
           s == CASE run.at = "prefetch" -> [st EXCEPT !.hash = made, !.formats = ~found]
                  [] run.at # "prefetch" /\ found -> [st EXCEPT !.hash = made]
                  [] OTHER -> st
<1>1. /\ run.at \in {"predetect", "prefetch"} /\ out' = made /\ st' = s
      /\ run' = [run EXCEPT !.at = "copy", !.read = Absent]
      /\ fill' = IF run.at = "prefetch" /\ Pending(s) /\ ~s.socks THEN [fill EXCEPT ![run.n].at = "load"] ELSE fill
      /\ UNCHANGED <<cache, merged, core, runs, had>>
  BY DEF Backfilled, psHistory
<1>2. MaybeOK(made, had) /\ made \in MaybeConfs /\ found \in BOOLEAN
  <2>1. found \in BOOLEAN /\ (found => run.read # Absent)
    BY DEF Prefetches, Predetects, Guessed, ReachesDirectly, Reaches
  <2>2. MaybeOK(run.read, had) /\ MaybeOK(out, had)
    BY DEF PsInv, RunOK, FilesOK
  <2> HIDE DEF found
  <2>3. found => ConfOK(BackfillFormats(run.read), had)
    BY <2>1, <2>2, BackfillOK DEF MaybeOK
  <2> QED
    BY <2>1, <2>2, <2>3 DEF MaybeOK, ConfOK, MaybeConfs
<1> HIDE DEF found, made
<1>3. StateOK(s, had)
  <2>1. StateOK(st, had)
    BY <1>1 DEF PsInv, HadOK
  <2> QED
    BY <1>2, <2>1 DEF StateOK, RetryStates
<1> HIDE DEF s
<1>4. run \in RunRecs /\ run.n \in DOMAIN had
  BY <1>1 DEF PsInv, RunOK
<1>5. /\ run' \in RunRecs /\ run'.at = "copy" /\ run'.n = run.n /\ run'.ok = run.ok /\ run'.got = run.got
      /\ run'.read = Absent
  BY <1>1, <1>4 DEF RunRecs, RunPlaces, MaybeConfs
<1>6. RunOK(run, had)' /\ HadOK'
  BY <1>1, <1>3, <1>5 DEF PsInv, RunOK, HadOK, MaybeOK
<1>7. FilesOK' /\ CoreOK'
  BY <1>1, <1>2, <1>3 DEF PsInv, FilesOK, CoreOK
<1>8. ASSUME NEW f \in Fillers
      PROVE  FillOK(fill'[f], had)
  <2>1. FillOK(fill[f], had) /\ fill[f] \in FillRecs
    BY DEF PsInv
  <2>2. FillOK([fill[f] EXCEPT !.at = "load"], had)
    <3> DEFINE new == [fill[f] EXCEPT !.at = "load"]
    <3>1. new \in FillRecs /\ new.at = "load" /\ new.read = fill[f].read /\ new.prev = fill[f].prev
      BY <2>1 DEF FillRecs, FillPlaces
    <3> HIDE DEF new
    <3>2. FillOK(new, had)
      BY <2>1, <3>1 DEF FillOK, HasState, LockPlaces
    <3> QED
      BY <3>2 DEF new
  <2>3. fill'[f] = fill[f] \/ fill'[f] = [fill[f] EXCEPT !.at = "load"]
    BY <1>1 DEF PsInv
  <2> QED
    BY <2>1, <2>2, <2>3
<1>9. fill' \in [Fillers -> FillRecs]
  <2>1. DOMAIN fill' = Fillers /\ fill' = [f \in Fillers |-> fill'[f]]
    BY <1>1 DEF PsInv
  <2> QED
    BY <1>8, <2>1 DEF FillOK
<1> QED
  BY <1>1, <1>6, <1>7, <1>8, <1>9 DEF PsInv

LEMMA CopyKeeps == PsInv /\ CopyAndLoad => PsInv'
<1> SUFFICES ASSUME PsInv, CopyAndLoad
             PROVE  PsInv'
  OBVIOUS
<1>1. /\ run' = IdleRun /\ UNCHANGED <<out, st, cache, fill, runs, had>>
      /\ UNCHANGED <<merged, core>> \/ (merged' = out /\ core' = [core EXCEPT !.up = TRUE, !.cfg = out])
  BY DEF CopyAndLoad, psHistory
<1>2. MaybeOK(out, had) /\ MaybeOK(merged, had) /\ out \in MaybeConfs
  BY DEF PsInv, FilesOK, MaybeOK, ConfOK, MaybeConfs
<1>3. MaybeOK(merged', had) /\ CoreOK'
  BY <1>1, <1>2 DEF PsInv, CoreOK
<1> QED
  BY <1>1, <1>3, RunEndsKeeps

\* clash and the hosts come and go.
LEMMA SurroundingsKeep == PsInv /\ (TurnsHealthy \/ TurnsSick \/ CoreStops \/ HostChanges) => PsInv'
<1> SUFFICES ASSUME PsInv, TurnsHealthy \/ TurnsSick \/ CoreStops \/ HostChanges
             PROVE  PsInv'
  OBVIOUS
<1>1. /\ UNCHANGED <<out, st, cache, merged, run, fill, runs, had>>
      /\ \/ UNCHANGED core \/ core' = [core EXCEPT !.healthy = TRUE] \/ core' = [core EXCEPT !.healthy = FALSE]
         \/ core' = [core EXCEPT !.up = FALSE, !.healthy = FALSE]
  BY DEF TurnsHealthy, TurnsSick, CoreStops, HostChanges, psHistory
<1>2. CoreOK'
  BY <1>1 DEF PsInv, CoreOK
<1>3. FilesOK' /\ HadOK' /\ RunOK(run, had)'
  BY <1>1 DEF PsInv, FilesOK, HadOK
<1> QED
  BY <1>1, <1>2, <1>3, FillsStay

-----------------------------------------------------------------------------
\* A gap-fill that ends leaves the files as they are.
LEMMA EndsKeep ==
  ASSUME PsInv, NEW f \in Fillers, Quits(f), UNCHANGED <<out, st, cache, merged, core, run, runs, had>>
  PROVE  PsInv'
<1>1. FillOK([NotStarted EXCEPT !.at = "ended"], had)
  BY RestingOK
<1>2. FilesOK' /\ CoreOK'
  BY DEF PsInv, FilesOK, CoreOK
<1> QED
  BY <1>1, <1>2, FillKeeps DEF Quits

\* A gap-fill with its state that goes to another place leaves the files as they are.
LEMMA MovingKeeps ==
  ASSUME PsInv, NEW f \in Fillers, fill[f].at \in HasState, NEW to \in HasState \ {"check", "rebuild"},
         Moves(f, to), UNCHANGED <<out, st, cache, merged, core, run, runs, had>>
  PROVE  PsInv'
<1>1. FillOK(fill[f], had)
  BY DEF PsInv
<1>2. FillOK([fill[f] EXCEPT !.at = to], had)
  BY <1>1, MovesOK
<1>3. FilesOK' /\ CoreOK'
  BY DEF PsInv, FilesOK, CoreOK
<1>4. fill' = [fill EXCEPT ![f] = [fill[f] EXCEPT !.at = to]]
  BY DEF Moves, PsInv
<1> QED
  BY <1>2, <1>3, <1>4, FillKeeps

LEMMA LoadStateKeeps == ASSUME NEW f \in Fillers PROVE PsInv /\ LoadState(f) => PsInv'
<1> SUFFICES ASSUME PsInv, LoadState(f)
             PROVE  PsInv'
  OBVIOUS
<1>1. fill[f].at = "load" /\ UNCHANGED <<out, st, cache, merged, core, run, runs, had>>
  BY DEF LoadState, psHistory
<1>2. CASE Quits(f)
  BY <1>1, <1>2, EndsKeep
<1>3. CASE ~Quits(f)
  <2> DEFINE new == [fill[f] EXCEPT !.at = "lock", !.s = st]
  <2>1. fill' = [fill EXCEPT ![f] = new] /\ st # Absent
    BY <1>3 DEF LoadState, PsInv
  <2>2. FillOK(fill[f], had) /\ StateOK(st, had) /\ fill[f] \in FillRecs
    BY <2>1 DEF PsInv, FilesOK
  <2>3. /\ new \in FillRecs /\ new.at = "lock" /\ new.s = st
        /\ new.read = fill[f].read /\ new.prev = fill[f].prev
    BY <2>2 DEF FillRecs, FillPlaces, HasState, LockPlaces, StateOK
  <2> HIDE DEF new
  <2>4. FillOK(new, had)
    BY <2>2, <2>3 DEF FillOK
  <2>5. FilesOK' /\ CoreOK'
    BY <1>1 DEF PsInv, FilesOK, CoreOK
  <2> QED
    BY <1>1, <2>1, <2>4, <2>5, FillKeeps
<1> QED
  BY <1>2, <1>3

\* The lock decides who goes on, not what is written.
LEMMA LockKeeps ==
  ASSUME NEW f \in Fillers
  PROVE  PsInv /\ (TryLock(f) \/ WritesPid(f) \/ CheckHolder(f) \/ Unlinks(f) \/ LocksAgain(f)) => PsInv'
<1> SUFFICES ASSUME PsInv, TryLock(f) \/ WritesPid(f) \/ CheckHolder(f) \/ Unlinks(f) \/ LocksAgain(f)
             PROVE  PsInv'
  OBVIOUS
<1>1. fill[f].at \in HasState /\ UNCHANGED <<out, st, cache, merged, core, run, runs, had>>
  BY DEF TryLock, WritesPid, CheckHolder, Unlinks, LocksAgain, psHistory, HasState, LockPlaces
<1>2. Quits(f) \/ \E to \in {"holder", "pid", "wait", "unlink", "retry"} : Moves(f, to)
  BY DEF TryLock, WritesPid, CheckHolder, Unlinks, LocksAgain, Creates
<1>3. {"holder", "pid", "wait", "unlink", "retry"} \subseteq HasState \ {"check", "rebuild"}
  BY DEF HasState, LockPlaces
<1> QED
  BY <1>1, <1>2, <1>3, EndsKeep, MovingKeeps

\* So do the wait for clash, and what ends a gap-fill.
LEMMA WaitKeeps ==
  ASSUME NEW f \in Fillers
  PROVE  PsInv /\ (WaitReady(f) \/ GivesUp(f) \/ FillerDies(f)) => PsInv'
<1> SUFFICES ASSUME PsInv, WaitReady(f) \/ GivesUp(f) \/ FillerDies(f)
             PROVE  PsInv'
  OBVIOUS
<1>1. UNCHANGED <<out, st, cache, merged, core, run, runs, had>>
  BY DEF WaitReady, GivesUp, FillerDies, psHistory
<1>2. Quits(f) \/ (fill[f].at = "wait" /\ Moves(f, "formats"))
  BY DEF WaitReady, GivesUp, FillerDies, Ends, Quits
<1>3. {"wait", "formats"} \subseteq HasState \ {"check", "rebuild"}
  BY DEF HasState
<1> QED
  BY <1>1, <1>2, <1>3, EndsKeep, MovingKeeps

LEMMA FillFormatsKeeps == ASSUME NEW f \in Fillers PROVE PsInv /\ FillFormats(f) => PsInv'
<1> SUFFICES ASSUME PsInv, FillFormats(f)
             PROVE  PsInv'
  OBVIOUS
<1>1. fill[f].at = "formats" /\ UNCHANGED <<out, st, cache, merged, core, run, runs, had>>
  BY DEF FillFormats, psHistory
<1>2. CASE fill' = [fill EXCEPT ![f].at = "subs"]
  BY <1>1, <1>2, MovingKeeps DEF Moves, HasState
<1>3. CASE fill' = [fill EXCEPT ![f].at = "backfill", ![f].read = out]
  <2> DEFINE new == [fill[f] EXCEPT !.at = "backfill", !.read = out]
  <2>1. fill' = [fill EXCEPT ![f] = new]
    BY <1>3 DEF PsInv
  <2>2. FillOK(fill[f], had) /\ fill[f] \in FillRecs /\ MaybeOK(out, had) /\ out \in MaybeConfs
    BY DEF PsInv, FilesOK, MaybeOK, ConfOK, MaybeConfs
  <2>3. /\ new \in FillRecs /\ new.at = "backfill" /\ new.s = fill[f].s
        /\ new.read = out /\ new.prev = fill[f].prev
    BY <2>2 DEF FillRecs, FillPlaces, HasState
  <2> HIDE DEF new
  <2>4. FillOK(new, had)
    BY <1>1, <2>2, <2>3 DEF FillOK, HasState
  <2>5. FilesOK' /\ CoreOK'
    BY <1>1 DEF PsInv, FilesOK, CoreOK
  <2> QED
    BY <1>1, <2>1, <2>4, <2>5, FillKeeps
<1> QED
  BY <1>2, <1>3 DEF FillFormats

LEMMA FillBackfilledKeeps == ASSUME NEW f \in Fillers PROVE PsInv /\ FillBackfilled(f) => PsInv'
<1> SUFFICES ASSUME PsInv, FillBackfilled(f)
             PROVE  PsInv'
  OBVIOUS
<1> DEFINE d == Predetects(fill[f].read)
           made == IF d THEN BackfillFormats(fill[f].read) ELSE out
           s == [fill[f].s EXCEPT !.formats = FALSE, !.hash = IF d THEN made ELSE @]
           new == [fill[f] EXCEPT !.at = "subs", !.read = Absent, !.fixed = d, !.s = s]
<1>1. fill[f] \in FillRecs /\ FillOK(fill[f], had) /\ StateOK(fill[f].s, had)
  BY DEF FillBackfilled, PsInv, FillOK, HasState
<1>2. /\ fill' = [fill EXCEPT ![f] = new] /\ out' = made
      /\ UNCHANGED <<st, cache, merged, core, run, runs, had>>
  BY DEF FillBackfilled, psHistory, PsInv, FillRecs
<1>3. MaybeOK(made, had) /\ made \in MaybeConfs /\ d \in BOOLEAN
  <2>1. d \in BOOLEAN /\ (d => fill[f].read # Absent)
    BY DEF Predetects, Guessed, ReachesDirectly, Reaches
  <2>2. MaybeOK(fill[f].read, had) /\ MaybeOK(out, had)
    BY <1>1 DEF PsInv, FillOK, FilesOK
  <2> HIDE DEF d
  <2>3. d => ConfOK(BackfillFormats(fill[f].read), had)
    BY <2>1, <2>2, BackfillOK DEF MaybeOK
  <2> QED
    BY <2>1, <2>2, <2>3 DEF MaybeOK, ConfOK, MaybeConfs
<1> HIDE DEF d, made
<1>4. StateOK(s, had)
  BY <1>1, <1>3 DEF StateOK, RetryStates
<1> HIDE DEF s
<1>5. new \in FillRecs /\ new.at = "subs" /\ new.s = s /\ new.read = Absent /\ new.prev = fill[f].prev
  BY <1>1, <1>3, <1>4 DEF FillRecs, FillPlaces, HasState, MaybeConfs, StateOK
<1> HIDE DEF new
<1>6. FillOK(new, had)
  BY <1>1, <1>4, <1>5 DEF FillOK, MaybeOK
<1>7. FilesOK' /\ CoreOK'
  BY <1>2, <1>3 DEF PsInv, FilesOK, CoreOK
<1> QED
  BY <1>2, <1>6, <1>7, FillKeeps

LEMMA FillSubsKeeps == ASSUME NEW f \in Fillers PROVE PsInv /\ FillSubs(f) => PsInv'
<1> SUFFICES ASSUME PsInv, FillSubs(f)
             PROVE  PsInv'
  OBVIOUS
<1> DEFINE s == fill[f].s
           fresh == Downloaded(Subs \ s.ok)
           ok == s.ok \cup fresh
           got == [x \in ok |-> IF x \in fresh THEN Resolved(Lookups) ELSE s.got[x] \cup Resolved(Lookups \ s.got[x])]
           t == [s EXCEPT !.ok = ok, !.got = got]
           held == [x \in ok |-> IF x \in fresh THEN x ELSE cache[CachePath[x]]]
           more == fresh # {} \/ \E x \in s.ok : got[x] # s.got[x]
           new == [fill[f] EXCEPT !.at = "check", !.s = t, !.ok = held, !.rebuild = more]
<1>1. /\ fill[f] \in FillRecs /\ FillOK(fill[f], had) /\ StateOK(s, had)
      /\ UNCHANGED <<out, st, merged, core, run, runs, had>>
  BY DEF FillSubs, psHistory, PsInv, FillOK, HasState
<1>2. CASE \E x \in s.ok : CachePath[x] \notin DOMAIN cache
  <2>1. Quits(f) /\ UNCHANGED cache
    BY <1>2 DEF FillSubs, Ends
  <2> QED
    BY <1>1, <2>1, EndsKeep
<1>3. CASE \A x \in s.ok : CachePath[x] \in DOMAIN cache
  <2>1. /\ cache' = [p \in {CachePath[x] : x \in fresh} \cup DOMAIN cache |->
                      IF \E x \in fresh : CachePath[x] = p THEN CHOOSE x \in fresh : CachePath[x] = p ELSE cache[p]]
        /\ fill' = [fill EXCEPT ![f] = new]
    BY <1>3 DEF FillSubs, PsInv
  <2>2. fresh \in SUBSET Subs /\ s.ok \in SUBSET Subs /\ s.got \in [s.ok -> SUBSET Lookups]
    BY <1>1 DEF Downloaded, StateOK, RetryStates
  <2>3. \A wanted \in SUBSET Lookups : Resolved(wanted) \in SUBSET Lookups
    BY DEF Resolved
  <2>4. \A x \in s.ok : cache[CachePath[x]] \in Subs /\ CachePath[cache[CachePath[x]]] = CachePath[x]
    BY <1>3 DEF PsInv, FilesOK
  <2>5. more \in BOOLEAN
    OBVIOUS
  <2> HIDE DEF fresh, more
  <2>6. ok \in SUBSET Subs /\ got \in [ok -> SUBSET Lookups] /\ s.ok \subseteq ok
    BY <2>2, <2>3
  <2>7. held \in [ok -> Subs] /\ FromFiles(held)
    BY <2>2, <2>4 DEF FromFiles
  <2>8. got \in Gots /\ held \in Helds
    BY <2>6, <2>7 DEF Gots, Helds
  <2> HIDE DEF ok, got, held
  <2>9. StateOK(t, had) /\ t.ok = ok
    BY <1>1, <2>6, <2>8 DEF StateOK, RetryStates
  <2> HIDE DEF t, s
  <2>10. /\ new \in FillRecs /\ new.at = "check" /\ new.s = t /\ new.ok = held
         /\ new.read = fill[f].read /\ new.prev = fill[f].prev
    BY <1>1, <2>5, <2>8, <2>9 DEF FillRecs, FillPlaces, HasState, StateOK
  <2> HIDE DEF new
  <2>11. FillOK(new, had)
    BY <1>1, <2>7, <2>9, <2>10 DEF FillOK
  <2>12. \A p \in DOMAIN cache' : cache'[p] \in Subs /\ CachePath[cache'[p]] = p
    BY <2>1, <2>2, CachedOK DEF PsInv
  <2>13. FilesOK' /\ CoreOK'
    BY <1>1, <2>12 DEF PsInv, FilesOK, CoreOK
  <2> QED
    BY <1>1, <2>1, <2>11, <2>13, FillKeeps
<1> QED
  BY <1>2, <1>3

LEMMA CheckAgainKeeps == ASSUME NEW f \in Fillers PROVE PsInv /\ CheckAgain(f) => PsInv'
<1> SUFFICES ASSUME PsInv, CheckAgain(f)
             PROVE  PsInv'
  OBVIOUS
<1>1. /\ fill[f] \in FillRecs /\ FillOK(fill[f], had) /\ StateOK(fill[f].s, had) /\ fill[f].at = "check"
      /\ UNCHANGED <<out, cache, merged, core, run, runs, had>>
  BY DEF CheckAgain, psHistory, PsInv, FillOK, HasState
<1>2. FilesOK' /\ CoreOK' /\ (StateOK(st, had) => StateOK(st', had))
  <2>1. st' = st \/ st' = fill[f].s
    BY DEF CheckAgain
  <2> QED
    BY <1>1, <2>1 DEF PsInv, FilesOK, CoreOK
<1>3. CASE Quits(f)
  <2>1. FillOK([NotStarted EXCEPT !.at = "ended"], had)
    BY RestingOK
  <2> QED
    BY <1>1, <1>2, <1>3, <2>1, FillKeeps DEF Quits
<1>4. CASE Moves(f, "combine")
  <2>1. FillOK([fill[f] EXCEPT !.at = "combine"], had)
    BY <1>1, MovesOK DEF HasState
  <2>2. fill' = [fill EXCEPT ![f] = [fill[f] EXCEPT !.at = "combine"]]
    BY <1>4 DEF Moves, PsInv
  <2> QED
    BY <1>1, <1>2, <2>1, <2>2, FillKeeps
<1>5. CASE out # Absent /\ fill' = [fill EXCEPT ![f].at = "rebuild", ![f].prev = out]
  <2> DEFINE new == [fill[f] EXCEPT !.at = "rebuild", !.prev = out]
  <2>1. fill' = [fill EXCEPT ![f] = new]
    BY <1>5 DEF PsInv
  <2>2. MaybeOK(out, had) /\ out \in MaybeConfs
    BY DEF PsInv, FilesOK, MaybeOK, ConfOK, MaybeConfs
  <2>3. /\ new \in FillRecs /\ new.at = "rebuild" /\ new.s = fill[f].s /\ new.ok = fill[f].ok
        /\ new.read = fill[f].read /\ new.prev = out
    BY <1>1, <2>2 DEF FillRecs, FillPlaces, HasState
  <2> HIDE DEF new
  <2>4. FillOK(new, had)
    BY <1>1, <1>5, <2>2, <2>3 DEF FillOK
  <2> QED
    BY <1>1, <1>2, <2>1, <2>4, FillKeeps
<1> QED
  BY <1>3, <1>4, <1>5 DEF CheckAgain, Ends

LEMMA RebuildKeeps == ASSUME NEW f \in Fillers PROVE PsInv /\ Rebuild(f) => PsInv'
<1> SUFFICES ASSUME PsInv, Rebuild(f)
             PROVE  PsInv'
  OBVIOUS
<1> DEFINE s == fill[f].s
           prev == fill[f].prev
           made == EmitConfig(s.n, prev.by, fill[f].ok, s.got, Reused(prev), prev.format)
           t == [s EXCEPT !.hash = made]
           new == [fill[f] EXCEPT !.at = "combine", !.prev = Absent, !.s = t]
<1>1. /\ fill[f] \in FillRecs /\ FillOK(fill[f], had) /\ StateOK(s, had)
      /\ fill[f].ok \in [s.ok -> Subs] /\ FromFiles(fill[f].ok) /\ ConfOK(prev, had)
  BY DEF Rebuild, PsInv, FillOK, HasState, MaybeOK
<1>2. /\ out' = made /\ fill' = [fill EXCEPT ![f] = new]
      /\ UNCHANGED <<st, cache, merged, core, run, runs, had>>
  BY DEF Rebuild, Reused, psHistory, PsInv
<1>3. ConfOK(made, had)
  <2>1. s.n \in Nat /\ s.n \in DOMAIN had /\ had[s.n] \subseteq s.ok /\ s.ok \in SUBSET Subs /\ s.got \in [s.ok -> SUBSET Lookups]
    BY <1>1 DEF StateOK, RetryStates
  <2> QED
    BY <1>1, <2>1, RebuiltOK
<1> HIDE DEF made
<1>4. made \in MaybeConfs /\ MaybeOK(made, had)
  BY <1>3 DEF ConfOK, MaybeOK, MaybeConfs
<1>5. StateOK(t, had)
  BY <1>1, <1>4 DEF StateOK, RetryStates
<1> HIDE DEF t, s
<1>6. new \in FillRecs /\ new.at = "combine" /\ new.s = t /\ new.prev = Absent /\ new.read = fill[f].read
  BY <1>1, <1>5 DEF FillRecs, FillPlaces, HasState, MaybeConfs, StateOK
<1> HIDE DEF new
<1>7. FillOK(new, had)
  BY <1>1, <1>5, <1>6 DEF FillOK, MaybeOK
<1>8. FilesOK' /\ CoreOK'
  BY <1>2, <1>4 DEF PsInv, FilesOK, CoreOK
<1> QED
  BY <1>2, <1>7, <1>8, FillKeeps

LEMMA AppliesKeeps ==
  ASSUME NEW f \in Fillers PROVE PsInv /\ (CombineAndReload(f) \/ SaveState(f)) => PsInv'
<1> SUFFICES ASSUME PsInv, CombineAndReload(f) \/ SaveState(f)
             PROVE  PsInv'
  OBVIOUS
<1>1. /\ fill[f] \in FillRecs /\ FillOK(fill[f], had) /\ StateOK(fill[f].s, had) /\ fill[f].at \in {"combine", "saving"}
      /\ UNCHANGED <<out, cache, run, runs, had>>
  BY DEF CombineAndReload, SaveState, psHistory, PsInv, FillOK, HasState
<1>2. MaybeOK(out, had) /\ out \in MaybeConfs
  BY DEF PsInv, FilesOK, MaybeOK, ConfOK, MaybeConfs
<1>3. /\ st' = st \/ st' = fill[f].s
      /\ merged' = merged \/ merged' = out
      /\ core' = core \/ core' = [core EXCEPT !.cfg = out]
  BY DEF CombineAndReload, SaveState
<1>4. FilesOK' /\ CoreOK' /\ (StateOK(st, had) => StateOK(st', had))
  BY <1>1, <1>2, <1>3 DEF PsInv, FilesOK, CoreOK
<1>5. CASE Quits(f)
  <2>1. FillOK([NotStarted EXCEPT !.at = "ended"], had)
    BY RestingOK
  <2> QED
    BY <1>1, <1>4, <1>5, <2>1, FillKeeps DEF Quits
<1>6. CASE Moves(f, "saving")
  <2>1. FillOK([fill[f] EXCEPT !.at = "saving"], had)
    BY <1>1, MovesOK DEF HasState
  <2>2. fill' = [fill EXCEPT ![f] = [fill[f] EXCEPT !.at = "saving"]]
    BY <1>6 DEF Moves, PsInv
  <2> QED
    BY <1>1, <1>4, <2>1, <2>2, FillKeeps
<1> QED
  BY <1>5, <1>6 DEF CombineAndReload, SaveState, Ends

LEMMA SubsStepKeeps == PsInv /\ [PsNext]_psVars => PsInv'
<1> SUFFICES ASSUME PsInv, [PsNext]_psVars
             PROVE  PsInv'
  OBVIOUS
<1>1. CASE GetSub \/ RunStep
  BY <1>1, GetSubKeeps, DownloadSubsKeeps, RulesFailKeeps, WriteOutputKeeps, SaveRetryKeeps, DetectKeeps,
     BackfilledKeeps, CopyKeeps DEF RunStep
<1>2. CASE TurnsHealthy \/ TurnsSick \/ CoreStops \/ HostChanges
  BY <1>2, SurroundingsKeep
<1>3. CASE \E f \in Fillers : FillStep(f) \/ GivesUp(f) \/ FillerDies(f)
  BY <1>3, LoadStateKeeps, LockKeeps, WaitKeeps, FillFormatsKeeps, FillBackfilledKeeps, FillSubsKeeps,
     CheckAgainKeeps, RebuildKeeps, AppliesKeeps DEF FillStep
<1>4. CASE UNCHANGED psVars
  BY <1>4 DEF psVars, psHistory, PsInv, FilesOK, CoreOK, HadOK
<1> QED
  BY <1>1, <1>2, <1>3, <1>4 DEF PsNext

\* The first part of SubsCompleted, for any subscriptions, groups, rules, cache files and
\* runs, however these and the gap-fills overlap, fail or are killed (emit_config,
\* reuse_rules, gap_fill): clash is given configurations whose groups all offer something,
\* whose nodes are from the cache files of their subscriptions, and whose rules name
\* groups that are there if the run that the configuration continues made them.
THEOREM ClashAcceptsWhatItGets == PsSpec => []ConfigClosed
<1>1. PsInit => PsInv
  BY SubsStart
<1>2. PsInv /\ [PsNext]_psVars => PsInv'
  BY SubsStepKeeps
<1>3. PsInv => ConfigClosed
  <2> SUFFICES ASSUME PsInv, NEW c \in {merged, core.cfg} \ {Absent}
               PROVE  /\ \A g \in c.groups : Members(g, c.groups, c.nodes) # {}
                      /\ \A n \in c.nodes : CachePath[n.of] = CachePath[n.sub]
                      /\ c.by = c.run => \A r \in c.rules : RuleTarget[r] \in c.groups \cup BuiltinTargets
    BY DEF ConfigClosed
  <2>1. ConfOK(c, had)
    BY DEF PsInv, FilesOK, CoreOK, MaybeOK
  <2> QED
    BY <2>1, GroupsOffer DEF ConfOK
<1> QED
  BY <1>1, <1>2, <1>3, PTL DEF PsSpec
=============================================================================
