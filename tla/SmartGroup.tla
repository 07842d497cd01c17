----------------------------- MODULE SmartGroup -----------------------------
(***************************************************************************)
(* One smart group (sniffbox/smart_speed.rs): the runner that measures the *)
(* members of a clash proxy group and keeps the best one selected, the     *)
(* user who may lock a node from the web page (web_proxies.rs, smart_fix;  *)
(* smart_fixed.rs), and clash, which answers both and may be reloaded.     *)
(*                                                                         *)
(* A pass of the runner (run_group_pass) is cut at every await.  What it   *)
(* read before an await - members, selection, lock - is held in pass and   *)
(* may be stale afterwards.  A node that answers does so with its own      *)
(* constant Delay, which makes the jitter term of the score zero; a sample *)
(* is TRUE (answered) or FALSE (timed out).                                *)
(***************************************************************************)
EXTENDS Naturals, Sequences, FiniteSets, SequencesExt

CONSTANTS
  Nodes,        \* every node a subscription may contain
  Delay,        \* the delay of each node
  None,         \* no node; also a selection that is none of the members
  HistCap,      \* HIST_CAP
  LossPenalty,  \* LOSS_PENALTY_MS
  BackoffAfter, \* BACKOFF_AFTER
  MaxGap,       \* CYCLE_GAP_MAX in units of CYCLE_GAP
  Rungs,        \* number of steps of LADDER_MS
  MaxFlips,     \* bound: changes of the nodes' health
  MaxUser,      \* bound: requests of the user
  MaxReloads,   \* bound: reloads of clash
  MaxErrors     \* bound: requests to clash that fail or are rejected

ASSUME SmartConstants ==
  /\ IsFiniteSet(Nodes) /\ None \notin Nodes
  /\ Delay \in [Nodes -> Nat]
  /\ HistCap \in Nat \ {0}
  /\ LossPenalty \in Nat
  /\ BackoffAfter \in Nat \ {0}
  /\ MaxGap \in Nat \ {0}
  /\ Rungs \in Nat \ {0}
  /\ {MaxFlips, MaxUser, MaxReloads, MaxErrors} \subseteq Nat

VARIABLES
  health,   \* which nodes answer a test within the regular timeout
  members,  \* the testable members of the group in clash
  now,      \* the node clash has selected
  lock,     \* SmartFixed: the node the user locked, or None
  user,     \* the web request in progress: the node to select, or None
  hist,     \* GroupState.hist: the last samples of each node
  streak,   \* GroupState.backoff: consecutive failures (saturated), 0 for no entry
  backed,   \* GroupState.backoff: until lies in the future
  anchor,   \* GroupState.anchor
  gap,      \* time to the next full sweep
  pass,     \* the runner: where it is and what it has read
  missed,   \* history: how many of the last two tests of a node failed, the last included
  spent     \* history: how much of each bound is used up

gs == <<hist, streak, backed, anchor>>
clash == <<health, members, now>>
smartVars == <<clash, lock, user, gs, gap, pass, missed, spent>>
-----------------------------------------------------------------------------
Samples(n) == IF n = None THEN <<>> ELSE hist[n]
LatestOk(n) == Samples(n) # <<>> /\ Last(Samples(n))

Fails(h) == Cardinality({i \in 1 .. Len(h) : ~h[i]})
Finite(h) == \E i \in 1 .. Len(h) : h[i]

\* Of a with history ha and b with history hb, a has the lower score: the mean
\* delay of the answers plus a penalty for the share of losses.  A node that
\* never answered scores infinity.
Less(a, ha, b, hb) ==
  /\ Finite(ha)
  /\ Finite(hb) => (Delay[a] * Len(ha) + LossPenalty * Fails(ha)) * Len(hb)
                     < (Delay[b] * Len(hb) + LossPenalty * Fails(hb)) * Len(ha)

Better(a, b) == Less(a, Samples(a), b, Samples(b))

Best(S) == {m \in S : \A x \in S : ~Better(x, m)}

\* The orders rest.sort_by may leave the nodes of S in.
Sorted(S) == {q \in SetToSeqs(S) : \A i, j \in DOMAIN q : i < j => ~Better(q[j], q[i])}

ConfirmedDown(n) == n # None /\ ~LatestOk(n) /\ streak[n] >= 2

Waiting(left) ==
  [pc |-> "wait", left |-> left, members |-> {}, cur |-> None, locked |-> None, anchor |-> None,
   switched |-> FALSE, anchorOk |-> FALSE, todo |-> <<>>, pick |-> None, rung |-> 0]
NextPass == [Waiting(0) EXCEPT !.pc = "fetch"]
Goes(pc) == [pass EXCEPT !.pc = pc]

SmartInit ==
  /\ health \in [Nodes -> BOOLEAN]
  /\ members = Nodes
  /\ now \in Nodes \cup {None}
  /\ lock = None
  /\ user = None
  /\ hist = [n \in Nodes |-> <<>>]
  /\ streak = [n \in Nodes |-> 0]
  /\ backed = [n \in Nodes |-> FALSE]
  /\ anchor = None
  /\ gap = 1
  /\ pass = NextPass
  /\ missed = [n \in Nodes |-> 0]
  /\ spent = [flips |-> 0, user |-> 0, reloads |-> 0, errors |-> 0]
-----------------------------------------------------------------------------
(***************************************************************************)
(* The environment: nodes, clash, the clock and the user.                  *)
(***************************************************************************)
Spend(k, max) == spent[k] < max /\ spent' = [spent EXCEPT ![k] = @ + 1]

HealthChanges(n) ==
  /\ Spend("flips", MaxFlips)
  /\ health' = [health EXCEPT ![n] = ~@]
  /\ UNCHANGED <<members, now, lock, user, gs, gap, pass, missed>>

\* A new subscription: other members, and a selection that need not survive.
ClashReloads(ms) ==
  /\ Spend("reloads", MaxReloads)
  /\ members' = ms
  /\ now' \in {now, None}
  /\ UNCHANGED <<health, lock, user, gs, gap, pass, missed>>

BackoffEnds(n) ==
  /\ backed[n]
  /\ backed' = [backed EXCEPT ![n] = FALSE]
  /\ UNCHANGED <<clash, lock, user, hist, streak, anchor, gap, pass, missed, spent>>

\* smart_fix checks the node against a snapshot that may be old, sets the lock
\* and then asks clash to select the node.
UserLocks(n) ==
  /\ user = None
  /\ Spend("user", MaxUser)
  /\ lock' = n
  /\ user' = n
  /\ UNCHANGED <<clash, gs, gap, pass, missed>>

UserSelects ==
  /\ user # None
  /\ user' = None
  /\ now' \in IF user \in members THEN {user, now} ELSE {now}
  /\ UNCHANGED <<health, members, lock, gs, gap, pass, missed, spent>>

UserUnlocks ==
  /\ user = None
  /\ Spend("user", MaxUser)
  /\ lock' = None
  /\ UNCHANGED <<clash, user, gs, gap, pass, missed>>
-----------------------------------------------------------------------------
(***************************************************************************)
(* What the runner's requests to clash do.                                 *)
(***************************************************************************)
Answers(n) == n \in members /\ health[n]

\* test_member: a request that fails counts as a node that does not answer.
Tests(n, ok) ==
  /\ \/ ok = Answers(n) /\ UNCHANGED spent
     \/ ~ok /\ Answers(n) /\ Spend("errors", MaxErrors)
  /\ missed' = [missed EXCEPT ![n] = IF ok THEN 0 ELSE IF @ = 0 THEN 1 ELSE 2]

\* select_node: clash refuses a node that is no member.  A request that times
\* out may have been served.
Selects(n, result) ==
  \/ result = "ok" /\ n \in members /\ now' = n /\ UNCHANGED spent
  \/ result = "refused" /\ n \notin members /\ UNCHANGED <<now, spent>>
  \/ result = "error" /\ Spend("errors", MaxErrors) /\ now' \in {now} \cup ({n} \cap members)

Pushed(h, ok) == Append(IF Len(h) = HistCap THEN Tail(h) ELSE h, ok)

\* GroupState::observe for the nodes of S, each times over.
Observes(S, ok, times) ==
  LET failures(n) == streak[n] + times
  IN  /\ hist' = [n \in Nodes |->
           IF n \notin S THEN hist[n]
           ELSE IF times = 1 THEN Pushed(hist[n], ok[n]) ELSE Pushed(Pushed(hist[n], ok[n]), ok[n])]
      /\ streak' = [n \in Nodes |->
           IF n \notin S THEN streak[n]
           ELSE IF ok[n] THEN 0
           ELSE IF failures(n) < BackoffAfter THEN failures(n) ELSE BackoffAfter]
      /\ backed' = [n \in Nodes |->
           IF n \notin S THEN backed[n] ELSE ~ok[n] /\ failures(n) >= BackoffAfter]

Observe(n, ok, times) == Observes({n}, [x \in {n} |-> ok], times)

\* next_gap, then the wait for the next full sweep.
EndPass(settled) ==
  /\ gap' = IF ~settled THEN 1 ELSE IF 2 * gap < MaxGap THEN 2 * gap ELSE MaxGap
  /\ pass' = Waiting(gap')

PassFails == gap' = 1 /\ pass' = NextPass
-----------------------------------------------------------------------------
(***************************************************************************)
(* run_group_pass.                                                         *)
(***************************************************************************)
PassFetches ==
  /\ pass.pc = "fetch"
  /\ \/ /\ pass' = [pass EXCEPT !.pc = "lock", !.members = members, !.cur = now]
        /\ UNCHANGED <<gap, spent>>
     \/ Spend("errors", MaxErrors) /\ PassFails
  /\ UNCHANGED <<clash, lock, user, gs, missed>>

PassFindsNothing ==
  /\ pass.pc = "lock" /\ pass.members = {}
  /\ EndPass(FALSE)
  /\ UNCHANGED <<clash, lock, user, gs, missed, spent>>

PassReadsLock ==
  /\ pass.pc = "lock" /\ pass.members # {}
  /\ pass' = [pass EXCEPT !.locked = lock,
                          !.pc = IF lock \in pass.members \cup {None} THEN "seed" ELSE "vanished"]
  /\ UNCHANGED <<clash, lock, user, gs, gap, missed, spent>>

PassReleasesVanished ==
  /\ pass.pc = "vanished"
  /\ lock' = None
  /\ pass' = [pass EXCEPT !.locked = None, !.pc = "seed"]
  /\ UNCHANGED <<clash, user, gs, gap, missed, spent>>

\* What clash itself remembers of a node's delay: any samples, or none.
Seeds == UNION {[1 .. k -> BOOLEAN] : k \in 0 .. HistCap}

SeedsKeepingStreaks ==
  /\ pass.pc = "seed"
  /\ \E seed \in [{n \in pass.members : hist[n] = <<>>} -> Seeds] :
       LET h == [n \in Nodes |-> IF n \notin pass.members THEN <<>>
                                 ELSE IF n \in DOMAIN seed THEN seed[n] ELSE hist[n]]
           unknown == {n \in pass.members : h[n] = <<>>}
       IN  /\ hist' = h
           /\ pass' = CASE unknown = pass.members -> [Goes("ladder") EXCEPT !.rung = 1]
                        [] unknown = {} -> Goes("reselect")
                        [] OTHER -> Goes("fresh")
  /\ UNCHANGED <<streak, backed, clash, lock, user, anchor, gap, missed, spent>>

\* State of nodes that left the group is dropped, nodes without history are
\* seeded from clash.
PassSeeds ==
  /\ pass.pc = "seed"
  /\ \E seed \in [{n \in pass.members : hist[n] = <<>>} -> Seeds] :
       LET h == [n \in Nodes |-> IF n \notin pass.members THEN <<>>
                                 ELSE IF n \in DOMAIN seed THEN seed[n] ELSE hist[n]]
           unknown == {n \in pass.members : h[n] = <<>>}
       IN  /\ hist' = h
           /\ pass' = CASE unknown = pass.members -> [Goes("ladder") EXCEPT !.rung = 1]
                        [] unknown = {} -> Goes("reselect")
                        [] OTHER -> Goes("fresh")
  /\ streak' = [n \in Nodes |-> IF n \in pass.members THEN streak[n] ELSE 0]
  /\ backed' = [n \in Nodes |-> n \in pass.members /\ backed[n]]
  /\ UNCHANGED <<clash, lock, user, anchor, gap, missed, spent>>

\* ladder_pass, one timeout of the ladder: some of the nodes that answer at all
\* do so in time, the last step gives all of them the time they need.
LadderRung ==
  LET able == {n \in pass.members : Answers(n)}
  IN  /\ pass.pc = "ladder"
      /\ \E S \in IF pass.rung < Rungs THEN SUBSET able ELSE {able} :
           /\ hist' = [n \in Nodes |-> IF n \in S THEN Pushed(hist[n], TRUE) ELSE hist[n]]
           /\ missed' = [n \in Nodes |-> IF n \in S THEN 0 ELSE missed[n]]
           /\ \/ S = {} /\ pass.rung < Rungs
                 /\ pass' = [pass EXCEPT !.rung = @ + 1] /\ UNCHANGED gap
              \/ S = {} /\ pass.rung = Rungs /\ EndPass(FALSE)
              \/ \E m \in S :
                   /\ pass.locked \in S => m = pass.locked
                   /\ pass.locked \notin S => \A x \in S : Delay[m] <= Delay[x]
                   /\ pass' = [Goes("first") EXCEPT !.pick = m]
                   /\ UNCHANGED gap
      /\ UNCHANGED <<clash, lock, user, streak, backed, anchor, spent>>

LadderPicks ==
  /\ pass.pc = "first"
  /\ \/ pass.pick = pass.cur /\ EndPass(FALSE) /\ UNCHANGED <<now, spent>>
     \/ /\ pass.pick # pass.cur
        /\ \E r \in {"ok", "refused", "error"} :
             Selects(pass.pick, r) /\ IF r = "error" THEN PassFails ELSE EndPass(FALSE)
  /\ UNCHANGED <<health, members, lock, user, gs, missed>>

\* test_many over the nodes that still have no history.
FreshTests ==
  LET S == {n \in pass.members : hist[n] = <<>>}
  IN  /\ pass.pc = "fresh"
      /\ \E ok \in [S -> BOOLEAN] :
           /\ \/ ok = [n \in S |-> Answers(n)] /\ UNCHANGED spent
              \/ ok = [n \in S |-> FALSE] /\ Spend("errors", MaxErrors)
           /\ Observes(S, ok, 1)
           /\ missed' = [n \in Nodes |-> IF n \notin S THEN missed[n]
                                         ELSE IF ok[n] THEN 0 ELSE IF missed[n] = 0 THEN 1 ELSE 2]
      /\ pass' = Goes("reselect")
      /\ UNCHANGED <<clash, lock, user, anchor, gap>>

\* A selection that is no member (clash was reloaded) is replaced first.
Reselects ==
  LET to(cur, switched) ==
        [pass EXCEPT !.pc = "anchor", !.cur = cur, !.switched = switched,
                     !.anchor = IF pass.locked # None THEN pass.locked ELSE cur]
  IN  /\ pass.pc = "reselect"
      /\ \/ /\ pass.cur \in pass.members
            /\ pass' = to(pass.cur, FALSE)
            /\ UNCHANGED <<now, gap, spent>>
         \/ /\ pass.cur \notin pass.members
            /\ \E pick \in IF pass.locked # None THEN {pass.locked} ELSE Best(pass.members),
                  r \in {"ok", "refused", "error"} :
                 /\ Selects(pick, r)
                 /\ \/ r = "ok" /\ pass' = to(pick, TRUE) /\ UNCHANGED gap
                    \/ r = "refused" /\ pass' = to(pass.cur, FALSE) /\ UNCHANGED gap
                    \/ r = "error" /\ PassFails
      /\ UNCHANGED <<health, members, lock, user, gs, missed>>

\* The current node (or the locked one) is measured whatever its backoff.  A
\* first failure is confirmed by a second test before it counts.
AnchorTests ==
  /\ pass.pc = "anchor"
  /\ \/ /\ pass.anchor \notin pass.members
        /\ pass' = Goes("judge")
        /\ UNCHANGED <<hist, streak, backed, missed, spent>>
     \/ /\ pass.anchor \in pass.members
        /\ \E ok \in BOOLEAN :
             /\ Tests(pass.anchor, ok)
             /\ \/ /\ ok \/ streak[pass.anchor] > 0
                   /\ Observe(pass.anchor, ok, 1)
                   /\ pass' = Goes("judge")
                \/ /\ ~ok /\ streak[pass.anchor] = 0
                   /\ pass' = Goes("confirm")
                   /\ UNCHANGED <<hist, streak, backed>>
  /\ UNCHANGED <<clash, lock, user, anchor, gap>>

AnchorRetests ==
  /\ pass.pc = "confirm"
  /\ \E ok \in BOOLEAN :
       /\ Tests(pass.anchor, ok)
       /\ Observe(pass.anchor, ok, IF ok THEN 1 ELSE 2)
  /\ pass' = Goes("judge")
  /\ UNCHANGED <<clash, lock, user, anchor, gap>>

\* A lock on a node that is down is released.
JudgesLock ==
  /\ pass.pc = "judge"
  /\ LET release == pass.locked # None /\ ~LatestOk(pass.locked)
     IN  /\ lock' = IF release THEN None ELSE lock
         /\ pass' = [pass EXCEPT !.pc = "hold", !.anchorOk = LatestOk(pass.anchor),
                                 !.locked = IF release THEN None ELSE @]
  /\ UNCHANGED <<clash, user, gs, gap, missed, spent>>

HoldsNothing ==
  /\ pass.pc = "hold"
  /\ pass' = Goes("order")
  /\ UNCHANGED <<clash, lock, user, gs, gap, missed, spent>>

\* A lock that stands is enforced.
HoldsLock ==
  /\ pass.pc = "hold"
  /\ \/ /\ pass.locked \in {None, pass.cur}
        /\ pass' = Goes("order")
        /\ UNCHANGED <<now, gap, spent>>
     \/ /\ pass.locked \notin {None, pass.cur}
        /\ \E r \in {"ok", "refused", "error"} :
             /\ Selects(pass.locked, r)
             /\ \/ /\ r = "ok"
                   /\ pass' = [Goes("order") EXCEPT !.cur = pass.locked, !.switched = TRUE]
                   /\ UNCHANGED gap
                \/ r = "refused" /\ pass' = Goes("order") /\ UNCHANGED gap
                \/ r = "error" /\ PassFails
  /\ UNCHANGED <<health, members, lock, user, gs, missed>>

\* Nodes in backoff as of the start are skipped.
SweepStarts ==
  /\ pass.pc = "order"
  /\ \E order \in Sorted({n \in pass.members \ {pass.anchor} : ~backed[n]}) :
       pass' = [Goes("sweep") EXCEPT !.todo = order]
  /\ UNCHANGED <<clash, lock, user, gs, gap, missed, spent>>

SweepTests ==
  /\ pass.pc = "sweep" /\ pass.todo # <<>>
  /\ \E ok \in BOOLEAN : Tests(Head(pass.todo), ok) /\ Observe(Head(pass.todo), ok, 1)
  /\ pass' = [Goes("compare") EXCEPT !.pick = Head(pass.todo), !.todo = Tail(@)]
  /\ UNCHANGED <<clash, lock, user, anchor, gap>>

\* The node just measured takes over if it answered and scores better, or if
\* the current one has failed twice in a row.
TakesOver ==
  /\ pass.locked = None
  /\ LatestOk(pass.pick)
  /\ ConfirmedDown(pass.cur) \/ Better(pass.pick, pass.cur)

SweepKeeps ==
  /\ pass.pc = "compare" /\ ~TakesOver
  /\ pass' = Goes("sweep")
  /\ UNCHANGED <<clash, lock, user, gs, gap, missed, spent>>

SweepSwitches ==
  /\ pass.pc = "compare" /\ TakesOver
  /\ \E r \in {"ok", "refused", "error"} :
       /\ Selects(pass.pick, r)
       /\ \/ /\ r = "ok"
             /\ pass' = [Goes("sweep") EXCEPT !.cur = pass.pick, !.switched = TRUE]
             /\ UNCHANGED gap
          \/ r = "refused" /\ pass' = Goes("sweep") /\ UNCHANGED gap
          \/ r = "error" /\ PassFails
  /\ UNCHANGED <<health, members, lock, user, gs, missed>>

\* Some other node that answers again would be faster without its past losses.
Recovering ==
  \E m \in pass.members \ {pass.cur} :
    /\ LatestOk(m)
    /\ Fails(hist[m]) > 0
    /\ Less(m, <<TRUE>>, pass.cur, Samples(pass.cur))

PassEnds ==
  LET keep == IF pass.locked # None THEN pass.locked ELSE pass.cur
  IN  /\ pass.pc = "sweep" /\ pass.todo = <<>>
      /\ anchor' = IF keep \in pass.members THEN keep ELSE None
      /\ EndPass(~pass.switched /\ pass.anchorOk /\ ~Recovering)
      /\ UNCHANGED <<clash, lock, user, hist, streak, backed, missed, spent>>
-----------------------------------------------------------------------------
(***************************************************************************)
(* runner: between two sweeps the anchor alone is checked.                 *)
(***************************************************************************)
Sleeps ==
  /\ pass.pc = "wait"
  /\ pass' = IF pass.left = 1 THEN NextPass ELSE [pass EXCEPT !.pc = "check", !.left = @ - 1]
  /\ UNCHANGED <<clash, lock, user, gs, gap, missed, spent>>

\* check_anchors: a failure is not scored, it brings the full sweep forward.
ChecksAnchor ==
  LET target == IF lock # None /\ anchor # lock THEN None ELSE anchor
  IN  /\ pass.pc = "check"
      /\ \/ /\ target = None
            /\ pass' = Goes("wait")
            /\ UNCHANGED <<hist, streak, backed, gap, missed, spent>>
         \/ /\ target # None
            /\ \E ok \in BOOLEAN :
                 /\ Tests(target, ok)
                 /\ \/ ok /\ Observe(target, TRUE, 1) /\ pass' = Goes("wait") /\ UNCHANGED gap
                    \/ ~ok /\ PassFails /\ UNCHANGED <<hist, streak, backed>>
      /\ UNCHANGED <<clash, lock, user, anchor>>
-----------------------------------------------------------------------------
RunnerStep ==
  \/ PassFetches \/ PassFindsNothing \/ PassReadsLock \/ PassReleasesVanished \/ PassSeeds
  \/ LadderRung \/ LadderPicks \/ FreshTests \/ Reselects
  \/ AnchorTests \/ AnchorRetests \/ JudgesLock \/ HoldsLock
  \/ SweepStarts \/ SweepTests \/ SweepKeeps \/ SweepSwitches \/ PassEnds
  \/ Sleeps \/ ChecksAnchor

SmartNext ==
  \/ RunnerStep
  \/ \E n \in Nodes : HealthChanges(n) \/ BackoffEnds(n) \/ UserLocks(n)
  \/ \E ms \in SUBSET Nodes : ClashReloads(ms)
  \/ UserSelects
  \/ UserUnlocks

SmartSpec == SmartInit /\ [][SmartNext]_smartVars

\* The runner's timers and requests all come to an end, so do backoffs (capped
\* at BACKOFF_MAX) and the web request.
SmartFair ==
  /\ WF_smartVars(RunnerStep)
  /\ WF_smartVars(UserSelects)
  /\ \A n \in Nodes : WF_smartVars(BackoffEnds(n))

SmartFairSpec == SmartSpec /\ SmartFair
-----------------------------------------------------------------------------
(***************************************************************************)
(* Properties.                                                             *)
(***************************************************************************)
MaybeNode == Nodes \cup {None}

\* Types of clash, the user, the group's state and the runner.
SmartTypeOK ==
  /\ health \in [Nodes -> BOOLEAN]
  /\ members \subseteq Nodes
  /\ now \in MaybeNode
  /\ lock \in MaybeNode
  /\ user \in MaybeNode
  /\ hist \in [Nodes -> Seq(BOOLEAN)]
  /\ \A n \in Nodes : Len(hist[n]) <= HistCap
  /\ streak \in [Nodes -> 0 .. BackoffAfter]
  /\ backed \in [Nodes -> BOOLEAN]
  /\ anchor \in MaybeNode
  /\ gap \in 1 .. MaxGap
  /\ pass.members \subseteq Nodes
  /\ {pass.cur, pass.locked, pass.anchor, pass.pick} \subseteq MaybeNode
  /\ missed \in [Nodes -> 0 .. 2]

\* The failure streak and the history agree whatever mix of sweeps, ladders,
\* seeds and anchor checks wrote them: a node with a streak has failed last.
StreakRecorded == \A n \in Nodes : streak[n] > 0 => hist[n] # <<>> /\ ~Last(hist[n])

\* The pass gives up the current node as dead (and cuts its connections) only
\* when the last two tests of that node, by anybody, have failed.
FailoverConfirmed ==
  pass.pc = "compare" /\ TakesOver /\ ConfirmedDown(pass.cur) => missed[pass.cur] = 2

SomeUp == \E n \in members : health[n]

\* Once nodes, clash and user settle and a member is up, the group ends up on a
\* node that is up and stays there, locked or not.
OnLiveNode == SomeUp => now \in members /\ health[now]
FailsOver == <>[]OnLiveNode

\* A lock that stands in the end is what clash has selected in the end, unless
\* no node is up at all.
LockHolds == <>[](SomeUp /\ lock # None => now = lock)

\* The pass releases a lock only because of the node that is locked.
ReleasedForCause ==
  [][pass.pc \in {"judge", "vanished"} /\ lock # None /\ lock' = None /\ pass' # pass
       => lock = pass.locked]_smartVars

\* A node is given up only on failures that happened: streaks and histories agree,
\* and a failover was confirmed.
FailuresHonest == SmartTypeOK /\ StreakRecorded /\ FailoverConfirmed

=============================================================================
