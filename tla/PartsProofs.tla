----------------------------- MODULE PartsProofs -----------------------------
(***************************************************************************)
(* Theorems about the smaller components, which have a state each and no   *)
(* common one: the scoring rounds of cloudflared (CfScore), clash and its  *)
(* geo data (ClashCtl, GeoUpdate), the locks of smart groups (SmartFixed), *)
(* the console mirror (Screen), the relay of a connection (Relay), the web *)
(* interface (Web), the poll of clash's connections (ClashPull) and the    *)
(* log of the process (Lifecycle).                                         *)
(***************************************************************************)
EXTENDS CfScore, GeoUpdate, SmartFixed, Screen, Relay, Web, ClashPull, Lifecycle,
        FiniteSetTheorems, WellFoundedInduction, SequenceTheorems, TLAPS

\* Every set of numbers that is not empty has a least one ...
LEMMA LeastNat ==
  ASSUME NEW T \in SUBSET Nat, T # {}
  PROVE  \E m \in T : \A k \in T : m <= k
<1> DEFINE R == {ss \in Nat \X Nat : ss[1] < ss[2]}
<1>1. IsWellFoundedOn(R, Nat)
  BY NatLessThanWellFounded DEF OpToRel
<1> HIDE DEF R
<1>2. PICK x \in T : \A y \in T : ~ (<<y, x>> \in R)
  BY <1>1, WFMin
<1>3. \A y \in T : ~(y < x)
  BY <1>2 DEF R
<1> QED
  BY <1>3

\* ... and a greatest one, when there is a bound.
LEMMA GreatestNat ==
  ASSUME NEW n \in Nat, NEW T \in SUBSET (0 .. n), T # {}
  PROVE  \E m \in T : \A k \in T : k <= m
<1> DEFINE S == {i \in 0 .. n : n - i \in T}
<1>1. PICK m0 \in T : TRUE
  OBVIOUS
<1>2. n - m0 \in S
  BY <1>1
<1>3. PICK i \in S : \A j \in S : i <= j
  <2>1. S \subseteq Nat
    OBVIOUS
  <2> HIDE DEF S
  <2>2. S \in SUBSET Nat /\ S # {}
    BY <1>2, <2>1
  <2> QED
    BY <2>2, LeastNat
<1>4. \A k \in T : n - k \in S /\ k \in 0 .. n
  OBVIOUS
<1>5. n - i \in T /\ \A k \in T : k <= n - i
  BY <1>3, <1>4
<1> QED
  BY <1>5

-----------------------------------------------------------------------------
(***************************************************************************)
(* CfScore.  Rounds overlap without a lock.  The invariant says of each    *)
(* task what its round has, so that it can be told what the tunnels that   *)
(* run are for, and what the measurements were that a verdict rests on.    *)
(***************************************************************************)
RoundSteps == {"rest", "record", "wait", "ask", "sample", "conclude"}
Measurements == [Transports -> Scores \cup {Unscored}]
RoundRecs == [pc : RoundSteps, side : Sides, fails : Nat, up : SUBSET Transports, limited : BOOLEAN,
              got : Measurements]
Gates == [open : BOOLEAN, fails : Nat]

ScoreTyped ==
  /\ probeGate \in [Sides -> Gates] /\ judged \in [Sides -> Measurements]
  /\ round \in [Rounders -> RoundRecs] /\ DOMAIN lastRound = Sides
  /\ tunnels \subseteq (Rounders \cup {"stray"}) \X Transports
  /\ refused \in BOOLEAN /\ monitor \in BOOLEAN /\ owed \subseteq Sides

\* No round is on before the monitor, and only what registered was measured.
RestsFirst == ~monitor => \A t \in Rounders : round[t].pc = "rest"
MeasuredWereUp ==
  \A t \in Rounders : round[t].pc = "conclude" =>
    \A p \in Transports : round[t].got[p] # Unscored => p \in round[t].up

ScoreInv == ScoreTyped /\ RestsFirst /\ MeasuredWereUp /\ ProbesContained /\ VerdictSound

\* Of two tunnels at most one is clearly better.
LEMMA BetterOneWay ==
  ASSUME NEW x \in Scores, NEW y \in Scores, ClearlyBetter(x, y)
  PROVE  ~ClearlyBetter(y, x)
<1>1. /\ x.completed \in Nat /\ x.rate \in Nat \ {0} /\ x.ttfb \in Nat
      /\ y.completed \in Nat /\ y.rate \in Nat \ {0} /\ y.ttfb \in Nat
  BY ScoreConstants
<1> DEFINE a == x.completed  b == x.rate  c == x.ttfb
           d == y.completed  e == y.rate  f == y.ttfb
<1>2. a > d \/ (a = d /\ (4 * b >= 5 * e \/ (4 * e < 5 * b /\ 5 * c <= 4 * f /\ f >= c + MinGain)))
  BY DEF ClearlyBetter
<1>3. MinGain \in Nat \ {0}
  BY ScoreConstants
<1> HIDE DEF a, b, c, d, e, f
<1>4. ~(d > a \/ (d = a /\ (4 * e >= 5 * b \/ (4 * b < 5 * e /\ 5 * f <= 4 * c /\ c >= f + MinGain))))
  BY <1>1, <1>2, <1>3 DEF a, b, c, d, e, f
<1> QED
  BY <1>4 DEF ClearlyBetter, a, b, c, d, e, f

\* A verdict never goes to the clearly worse, nor to one that did not register while
\* the other one was measured.
LEMMA VerdictFollows ==
  ASSUME NEW got \in Measurements, NEW up \in SUBSET Transports, NEW mem \in Measurements,
         NEW edge \in Transports \cup {Unscored},
         \A p \in Transports : got[p] # Unscored => p \in up,
         NEW p, p = Verdict(got, up, mem, edge), p # Unscored,
         NEW o, o = IF p = "quic" THEN "http2" ELSE "quic"
  PROVE  /\ ~(got[p] # Unscored /\ got[o] # Unscored /\ ClearlyBetter(got[o], got[p]))
         /\ ~(p \notin up /\ got[o] # Unscored)
<1> DEFINE q == got["quic"]  h == got["http2"]  r == Rank(q, h, up)
<1>1. Unscored \notin Transports /\ Unscored \notin Scores
  BY ScoreConstants
<1>2. q \in Scores \cup {Unscored} /\ h \in Scores \cup {Unscored}
  BY DEF Measurements, Transports
<1>3. p \in {"quic", "http2"} /\ (r # Unscored => p = r)
  BY <1>1 DEF Verdict, Rank, Degraded, Transports
<1>4. CASE q # Unscored /\ h # Unscored
  <2>1. "quic" \in up /\ "http2" \in up
    BY <1>4 DEF Transports
  <2>2. r = IF ClearlyBetter(h, q) /\ ~ClearlyBetter(q, h) THEN "http2" ELSE "quic"
    BY <1>4 DEF Rank
  <2>3. ClearlyBetter(h, q) => ~ClearlyBetter(q, h)
    BY <1>2, <1>4, BetterOneWay
  <2>4. p = r
    BY <1>1, <1>3, <2>2 DEF Transports
  <2> QED
    BY <2>1, <2>2, <2>3, <2>4
<1>5. CASE q = Unscored \/ h = Unscored
  <2>1. p \notin up => got[o] = Unscored
    <3> SUFFICES ASSUME p \notin up, got[o] # Unscored
                 PROVE  FALSE
      OBVIOUS
    <3>1. CASE p = "quic"
      <4>1. h # Unscored /\ q = Unscored /\ "quic" \notin up
        BY <1>5, <3>1
      <4>2. r = "http2"
        BY <4>1 DEF Rank
      <4> QED
        BY <1>1, <1>3, <3>1, <4>2 DEF Transports
    <3>2. CASE p = "http2"
      <4>1. q # Unscored /\ h = Unscored /\ "http2" \notin up
        BY <1>5, <3>2
      <4>2. r = "quic"
        BY <4>1 DEF Rank
      <4> QED
        BY <1>1, <1>3, <3>2, <4>2 DEF Transports
    <3> QED
      BY <1>3, <3>1, <3>2
  <2> QED
    BY <1>3, <1>5, <2>1
<1> QED
  BY <1>4, <1>5

\* What an attempt leaves at the gate.
LEMMA AttemptTyped ==
  ASSUME NEW n \in Nat
  PROVE  Attempt(n) \in Gates /\ (n > 0 => Attempt(n).fails > 0)
BY ScoreConstants DEF Attempt, Gates, Lowest

\* The parts of the typing that the steps of a round have to keep.
LEMMA RoundTyped ==
  ASSUME ScoreTyped
  PROVE  /\ NoScores \in Measurements /\ IdleRound \in RoundRecs /\ IdleRound.pc = "rest"
         /\ \A t \in Rounders : round[t].fails \in Nat /\ round[t].side \in Sides
         /\ \A e \in Sides : probeGate[e].fails \in Nat
BY ScoreConstants DEF ScoreTyped, NoScores, Measurements, IdleRound, RoundRecs, RoundSteps, Gates

\* At first there is no round, no tunnel and no debt.
LEMMA ScoreStarts ==
  ScoreInit => ScoreInv
<1> SUFFICES ASSUME ScoreInit
             PROVE  ScoreInv
  OBVIOUS
<1>1. NoScores \in Measurements /\ IdleRound \in RoundRecs /\ IdleRound.pc = "rest"
  BY ScoreConstants DEF NoScores, Measurements, IdleRound, RoundRecs, RoundSteps
<1>2. ScoreTyped
  BY <1>1 DEF ScoreInit, ScoreTyped, Gates
<1>3. RestsFirst /\ MeasuredWereUp
  BY <1>1 DEF ScoreInit, RestsFirst, MeasuredWereUp
<1>4. ProbesContained
  BY DEF ScoreInit, ProbesContained
<1>5. VerdictSound
  BY DEF ScoreInit, VerdictSound, NoRound
<1> QED
  BY <1>2, <1>3, <1>4, <1>5 DEF ScoreInv

\* A round is begun by a task that has no tunnels.
LEMMA PassesGateKeeps ==
  ASSUME ScoreInv, NEW t \in Rounders, NEW e \in Sides, PassesGate(t, e)
  PROVE  ScoreInv'
<1> DEFINE new == [IdleRound EXCEPT !.pc = "record", !.side = e, !.fails = probeGate[e].fails]
<1>1. new \in RoundRecs /\ new.pc = "record"
  BY RoundTyped DEF ScoreInv, RoundRecs, RoundSteps
<1>2. round' = [round EXCEPT ![t] = new] /\ monitor
  BY DEF PassesGate
<1> HIDE DEF new
<1>3. ScoreTyped'
  BY <1>1, <1>2 DEF ScoreInv, ScoreTyped, PassesGate
<1>4. (RestsFirst /\ MeasuredWereUp)'
  BY <1>1, <1>2 DEF ScoreInv, ScoreTyped, RestsFirst, MeasuredWereUp, PassesGate
<1>5. ProbesContained'
  BY <1>1, <1>2 DEF ScoreInv, ScoreTyped, ProbesContained, PassesGate, At
<1>6. VerdictSound'
  BY DEF ScoreInv, VerdictSound, PassesGate
<1> QED
  BY <1>3, <1>4, <1>5, <1>6 DEF ScoreInv

\* The attempt is paid for in the step that spawns the tunnels.
LEMMA SpawnsKeeps ==
  ASSUME ScoreInv, NEW t \in Rounders, SpawnsTunnels(t)
  PROVE  ScoreInv'
<1> DEFINE cost == Attempt(round[t].fails + 1)  s == round[t].side
<1>1. cost \in Gates /\ cost.fails > 0 /\ s \in Sides
  BY RoundTyped, AttemptTyped DEF ScoreInv
<1>2. /\ probeGate' = [probeGate EXCEPT ![s] = cost] /\ owed' = owed \cup {s}
      /\ tunnels' = tunnels \cup ({t} \X Transports)
      /\ round' = [round EXCEPT ![t].pc = "wait"]
      /\ UNCHANGED <<judged, refused, lastRound, monitor>> /\ round[t].pc = "record"
  BY DEF SpawnsTunnels, At
<1> HIDE DEF cost, s
<1>3. round' \in [Rounders -> RoundRecs]
  <2> DEFINE moved == [round[t] EXCEPT !.pc = "wait"]
  <2>1. round \in [Rounders -> RoundRecs] /\ round[t] \in RoundRecs
    BY DEF ScoreInv, ScoreTyped
  <2>2. moved \in RoundRecs
    BY <2>1 DEF RoundRecs, RoundSteps
  <2>3. round' = [round EXCEPT ![t] = moved]
    BY <1>2
  <2> HIDE DEF moved
  <2> QED
    BY <2>1, <2>2, <2>3
<1>4. ScoreTyped'
  BY <1>1, <1>2, <1>3 DEF ScoreInv, ScoreTyped
<1>5. (RestsFirst /\ MeasuredWereUp)'
  BY <1>2 DEF ScoreInv, ScoreTyped, RestsFirst, MeasuredWereUp, RoundRecs
<1>6. ProbesContained'
  <2>1. ASSUME monitor, NEW x \in tunnels'
        PROVE  x[1] # "stray" /\ round'[x[1]].pc \in {"wait", "ask", "sample"}
    <3>1. CASE x \in tunnels
      BY <1>2, <2>1, <3>1 DEF ScoreInv, ScoreTyped, ProbesContained, RoundRecs
    <3>2. CASE x \in {t} \X Transports
      BY <1>2, <3>2, ScoreConstants DEF ScoreInv, ScoreTyped, RoundRecs
    <3> QED
      BY <1>2, <2>1, <3>1, <3>2
  <2>2. \A e \in owed' : probeGate'[e].fails > 0
    BY <1>1, <1>2 DEF ScoreInv, ScoreTyped, ProbesContained
  <2> QED
    BY <1>2, <2>1, <2>2 DEF ProbesContained
<1>7. VerdictSound'
  BY <1>2 DEF ScoreInv, VerdictSound
<1> QED
  BY <1>4, <1>5, <1>6, <1>7 DEF ScoreInv

\* Tunnels only end here.
LEMMA RegisterKeeps ==
  ASSUME ScoreInv, NEW t \in Rounders, NEW up \in SUBSET Transports, NEW r \in BOOLEAN,
         TunnelsRegister(t, up, r)
  PROVE  ScoreInv'
<1>1. /\ tunnels' \subseteq tunnels /\ refused' \in BOOLEAN
      /\ round' = [round EXCEPT ![t].pc = "ask", ![t].up = up]
      /\ UNCHANGED <<probeGate, judged, owed, lastRound, monitor>> /\ round[t].pc = "wait"
  BY DEF TunnelsRegister, At, ScoreInv, ScoreTyped
<1>2. round' \in [Rounders -> RoundRecs]
  <2> DEFINE moved == [round[t] EXCEPT !.pc = "ask", !.up = up]
  <2>1. round \in [Rounders -> RoundRecs] /\ round[t] \in RoundRecs
    BY DEF ScoreInv, ScoreTyped
  <2>2. moved \in RoundRecs
    BY <2>1 DEF RoundRecs, RoundSteps
  <2>3. round' = [round EXCEPT ![t] = moved]
    BY <1>1
  <2> HIDE DEF moved
  <2> QED
    BY <2>1, <2>2, <2>3
<1>3. ScoreTyped'
  BY <1>1, <1>2 DEF ScoreInv, ScoreTyped
<1>4. (RestsFirst /\ MeasuredWereUp)'
  BY <1>1 DEF ScoreInv, ScoreTyped, RestsFirst, MeasuredWereUp, RoundRecs
<1>5. ProbesContained'
  BY <1>1 DEF ScoreInv, ScoreTyped, ProbesContained, RoundRecs
<1>6. VerdictSound'
  BY <1>1 DEF ScoreInv, VerdictSound
<1> QED
  BY <1>3, <1>4, <1>5, <1>6 DEF ScoreInv

\* The refusal goes to one of the rounds.
LEMMA RefusalKeeps ==
  ASSUME ScoreInv, NEW t \in Rounders, TakesRefusal(t)
  PROVE  ScoreInv'
<1>1. /\ refused' = FALSE
      /\ round' = [round EXCEPT ![t].pc = "sample", ![t].limited = refused]
      /\ UNCHANGED <<probeGate, judged, owed, tunnels, lastRound, monitor>> /\ round[t].pc = "ask"
  BY DEF TakesRefusal, At
<1>2. round' \in [Rounders -> RoundRecs]
  <2> DEFINE moved == [round[t] EXCEPT !.pc = "sample", !.limited = refused]
  <2>1. round \in [Rounders -> RoundRecs] /\ round[t] \in RoundRecs /\ refused \in BOOLEAN
    BY DEF ScoreInv, ScoreTyped
  <2>2. moved \in RoundRecs
    BY <2>1 DEF RoundRecs, RoundSteps
  <2>3. round' = [round EXCEPT ![t] = moved]
    BY <1>1
  <2> HIDE DEF moved
  <2> QED
    BY <2>1, <2>2, <2>3
<1>3. ScoreTyped'
  BY <1>1, <1>2 DEF ScoreInv, ScoreTyped
<1>4. (RestsFirst /\ MeasuredWereUp)'
  BY <1>1 DEF ScoreInv, ScoreTyped, RestsFirst, MeasuredWereUp, RoundRecs
<1>5. ProbesContained'
  BY <1>1 DEF ScoreInv, ScoreTyped, ProbesContained, RoundRecs
<1>6. VerdictSound'
  BY <1>1 DEF ScoreInv, VerdictSound
<1> QED
  BY <1>3, <1>4, <1>5, <1>6 DEF ScoreInv

\* What did not register has no measurement.
LEMMA MeasuresKeeps ==
  ASSUME ScoreInv, NEW t \in Rounders, NEW got \in Measurements, Measures(t, got)
  PROVE  ScoreInv'
<1>1. /\ tunnels' = tunnels \ ({t} \X Transports)
      /\ round' = [round EXCEPT ![t].pc = "conclude", ![t].got = got]
      /\ \A p \in Transports : got[p] # Unscored => p \in round[t].up
      /\ UNCHANGED <<probeGate, judged, refused, owed, lastRound, monitor>> /\ round[t].pc = "sample"
  BY DEF Measures, At
<1>2. round' \in [Rounders -> RoundRecs]
  <2> DEFINE moved == [round[t] EXCEPT !.pc = "conclude", !.got = got]
  <2>1. round \in [Rounders -> RoundRecs] /\ round[t] \in RoundRecs
    BY DEF ScoreInv, ScoreTyped
  <2>2. moved \in RoundRecs
    BY <2>1 DEF RoundRecs, RoundSteps
  <2>3. round' = [round EXCEPT ![t] = moved]
    BY <1>1
  <2> HIDE DEF moved
  <2> QED
    BY <2>1, <2>2, <2>3
<1>3. ScoreTyped'
  BY <1>1, <1>2 DEF ScoreInv, ScoreTyped
<1>4. RestsFirst'
  BY <1>1 DEF ScoreInv, ScoreTyped, RestsFirst, RoundRecs
<1>5. MeasuredWereUp'
  BY <1>1 DEF ScoreInv, ScoreTyped, MeasuredWereUp, RoundRecs
<1>6. ProbesContained'
  <2>1. ASSUME monitor, NEW x \in tunnels'
        PROVE  x[1] # "stray" /\ round'[x[1]].pc \in {"wait", "ask", "sample"}
    <3>1. x \in tunnels /\ x[1] # "stray" /\ round[x[1]].pc \in {"wait", "ask", "sample"}
      BY <1>1, <2>1 DEF ScoreInv, ProbesContained
    <3>2. x \in Rounders \X Transports /\ x[1] # t
      BY <1>1, <2>1, <3>1 DEF ScoreInv, ScoreTyped
    <3> QED
      BY <1>1, <3>1, <3>2 DEF ScoreInv, ScoreTyped
  <2> QED
    BY <1>1, <2>1 DEF ScoreInv, ProbesContained
<1>7. VerdictSound'
  BY <1>1 DEF ScoreInv, VerdictSound
<1> QED
  BY <1>3, <1>4, <1>5, <1>6, <1>7 DEF ScoreInv

\* The verdict follows from the measurements, and the debt is lifted only when both
\* were made.
LEMMA ConcludesKeeps ==
  ASSUME ScoreInv, NEW t \in Rounders, NEW edge \in Transports \cup {Unscored}, NEW same \in BOOLEAN,
         Concludes(t, edge, same)
  PROVE  ScoreInv'
<1> DEFINE e == round[t].side  got == round[t].got  up == round[t].up
           both == \A p \in Transports : got[p] # Unscored
           mem == IF same THEN Remembered(e, got) ELSE got
           verdict == Verdict(got, up, mem, edge)
           rec == [up |-> up, got |-> got, verdict |-> verdict]
<1>1. /\ judged' = [judged EXCEPT ![e] = Remembered(e, got)]
      /\ lastRound' = [lastRound EXCEPT ![e] = rec]
      /\ round' = [round EXCEPT ![t] = IdleRound] /\ round[t].pc = "conclude"
      /\ UNCHANGED <<refused, tunnels, monitor>>
  BY DEF Concludes, At
<1>2. \/ /\ probeGate' = [probeGate EXCEPT ![e] = Attempt(0)] /\ owed' = owed \ {e}
      \/ probeGate' = [probeGate EXCEPT ![e] = Attempt(round[t].fails + 2)] /\ owed' = owed
      \/ probeGate' = probeGate /\ owed' = owed
  BY DEF Concludes
<1>3. /\ e \in Sides /\ got \in Measurements /\ up \in SUBSET Transports /\ round[t].fails \in Nat
      /\ IdleRound \in RoundRecs /\ IdleRound.pc = "rest"
  BY RoundTyped DEF ScoreInv, ScoreTyped, RoundRecs
<1>4. Remembered(e, got) \in Measurements
  BY <1>3 DEF Remembered, Measurements, ScoreInv, ScoreTyped
<1>5. mem \in Measurements
  BY <1>3, <1>4
<1>6. \A p \in Transports : got[p] # Unscored => p \in up
  BY <1>1 DEF ScoreInv, MeasuredWereUp
<1>7. /\ Attempt(0) \in Gates /\ Attempt(round[t].fails + 2) \in Gates
      /\ Attempt(round[t].fails + 2).fails > 0
  BY <1>3, AttemptTyped
<1> HIDE DEF mem, e, got, up
<1>8. \A p, o : /\ p = verdict /\ p # Unscored /\ o = (IF p = "quic" THEN "http2" ELSE "quic")
                => /\ ~(got[p] # Unscored /\ got[o] # Unscored /\ ClearlyBetter(got[o], got[p]))
                   /\ ~(p \notin up /\ got[o] # Unscored)
  BY <1>3, <1>5, <1>6, VerdictFollows
<1>9. ScoreTyped'
  BY <1>1, <1>2, <1>3, <1>4, <1>7 DEF ScoreInv, ScoreTyped
<1>10. (RestsFirst /\ MeasuredWereUp)'
  BY <1>1, <1>3 DEF ScoreInv, ScoreTyped, RestsFirst, MeasuredWereUp
<1>11. ProbesContained'
  <2>1. ASSUME monitor, NEW x \in tunnels
        PROVE  x[1] # "stray" /\ round'[x[1]].pc \in {"wait", "ask", "sample"}
    <3>1. x[1] # t /\ x[1] # "stray" /\ round[x[1]].pc \in {"wait", "ask", "sample"}
      BY <1>1, <2>1 DEF ScoreInv, ProbesContained
    <3>2. x[1] \in Rounders
      BY <2>1, <3>1 DEF ScoreInv, ScoreTyped
    <3> QED
      BY <1>1, <3>1, <3>2 DEF ScoreInv, ScoreTyped
  <2>2. \A i \in owed' : probeGate'[i].fails > 0
    BY <1>2, <1>3, <1>7 DEF ScoreInv, ScoreTyped, ProbesContained
  <2> QED
    BY <1>1, <2>1, <2>2 DEF ProbesContained
<1>12. VerdictSound'
  <2> SUFFICES ASSUME NEW i \in Sides, NEW p, NEW o, p = lastRound'[i].verdict, p # Unscored,
                      o = (IF p = "quic" THEN "http2" ELSE "quic")
               PROVE  /\ ~(lastRound'[i].got[p] # Unscored /\ lastRound'[i].got[o] # Unscored
                              /\ ClearlyBetter(lastRound'[i].got[o], lastRound'[i].got[p]))
                      /\ ~(p \notin lastRound'[i].up /\ lastRound'[i].got[o] # Unscored)
    BY DEF VerdictSound
  <2>1. CASE i = e
    <3>1. lastRound'[i] = rec
      BY <1>1, <2>1 DEF ScoreInv, ScoreTyped
    <3>2. lastRound'[i].got = got /\ lastRound'[i].up = up /\ p = verdict
      BY <3>1
    <3> QED
      BY <1>8, <3>2
  <2>2. CASE i # e
    <3>1. lastRound'[i] = lastRound[i]
      BY <1>1, <2>2 DEF ScoreInv, ScoreTyped
    <3> QED
      BY <3>1 DEF ScoreInv, VerdictSound
  <2> QED
    BY <2>1, <2>2
<1> QED
  BY <1>9, <1>10, <1>11, <1>12 DEF ScoreInv

\* Time passes: a wait ends, a score is too old; the failures stay.
LEMMA TimeKeeps ==
  ASSUME ScoreInv, NEW e \in Sides, GateOpens(e) \/ ScoresAge(e)
  PROVE  ScoreInv'
<1>1. CASE GateOpens(e)
  <2>1. /\ probeGate' = [probeGate EXCEPT ![e].open = TRUE]
        /\ UNCHANGED <<judged, refused, round, tunnels, lastRound, monitor, owed>>
    BY <1>1 DEF GateOpens
  <2>2. ScoreTyped'
    BY <2>1 DEF ScoreInv, ScoreTyped, Gates
  <2>3. (RestsFirst /\ MeasuredWereUp /\ ProbesContained)'
    BY <2>1 DEF ScoreInv, ScoreTyped, RestsFirst, MeasuredWereUp, ProbesContained, Gates
  <2>4. VerdictSound'
    BY <2>1 DEF ScoreInv, VerdictSound
  <2> QED
    BY <2>2, <2>3, <2>4 DEF ScoreInv
<1>2. CASE ScoresAge(e)
  <2>1. /\ judged' = [judged EXCEPT ![e] = NoScores]
        /\ UNCHANGED <<probeGate, refused, round, tunnels, lastRound, monitor, owed>>
    BY <1>2 DEF ScoresAge
  <2>2. ScoreTyped'
    BY <2>1, RoundTyped DEF ScoreInv, ScoreTyped
  <2>3. (RestsFirst /\ MeasuredWereUp /\ ProbesContained)'
    BY <2>1 DEF ScoreInv, RestsFirst, MeasuredWereUp, ProbesContained
  <2>4. VerdictSound'
    BY <2>1 DEF ScoreInv, VerdictSound
  <2> QED
    BY <2>2, <2>3, <2>4 DEF ScoreInv
<1> QED
  BY <1>1, <1>2

\* sniffbox ends, and its tunnels are reaped before anything is started.
LEMMA RestartKeeps ==
  ASSUME ScoreInv, Crash \/ MonitorStarts
  PROVE  ScoreInv'
<1>1. CASE Crash
  <2>1. /\ monitor' = FALSE /\ tunnels' = {"stray"} \X {x[2] : x \in tunnels} /\ refused' = FALSE
        /\ round' = [t \in Rounders |-> IdleRound] /\ lastRound' = [e \in Sides |-> NoRound]
        /\ UNCHANGED <<probeGate, judged, owed>>
    BY <1>1 DEF Crash
  <2>2. IdleRound \in RoundRecs /\ IdleRound.pc = "rest"
    BY RoundTyped DEF ScoreInv
  <2>3. \A x \in tunnels : x[2] \in Transports
    BY DEF ScoreInv, ScoreTyped
  <2>4. tunnels' \subseteq (Rounders \cup {"stray"}) \X Transports
    BY <2>1, <2>3
  <2>5. ScoreTyped'
    BY <2>1, <2>2, <2>4 DEF ScoreInv, ScoreTyped
  <2>6. (RestsFirst /\ MeasuredWereUp /\ ProbesContained)'
    BY <2>1, <2>2 DEF ScoreInv, RestsFirst, MeasuredWereUp, ProbesContained
  <2>7. VerdictSound'
    BY <2>1 DEF VerdictSound, NoRound
  <2> QED
    BY <2>5, <2>6, <2>7 DEF ScoreInv
<1>2. CASE MonitorStarts
  <2>1. /\ monitor' = TRUE /\ tunnels' = {}
        /\ UNCHANGED <<probeGate, judged, refused, round, lastRound, owed>>
    BY <1>2 DEF MonitorStarts
  <2>2. ScoreTyped'
    BY <2>1 DEF ScoreInv, ScoreTyped
  <2>3. (RestsFirst /\ MeasuredWereUp /\ ProbesContained)'
    BY <2>1 DEF ScoreInv, RestsFirst, MeasuredWereUp, ProbesContained
  <2>4. VerdictSound'
    BY <2>1 DEF ScoreInv, VerdictSound
  <2> QED
    BY <2>2, <2>3, <2>4 DEF ScoreInv
<1> QED
  BY <1>1, <1>2

\* Every step of the scoring keeps its invariant.
LEMMA ScoreSteps ==
  ScoreInv /\ [ScoreNext]_scoreVars => ScoreInv'
<1> SUFFICES ASSUME ScoreInv, [ScoreNext]_scoreVars
             PROVE  ScoreInv'
  OBVIOUS
<1>1. ASSUME NEW t \in Rounders, RoundStep(t)
      PROVE  ScoreInv'
  <2>1. CASE SpawnsTunnels(t)
    BY <2>1, SpawnsKeeps
  <2>2. CASE TakesRefusal(t)
    BY <2>2, RefusalKeeps
  <2>3. CASE \E up \in SUBSET Transports, r \in BOOLEAN : TunnelsRegister(t, up, r)
    BY <2>3, RegisterKeeps
  <2>4. CASE \E got \in [Transports -> Scores \cup {Unscored}] : Measures(t, got)
    BY <2>4, MeasuresKeeps DEF Measurements
  <2>5. CASE \E edge \in Transports \cup {Unscored}, same \in BOOLEAN : Concludes(t, edge, same)
    BY <2>5, ConcludesKeeps
  <2> QED
    BY <1>1, <2>1, <2>2, <2>3, <2>4, <2>5 DEF RoundStep
<1>2. ASSUME NEW t \in Rounders, NEW e \in Sides, PassesGate(t, e)
      PROVE  ScoreInv'
  BY <1>2, PassesGateKeeps
<1>3. ASSUME NEW e \in Sides, GateOpens(e) \/ ScoresAge(e)
      PROVE  ScoreInv'
  BY <1>3, TimeKeeps
<1>4. CASE Crash \/ MonitorStarts
  BY <1>4, RestartKeeps
<1>5. CASE UNCHANGED scoreVars
  BY <1>5 DEF scoreVars, ScoreInv, ScoreTyped, RestsFirst, MeasuredWereUp, ProbesContained, VerdictSound
<1> QED
  BY <1>1, <1>2, <1>3, <1>4, <1>5 DEF ScoreNext

\* Whatever rounds overlap and whenever sniffbox ends: no tunnel without its round, no
\* attempt that is not paid for, no verdict against the measurements.
THEOREM ScoringSound ==
  ScoreInit /\ [][ScoreNext]_scoreVars => []RoundsSound
<1>1. ScoreInv => RoundsSound
  BY DEF ScoreInv, RoundsSound
<1> QED
  BY <1>1, ScoreStarts, ScoreSteps, PTL

-----------------------------------------------------------------------------
(***************************************************************************)
(* ClashCtl and GeoUpdate.  Only one process is ever seen as clash, the    *)
(* last that was started, and the supervisor knows it; an update goes from *)
(* the feed to the log by a release that only grows.                       *)
(***************************************************************************)
ClashTyped ==
  /\ proc \in [ClashPids -> {"none", "run", "dying", "gone"}]
  /\ pidSlot \in ClashPids \cup {NoPid} /\ sup \in {"free", "spawn", "flush", "wait"}
  /\ idle \subseteq ClashPids /\ outlived \subseteq ClashPids /\ astray \in BOOLEAN

\* Pids are used in order.
InOrder == \A p, q \in ClashPids : p < q /\ proc[q] # "none" => proc[p] # "none"

\* Whatever is seen as clash and did not outlive its five seconds is what the supervisor
\* knows, and the last that was started; so are the idle connections', until a spawn and
\* the flush that follows it.  What outlived them was told to end.
OneKnown ==
  /\ \A p \in outlived : proc[p] \in {"dying", "gone"}
  /\ sup = "wait" => pidSlot \in ClashPids /\ proc[pidSlot] \in {"dying", "gone"}
  /\ ~astray =>
       /\ \A p \in ClashPids \ outlived :
            IsClash(p) => /\ sup # "spawn" /\ pidSlot = p
                          /\ sup = "wait" => proc[p] = "dying"
                          /\ \A q \in ClashPids : proc[q] # "none" => q <= p
       /\ sup # "flush" => \A p \in idle \ outlived, q \in ClashPids : proc[q] # "none" => q <= p

ClashInv == ClashTyped /\ InOrder /\ OneKnown

\* What is known to the supervisor is the only one that is meant to run.
LEMMA ClashInvSuffices ==
  ASSUME ClashInv
  PROVE  OneClash
BY CtlConstants DEF ClashInv, OneKnown, OneClash, IsClash, ClashPids

\* At the start there is no clash, or the one that ppgw.sh left.
LEMMA ClashStarts ==
  ClashInit => ClashInv
<1> SUFFICES ASSUME NEW up \in BOOLEAN,
                    proc = [p \in ClashPids |-> IF up /\ p = 1 THEN "run" ELSE "none"],
                    pidSlot = IF up THEN 1 ELSE NoPid,
                    sup = "free", idle = {}, outlived = {}, astray = FALSE
             PROVE  ClashInv
  BY DEF ClashInit
<1>1. 1 \in ClashPids /\ NoPid \notin ClashPids /\ \A p \in ClashPids : p \in Nat /\ p >= 1
  BY CtlConstants DEF ClashPids
<1>2. \A p \in ClashPids : proc[p] # "none" => p = 1 /\ up
  OBVIOUS
<1>3. ClashTyped
  BY <1>1 DEF ClashTyped
<1>4. InOrder
  BY <1>1, <1>2 DEF InOrder
<1>5. OneKnown
  BY <1>1, <1>2 DEF OneKnown, IsClash
<1> QED
  BY <1>3, <1>4, <1>5 DEF ClashInv

\* A new process is the last one, and is known at once.
LEMMA SpawnsKeepsOne ==
  ASSUME ClashInv, Spawns
  PROVE  ClashInv'
<1>1. PICK p \in FreshPids : proc' = [proc EXCEPT ![p] = "run"] /\ pidSlot' = p
  BY DEF Spawns
<1>2. /\ p \in ClashPids /\ proc[p] = "none" /\ p \in Nat /\ p # NoPid
      /\ \A q \in ClashPids : q < p => proc[q] # "none"
  BY CtlConstants DEF FreshPids, ClashPids
<1>3. \A q \in ClashPids : proc[q] # "none" => q < p
  BY <1>2 DEF ClashInv, InOrder, ClashPids
<1>4. sup = "spawn" /\ sup' = "flush" /\ UNCHANGED <<idle, outlived, astray>>
  BY DEF Spawns
<1>5. ClashTyped'
  BY <1>1, <1>2, <1>4 DEF ClashInv, ClashTyped
<1>6. InOrder'
  BY <1>1, <1>2, <1>3 DEF ClashInv, ClashTyped, InOrder, ClashPids
<1>7. OneKnown'
  <2>1. ASSUME ~astray, NEW i \in ClashPids \ outlived, IsClash(i)'
        PROVE  i = p
    <3>1. IsClash(i) => FALSE
      BY <1>4, <2>1 DEF ClashInv, OneKnown
    <3> QED
      BY <1>1, <2>1, <3>1 DEF IsClash, ClashInv, ClashTyped
  <2>2. \A q \in ClashPids : proc'[q] # "none" => q <= p
    BY <1>1, <1>2, <1>3 DEF ClashPids, ClashInv, ClashTyped
  <2>3. \A q \in outlived' : proc'[q] \in {"dying", "gone"}
    BY <1>1, <1>2, <1>4 DEF ClashInv, ClashTyped, OneKnown
  <2> QED
    BY <1>1, <1>4, <2>1, <2>2, <2>3 DEF OneKnown
<1> QED
  BY <1>5, <1>6, <1>7 DEF ClashInv

\* The other steps of the supervisor start nothing.
LEMMA SupMovesKeepOne ==
  ASSUME ClashInv, SpawnFails \/ Flushes \/ WaitGone \/ EnsureUp
  PROVE  ClashInv'
<1>1. CASE SpawnFails
  BY <1>1 DEF SpawnFails, ClashInv, ClashTyped, InOrder, OneKnown, IsClash
<1>2. CASE Flushes
  BY <1>2 DEF Flushes, ClashInv, ClashTyped, InOrder, OneKnown, IsClash
<1>3. CASE WaitGone
  <2>1. ClashTyped' /\ InOrder' /\ proc' = proc /\ sup = "wait" /\ idle' = idle
    BY <1>3 DEF WaitGone, ClashInv, ClashTyped, InOrder, IsClash
  <2>2. astray' = astray /\ outlived' = outlived \cup {p \in {pidSlot} : IsClash(p)}
    BY <1>3 DEF WaitGone
  <2>3. OneKnown'
    <3>1. ASSUME ~astray, NEW p \in ClashPids \ outlived'
          PROVE  ~IsClash(p)
      BY <2>2, <3>1 DEF ClashInv, OneKnown
    <3>2. \A p \in outlived' : proc[p] \in {"dying", "gone"}
      BY <2>1, <2>2 DEF ClashInv, OneKnown
    <3>3. sup' = "spawn"
      BY <1>3 DEF WaitGone
    <3> QED
      BY <2>1, <2>2, <3>1, <3>2, <3>3 DEF OneKnown, IsClash, ClashInv
  <2> QED
    BY <2>1, <2>3 DEF ClashInv
<1>4. CASE EnsureUp
  <2>1. /\ UNCHANGED <<proc, idle, outlived, astray>> /\ sup = "free" /\ ~IsClash(pidSlot)
        /\ \/ pidSlot' \in FoundClash /\ sup' = "free"
           \/ FoundClash = {} /\ pidSlot' = pidSlot /\ sup' = "spawn"
    BY <1>4 DEF EnsureUp
  <2>2. ClashTyped' /\ InOrder'
    BY <2>1 DEF ClashInv, ClashTyped, InOrder, FoundClash
  <2>3. ~astray => \A p \in ClashPids \ outlived : ~IsClash(p)
    BY <2>1 DEF ClashInv, OneKnown
  <2>4. OneKnown'
    BY <2>1, <2>3 DEF ClashInv, OneKnown, IsClash
  <2> QED
    BY <2>2, <2>4 DEF ClashInv
<1> QED
  BY <1>1, <1>2, <1>3, <1>4

\* A restart's signals leave no process running.
LEMMA RestartKeepsOne ==
  ASSUME ClashInv, RestartBegins
  PROVE  /\ ClashInv'
         /\ ~astray => \A p \in ClashPids : proc'[p] # "run"
<1>1. PICK p \in RestartTarget :
        \/ IsClash(p) /\ proc' = [proc EXCEPT ![p] = "dying"] /\ pidSlot' = p /\ sup' = "wait"
        \/ ~IsClash(p) /\ pidSlot' = NoPid /\ sup' = "spawn" /\ proc' = proc
  BY DEF RestartBegins
<1>2. sup = "free" /\ UNCHANGED <<idle, outlived, astray>>
  BY DEF RestartBegins
<1>3. p \in ClashPids \cup {NoPid} /\ NoPid \notin ClashPids
  BY CtlConstants DEF RestartTarget, FoundClash, ClashInv, ClashTyped, ClashPids
<1>4. ~astray => \A i \in ClashPids \ outlived : IsClash(i) => i = p
  BY <1>3 DEF RestartTarget, FoundClash, ClashInv, OneKnown
<1>5. ClashTyped'
  BY <1>1, <1>2, <1>3 DEF ClashInv, ClashTyped, IsClash
<1>6. InOrder'
  BY <1>1, <1>3 DEF ClashInv, ClashTyped, InOrder, IsClash
<1>7. \A i \in ClashPids : (IsClash(i)' => IsClash(i)) /\ (proc'[i] # "none" => proc[i] # "none")
  BY <1>1, <1>3 DEF IsClash, ClashInv, ClashTyped
<1>8. OneKnown'
  <2>1. ASSUME ~astray, NEW i \in ClashPids \ outlived, IsClash(i)'
        PROVE  sup' # "spawn" /\ pidSlot' = i /\ (sup' = "wait" => proc'[i] = "dying")
    BY <1>1, <1>3, <1>4, <1>7, <2>1 DEF ClashInv, ClashTyped
  <2>2. /\ \A i \in outlived' : proc'[i] \in {"dying", "gone"}
        /\ sup' = "wait" => pidSlot' \in ClashPids /\ proc'[pidSlot'] \in {"dying", "gone"}
    BY <1>1, <1>2, <1>3 DEF ClashInv, ClashTyped, OneKnown, IsClash
  <2> QED
    BY <1>2, <1>7, <2>1, <2>2 DEF OneKnown, ClashInv
<1>9. ASSUME ~astray, NEW i \in ClashPids
      PROVE  proc'[i] # "run"
  <2>1. CASE i \in outlived
    BY <1>1, <1>3, <2>1 DEF ClashInv, ClashTyped, OneKnown
  <2>2. CASE i \notin outlived
    BY <1>1, <1>3, <1>4, <1>9, <2>2 DEF ClashInv, ClashTyped, IsClash
  <2> QED
    BY <2>1, <2>2
<1> QED
  BY <1>5, <1>6, <1>8, <1>9 DEF ClashInv

\* A process dies, a connection idles, ppgw.sh starts or replaces one.
LEMMA AroundKeepsOne ==
  ASSUME ClashInv, ClashSurroundings \/ ClashAdopted
  PROVE  ClashInv'
<1>0. NoPid \notin ClashPids
  BY CtlConstants DEF ClashPids
<1>1. ASSUME NEW p \in ClashPids, ClashExits(p) \/ ScriptKills(p)
      PROVE  ClashInv'
  <2>1. PICK s \in {"dying", "gone"} : proc' = [proc EXCEPT ![p] = s]
    BY <1>1 DEF ClashExits, ScriptKills
  <2>2. UNCHANGED <<pidSlot, sup, idle, outlived, astray>> /\ IsClash(p) /\ (s = "dying" => proc[p] = "run")
    BY <1>0, <1>1, <2>1 DEF ClashExits, ScriptKills, IsClash, ClashInv, ClashTyped
  <2>3. ClashTyped' /\ InOrder'
    BY <2>1, <2>2 DEF ClashInv, ClashTyped, InOrder, IsClash
  <2>4. \A i \in ClashPids : (IsClash(i)' => IsClash(i)) /\ (proc'[i] # "none" => proc[i] # "none")
                              /\ (proc[i] = "dying" /\ IsClash(i)' => proc'[i] = "dying")
    BY <2>1, <2>2 DEF IsClash, ClashInv, ClashTyped
  <2>5. \A i \in ClashPids : proc[i] \in {"dying", "gone"} => proc'[i] \in {"dying", "gone"}
    BY <2>1 DEF ClashInv, ClashTyped
  <2>6. OneKnown'
    BY <2>2, <2>4, <2>5 DEF ClashInv, ClashTyped, OneKnown
  <2> QED
    BY <2>3, <2>6 DEF ClashInv
<1>2. ASSUME NEW p \in ClashPids, PoolConnects(p)
      PROVE  ClashInv'
  BY <1>2 DEF PoolConnects, ClashInv, ClashTyped, InOrder, OneKnown, IsClash
<1>3. CASE ClashAdopted
  <2>1. /\ sup' = "free" /\ idle' = {} /\ UNCHANGED <<proc, outlived>>
        /\ astray' = (astray \/ (pidSlot' \in outlived /\ FoundClash \ outlived # {}))
        /\ (FoundClash = {} /\ pidSlot' = NoPid) \/ (FoundClash # {} /\ pidSlot' \in FoundClash)
    BY <1>3 DEF ClashAdopted
  <2>2. ClashTyped' /\ InOrder'
    BY <2>1 DEF ClashInv, ClashTyped, InOrder, FoundClash
  <2>3. \A p \in ClashPids : IsClash(p)' <=> IsClash(p)
    BY <2>1 DEF IsClash
  <2>4. ASSUME ~astray', NEW p \in ClashPids \ outlived, IsClash(p)
        PROVE  pidSlot' = p /\ \A q \in ClashPids : proc[q] # "none" => q <= p
    <3>1. p \in FoundClash \ outlived /\ pidSlot' \in FoundClash \ outlived /\ ~astray
      BY <2>1, <2>4 DEF FoundClash
    <3> QED
      BY <3>1 DEF ClashInv, OneKnown, FoundClash
  <2>5. OneKnown'
    BY <2>1, <2>3, <2>4 DEF ClashInv, OneKnown
  <2> QED
    BY <2>2, <2>5 DEF ClashInv
<1> QED
  BY <1>1, <1>2, <1>3 DEF ClashSurroundings

(***************************************************************************)
(* GeoUpdate.                                                              *)
(***************************************************************************)
JobRecs == [st : {"todo", "kept", "right", "get", "got"}, sha : Nat \cup {Nothing}, lag : BOOLEAN]
UpdRecs == [pc : {"rest", "feed", "files", "restart", "restarting"}, rv : Nat \cup {Nothing}, timer : BOOLEAN]

GeoTyped ==
  /\ release \in Nat /\ disk \in [GeoFiles -> Nat] /\ updateLog \in [GeoFiles -> Nat]
  /\ upd \in UpdRecs /\ job \in [GeoFiles -> JobRecs]
  /\ DOMAIN loadedGeo = ClashPids
  /\ clock \in [day : Nat, hour : BOOLEAN] /\ marker \in Nat /\ fired \in [1 .. MaxDays -> Nat]
  /\ ends \in Nat

\* Releases grow: nothing is ahead of the feed, what was asked of a source that does not
\* lag is not before what the feed had said, and so is the data that was taken from it.
Grows ==
  /\ upd.rv # Nothing => upd.rv <= release
  /\ upd.pc # "files" => \A f \in GeoFiles : job[f].st = "todo"
  /\ \A f \in GeoFiles :
       /\ updateLog[f] <= release /\ disk[f] <= release
       /\ f \in lagged \/ updateLog[f] <= disk[f]
       /\ job[f].st = "get" =>
            /\ job[f].sha \in Nat /\ job[f].sha <= release
            /\ job[f].lag \/ updateLog[f] <= job[f].sha
            /\ job[f].lag \/ upd.rv = Nothing \/ upd.rv <= job[f].sha
       /\ job[f].st \in {"right", "got"} => f \in lagged \/ upd.rv = Nothing \/ upd.rv <= disk[f]

\* The timer has not fired on a day that is to come, nor today without its mark.
FiredOnce ==
  \A d \in 1 .. MaxDays : /\ fired[d] <= 1
                          /\ d > clock.day \/ (d = clock.day /\ marker # d) => fired[d] = 0

\* A clash that runs has loaded what is on disk, except between a download and the
\* restart that the download calls for.
Fresh ==
  ends = 0 /\ upd.pc # "restart" /\ ~(upd.pc = "files" /\ Changed) =>
    \A p \in ClashPids : proc[p] = "run" => loadedGeo[p] = disk

\* Only what an earlier sniffbox left can lead the supervisor astray.
OwnClash == astray => ends # 0

GeoInv == ClashInv /\ GeoTyped /\ Grows /\ FiredOnce /\ OwnClash /\ Fresh

\* What is invariant says what the property says.
LEMMA GeoInvSuffices ==
  ASSUME GeoInv
  PROVE  ClashSafe
<1>1. OneClash
  BY ClashInvSuffices DEF GeoInv
<1>2. LogNotAhead
  BY DEF GeoInv, Grows, FiredOnce, LogNotAhead
<1>3. LoadedWhatIsOnDisk
  BY DEF GeoInv, Fresh, LoadedWhatIsOnDisk
<1> QED
  BY <1>1, <1>2, <1>3 DEF ClashSafe

\* At the start nothing is known, loaded or under way.
LEMMA GeoStarts ==
  GeoInit => GeoInv
<1> SUFFICES ASSUME GeoInit
             PROVE  GeoInv
  OBVIOUS
<1>1. ClashInv
  BY ClashStarts DEF GeoInit
<1>2. GeoTyped
  BY GeoConstants DEF GeoInit, GeoTyped, JobRecs, UpdRecs, NoUpdate, Unasked
<1>3. Grows
  BY DEF GeoInit, Grows, Unasked, NoUpdate
<1>4. FiredOnce
  BY DEF GeoInit, FiredOnce
<1>5. OwnClash /\ Fresh
  BY DEF GeoInit, ClashInit, OwnClash, Fresh
<1> QED
  BY <1>1, <1>2, <1>3, <1>4, <1>5 DEF GeoInv

\* What is about the supervisor alone is kept by the steps that leave it alone.
LEMMA ClashAlone ==
  ASSUME ClashInv, UNCHANGED clashVars
  PROVE  ClashInv'
BY DEF clashVars, ClashInv, ClashTyped, InOrder, OneKnown, IsClash

\* The steps before the files: a request, the timer, the feed.
LEMMA AskedKeeps ==
  ASSUME GeoInv, WebUpdates \/ TimerFires \/ AsksVersion
  PROVE  GeoInv'
<1>1. UNCHANGED <<clashVars, release, disk, updateLog, job, lagged, loadedGeo, clock, ends>>
  BY DEF WebUpdates, TimerFires, AsksVersion, Asking
<1>2. /\ upd.pc \in {"rest", "feed"} /\ upd'.pc \in {"feed", "files"} /\ upd' \in UpdRecs
      /\ upd'.rv # Nothing => upd'.rv <= release
  <2>1. release \in Nat /\ upd \in UpdRecs
    BY DEF GeoInv, GeoTyped
  <2>2. CASE WebUpdates \/ TimerFires
    BY <2>2 DEF WebUpdates, TimerFires, NoUpdate, UpdRecs
  <2>3. CASE AsksVersion
    <3>1. PICK v \in {release, Nothing} : upd' = [upd EXCEPT !.pc = "files", !.rv = v]
      BY <2>3 DEF AsksVersion
    <3>2. upd.pc = "feed" /\ v \in Nat \cup {Nothing} /\ (v # Nothing => v <= release)
      BY <2>1, <2>3 DEF AsksVersion
    <3>3. upd' \in UpdRecs /\ upd'.pc = "files" /\ upd'.rv = v
      BY <2>1, <3>1, <3>2 DEF UpdRecs
    <3> QED
      BY <3>2, <3>3
  <2> QED
    BY <2>2, <2>3
<1>3. \/ UNCHANGED <<marker, fired>>
      \/ marker' = clock.day /\ marker # clock.day /\ fired' = [fired EXCEPT ![clock.day] = @ + 1]
  BY DEF WebUpdates, TimerFires, AsksVersion, Asking, ShouldFire
<1>4. ClashInv'
  BY <1>1, ClashAlone DEF GeoInv
<1>5. GeoTyped'
  BY <1>1, <1>2, <1>3 DEF GeoInv, GeoTyped
<1>6. Grows'
  BY <1>1, <1>2 DEF GeoInv, Grows
<1>7. FiredOnce'
  <2>1. clock.day \in Nat /\ fired \in [1 .. MaxDays -> Nat]
    BY DEF GeoInv, GeoTyped
  <2>2. CASE UNCHANGED <<marker, fired>>
    BY <1>1, <2>2 DEF GeoInv, FiredOnce
  <2>3. CASE marker' = clock.day /\ marker # clock.day /\ fired' = [fired EXCEPT ![clock.day] = @ + 1]
    <3>1. \A d \in 1 .. MaxDays : fired'[d] = IF d = clock.day THEN fired[d] + 1 ELSE fired[d]
      BY <2>1, <2>3
    <3> QED
      BY <1>1, <2>3, <3>1 DEF GeoInv, FiredOnce
  <2> QED
    BY <1>3, <2>2, <2>3
<1>8. OwnClash' /\ Fresh'
  <2>1. ~Changed
    BY <1>2 DEF GeoInv, Grows, Changed
  <2> QED
    BY <1>1, <1>2, <2>1 DEF GeoInv, OwnClash, Fresh, clashVars
<1> QED
  BY <1>4, <1>5, <1>6, <1>7, <1>8 DEF GeoInv

\* A file is asked for after the feed: what a source that does not lag says is of the
\* feed's release or of a later one.
LEMMA AsksShaKeeps ==
  ASSUME GeoInv, NEW f \in GeoFiles, AsksSha(f)
  PROVE  GeoInv'
<1>1. /\ UNCHANGED <<clashVars, release, disk, updateLog, upd, loadedGeo, clock, marker, fired, ends>>
      /\ upd.pc = "files" /\ job[f].st = "todo"
  BY DEF AsksSha, Asking
<1>2. /\ job \in [GeoFiles -> JobRecs] /\ disk \in [GeoFiles -> Nat] /\ updateLog \in [GeoFiles -> Nat]
      /\ release \in Nat /\ upd \in UpdRecs
  BY DEF GeoInv, GeoTyped
<1>3. /\ job' \in [GeoFiles -> JobRecs] /\ \A i \in GeoFiles : i # f => job'[i] = job[i]
      /\ \A i \in GeoFiles : i # f => (i \in lagged' <=> i \in lagged)
      /\ \/ job'[f].st = "kept" /\ lagged' = lagged
         \/ job'[f].st = "right" /\ (f \in lagged' \/ disk[f] = release)
         \/ /\ job'[f].st = "get" /\ job'[f].sha \in Nat /\ job'[f].sha <= release /\ lagged' = lagged
            /\ job'[f].lag \/ job'[f].sha = release
  <2>1. CASE job' = Outcome(f, "kept") /\ UNCHANGED lagged
    BY <1>2, <2>1 DEF Outcome, Unasked, JobRecs
  <2>2. ASSUME NEW r \in 1 .. release, job' = [job EXCEPT ![f] = Announced(f, r)],
               lagged' = IF disk[f] = r THEN Marked(f, r < release) ELSE lagged
        PROVE  /\ Announced(f, r) \in JobRecs
               /\ \A i \in GeoFiles : i # f => (i \in lagged' <=> i \in lagged)
               /\ \/ Announced(f, r).st = "right" /\ (f \in lagged' \/ disk[f] = release)
                  \/ /\ Announced(f, r).st = "get" /\ Announced(f, r).sha = r /\ lagged' = lagged
                     /\ Announced(f, r).lag \/ r = release
    <3>1. CASE disk[f] = r
      <4>1. Announced(f, r) = [st |-> "right", sha |-> Nothing, lag |-> FALSE]
        BY <3>1 DEF Announced, Unasked
      <4>2. lagged' = IF r < release THEN lagged \cup {f} ELSE lagged \ {f}
        BY <2>2, <3>1 DEF Marked
      <4>3. r < release \/ r = release
        BY <1>2
      <4> QED
        BY <3>1, <4>1, <4>2, <4>3 DEF JobRecs
    <3>2. CASE disk[f] # r
      <4>1. Announced(f, r) = [st |-> "get", sha |-> r, lag |-> r < release] /\ lagged' = lagged
        BY <2>2, <3>2 DEF Announced
      <4>2. (r < release) \in BOOLEAN /\ r \in Nat /\ (r < release \/ r = release)
        BY <1>2
      <4>3. Announced(f, r).st = "get" /\ Announced(f, r).sha = r
        BY <4>1
      <4>4. Announced(f, r).lag \/ r = release
        <5>1. ASSUME r < release
              PROVE  Announced(f, r) = [st |-> "get", sha |-> r, lag |-> TRUE]
          <6>1. (r < release) = TRUE
            BY <5>1
          <6> QED
            BY <4>1, <6>1
        <5>2. CASE r < release
          BY <5>1, <5>2
        <5> QED
          BY <4>2, <5>2
      <4>5. Announced(f, r) \in JobRecs
        BY <4>1, <4>2 DEF JobRecs
      <4> QED
        BY <2>2, <3>2, <4>1, <4>3, <4>5, <4>4 DEF Marked
    <3> QED
      BY <3>1, <3>2
  <2>3. ASSUME NEW r \in 1 .. release, job' = [job EXCEPT ![f] = Announced(f, r)],
               lagged' = IF disk[f] = r THEN Marked(f, r < release) ELSE lagged
        PROVE  /\ job' \in [GeoFiles -> JobRecs] /\ \A i \in GeoFiles : i # f => job'[i] = job[i]
               /\ job'[f] = Announced(f, r) /\ r \in Nat /\ r <= release
    <3>1. Announced(f, r) \in JobRecs
      BY <2>2, <2>3
    <3> QED
      BY <1>2, <2>3, <3>1
  <2> QED
    BY <2>1, <2>2, <2>3 DEF AsksSha
<1>4. ClashInv'
  BY <1>1, ClashAlone DEF GeoInv
<1>5. GeoTyped'
  BY <1>1, <1>3 DEF GeoInv, GeoTyped
<1>6. Grows'
  <2>1. /\ upd.rv # Nothing => upd.rv <= release
        /\ \A i \in GeoFiles : updateLog[i] <= release /\ disk[i] <= release
    BY DEF GeoInv, Grows
  <2>2. upd.rv = Nothing \/ upd.rv \in Nat
    BY <1>2 DEF UpdRecs
  <2> QED
    BY <1>1, <1>2, <1>3, <2>1, <2>2 DEF GeoInv, Grows
<1>7. FiredOnce'
  BY <1>1 DEF GeoInv, FiredOnce
<1>8. OwnClash' /\ Fresh'
  <2>1. Changed' <=> Changed
    BY <1>1, <1>3 DEF Changed
  <2> QED
    BY <1>1, <2>1 DEF GeoInv, OwnClash, Fresh, clashVars
<1> QED
  BY <1>4, <1>5, <1>6, <1>7, <1>8 DEF GeoInv

\* A body is taken by its hash, and makes the data that clash has loaded stale.
LEMMA DownloadsKeeps ==
  ASSUME GeoInv, NEW f \in GeoFiles, Downloads(f)
  PROVE  GeoInv'
<1>1. /\ UNCHANGED <<clashVars, release, updateLog, upd, loadedGeo, clock, marker, fired, ends>>
      /\ upd.pc = "files" /\ job[f].st = "get"
  BY DEF Downloads, Asking
<1>2. /\ job \in [GeoFiles -> JobRecs] /\ disk \in [GeoFiles -> Nat] /\ updateLog \in [GeoFiles -> Nat]
      /\ release \in Nat /\ upd \in UpdRecs /\ job[f].sha \in Nat /\ job[f].sha <= release
  BY <1>1 DEF GeoInv, GeoTyped, Grows
<1>3. /\ job' \in [GeoFiles -> JobRecs] /\ disk' \in [GeoFiles -> Nat]
      /\ \A i \in GeoFiles : i # f => /\ job'[i] = job[i] /\ disk'[i] = disk[i]
                                      /\ i \in lagged' <=> i \in lagged
      /\ \/ job'[f].st = "got" /\ disk'[f] = job[f].sha /\ (job[f].lag => f \in lagged')
         \/ job'[f].st = "kept" /\ disk' = disk /\ lagged' = lagged
  <2>1. CASE /\ disk' = [disk EXCEPT ![f] = job[f].sha] /\ job' = Outcome(f, "got")
             /\ lagged' = Marked(f, job[f].lag)
    <3>1. job'[f].st = "got" /\ job' \in [GeoFiles -> JobRecs] /\ \A i \in GeoFiles : i # f => job'[i] = job[i]
      BY <1>2, <2>1 DEF Outcome, Unasked, JobRecs
    <3>2. /\ job[f].lag => f \in lagged'
          /\ \A i \in GeoFiles : i # f => (i \in lagged' <=> i \in lagged)
      BY <2>1 DEF Marked
    <3> QED
      BY <1>2, <2>1, <3>1, <3>2
  <2>2. CASE job' = Outcome(f, "kept") /\ UNCHANGED <<disk, lagged>>
    BY <1>2, <2>2 DEF Outcome, Unasked, JobRecs
  <2> QED
    BY <2>1, <2>2 DEF Downloads
<1>4. ClashInv'
  BY <1>1, ClashAlone DEF GeoInv
<1>5. GeoTyped'
  BY <1>1, <1>3 DEF GeoInv, GeoTyped
<1>6. Grows'
  <2>1. ASSUME NEW i \in GeoFiles, i # f
        PROVE  /\ updateLog'[i] <= release' /\ disk'[i] <= release'
               /\ i \in lagged' \/ updateLog'[i] <= disk'[i]
               /\ job'[i].st = "get" =>
                    /\ job'[i].sha \in Nat /\ job'[i].sha <= release'
                    /\ job'[i].lag \/ updateLog'[i] <= job'[i].sha
                    /\ job'[i].lag \/ upd'.rv = Nothing \/ upd'.rv <= job'[i].sha
               /\ job'[i].st \in {"right", "got"} =>
                    i \in lagged' \/ upd'.rv = Nothing \/ upd'.rv <= disk'[i]
    BY <1>1, <1>3, <2>1 DEF GeoInv, Grows
  <2>2. /\ updateLog'[f] <= release' /\ disk'[f] <= release'
        /\ f \in lagged' \/ updateLog'[f] <= disk'[f]
        /\ f \in lagged' \/ upd'.rv = Nothing \/ upd'.rv <= disk'[f] \/ job'[f].st = "kept"
    BY <1>1, <1>2, <1>3 DEF GeoInv, Grows
  <2>3. job'[f].st \in {"got", "kept"}
    BY <1>3
  <2>4. (upd'.rv # Nothing => upd'.rv <= release') /\ upd'.pc = "files"
    BY <1>1 DEF GeoInv, Grows
  <2> QED
    BY <2>1, <2>2, <2>3, <2>4 DEF Grows
<1>7. FiredOnce'
  BY <1>1 DEF GeoInv, FiredOnce
<1>8. OwnClash' /\ Fresh'
  <2>1. Changed' \/ (disk' = disk /\ ~Changed)
    BY <1>1, <1>3 DEF Changed
  <2> QED
    BY <1>1, <2>1 DEF GeoInv, OwnClash, Fresh, clashVars
<1> QED
  BY <1>4, <1>5, <1>6, <1>7, <1>8 DEF GeoInv

\* What the log records of a file is not later than the file, unless its source lagged.
LEMMA WritesLogKeeps ==
  ASSUME GeoInv, WritesLog
  PROVE  GeoInv'
<1>1. /\ UNCHANGED <<clashVars, release, disk, lagged, loadedGeo, clock, marker, fired, ends>> /\ upd.pc = "files"
      /\ updateLog' = [f \in GeoFiles |-> IF Committed(f) THEN upd.rv ELSE updateLog[f]]
      /\ job' = Unasked
      /\ (upd' = [upd EXCEPT !.pc = "restart"]) \/ (upd' = NoUpdate /\ ~Changed)
  BY DEF WritesLog, Asking
<1>2. \A f \in GeoFiles : Committed(f) => /\ upd.rv \in Nat /\ upd.rv <= release
                                          /\ f \in lagged \/ upd.rv <= disk[f]
  BY GeoConstants DEF Committed, GeoInv, GeoTyped, Grows, UpdRecs
<1>3. Unasked \in [GeoFiles -> JobRecs] /\ \A f \in GeoFiles : Unasked[f].st = "todo"
  BY DEF Unasked, JobRecs
<1>4. /\ upd' \in UpdRecs /\ upd'.pc \in {"restart", "rest"} /\ (upd'.pc = "rest" => ~Changed)
      /\ upd'.rv = upd.rv \/ upd'.rv = Nothing
  <2>1. upd \in UpdRecs
    BY DEF GeoInv, GeoTyped
  <2>2. CASE upd' = [upd EXCEPT !.pc = "restart"]
    BY <2>1, <2>2 DEF UpdRecs
  <2>3. CASE upd' = NoUpdate /\ ~Changed
    BY <2>3 DEF UpdRecs, NoUpdate
  <2> QED
    BY <1>1, <2>2, <2>3
<1>5. ClashInv'
  BY <1>1, ClashAlone DEF GeoInv
<1>6. GeoTyped'
  <2>1. updateLog' \in [GeoFiles -> Nat]
    BY <1>1, <1>2 DEF GeoInv, GeoTyped
  <2> QED
    BY <1>1, <1>3, <1>4, <2>1 DEF GeoInv, GeoTyped
<1>7. Grows'
  <2>1. ASSUME NEW f \in GeoFiles
        PROVE  updateLog'[f] <= release /\ (f \in lagged \/ updateLog'[f] <= disk[f])
    <3>1. CASE Committed(f)
      BY <1>1, <1>2, <3>1
    <3>2. CASE ~Committed(f)
      BY <1>1, <3>2 DEF GeoInv, Grows
    <3> QED
      BY <3>1, <3>2
  <2>2. /\ \A f \in GeoFiles : disk[f] <= release /\ job'[f].st = "todo"
        /\ upd'.rv # Nothing => upd'.rv <= release
    BY <1>1, <1>3, <1>4 DEF GeoInv, Grows
  <2> QED
    BY <1>1, <2>1, <2>2 DEF Grows
<1>8. FiredOnce'
  BY <1>1 DEF GeoInv, FiredOnce
<1>9. OwnClash' /\ Fresh'
  BY <1>1, <1>4 DEF GeoInv, OwnClash, Fresh, clashVars
<1> QED
  BY <1>5, <1>6, <1>7, <1>8, <1>9 DEF GeoInv

\* The restart kills every clash that has loaded other data.
LEMMA GeoRestartKeeps ==
  ASSUME GeoInv, AsksRestart \/ RestartDone
  PROVE  GeoInv'
<1>1. CASE AsksRestart
  <2>1. /\ RestartBegins /\ upd.pc = "restart" /\ upd' = [upd EXCEPT !.pc = "restarting"]
        /\ UNCHANGED <<release, disk, updateLog, job, lagged, loadedGeo, clock, marker, fired, ends>>
    BY <1>1 DEF AsksRestart, Asking
  <2>2. ClashInv' /\ (~astray => \A p \in ClashPids : proc'[p] # "run") /\ astray' = astray
    BY <2>1, RestartKeepsOne DEF GeoInv, RestartBegins
  <2>3. GeoTyped'
    BY <2>1 DEF GeoInv, GeoTyped, UpdRecs
  <2>4. Grows' /\ FiredOnce'
    BY <2>1 DEF GeoInv, GeoTyped, UpdRecs, Grows, FiredOnce
  <2>5. OwnClash' /\ Fresh'
    BY <2>1, <2>2 DEF GeoInv, OwnClash, Fresh
  <2> QED
    BY <2>2, <2>3, <2>4, <2>5 DEF GeoInv
<1>2. CASE RestartDone
  <2>1. /\ upd.pc = "restarting" /\ upd' = NoUpdate
        /\ UNCHANGED <<clashVars, release, disk, updateLog, job, lagged, loadedGeo, clock, marker, fired, ends>>
    BY <1>2 DEF RestartDone, Asking
  <2>2. ClashInv'
    BY <2>1, ClashAlone DEF GeoInv
  <2>3. GeoTyped' /\ Grows' /\ FiredOnce'
    BY <2>1 DEF GeoInv, GeoTyped, UpdRecs, NoUpdate, Grows, FiredOnce
  <2>4. OwnClash' /\ Fresh'
    BY <2>1 DEF GeoInv, OwnClash, Fresh, NoUpdate, clashVars
  <2> QED
    BY <2>2, <2>3, <2>4 DEF GeoInv
<1> QED
  BY <1>1, <1>2

\* A clash that is started reads what is on disk then.
LEMMA SupMovesKeep ==
  ASSUME GeoInv, SupMoves
  PROVE  GeoInv'
<1>1. /\ UNCHANGED <<release, disk, updateLog, upd, job, lagged, clock, marker, fired, ends>>
      /\ loadedGeo' = [p \in ClashPids |-> IF proc[p] = "none" /\ proc'[p] = "run" THEN disk ELSE loadedGeo[p]]
  BY DEF SupMoves, Asking, ClashReadsGeo
<1>2. ClashInv'
  BY SpawnsKeepsOne, SupMovesKeepOne, AroundKeepsOne DEF SupMoves, SupStep, GeoInv
<1>3. astray' = astray
  BY DEF SupMoves, SupStep, Spawns, SpawnFails, Flushes, WaitGone, EnsureUp, ClashSurroundings,
         ClashExits, ScriptKills, PoolConnects
<1>4. \A p \in ClashPids : proc'[p] = "run" => proc[p] \in {"run", "none"}
  <2>1. CASE Spawns
    BY <2>1 DEF Spawns, FreshPids, GeoInv, ClashInv, ClashTyped
  <2>2. CASE SpawnFails \/ Flushes \/ WaitGone \/ EnsureUp
    BY <2>2 DEF SpawnFails, Flushes, WaitGone, EnsureUp
  <2>3. CASE ClashSurroundings
    BY <2>3 DEF ClashSurroundings, ClashExits, ScriptKills, PoolConnects, GeoInv, ClashInv, ClashTyped
  <2> QED
    BY <2>1, <2>2, <2>3 DEF SupMoves, SupStep
<1>5. GeoTyped' /\ Grows' /\ FiredOnce'
  BY <1>1 DEF GeoInv, GeoTyped, Grows, FiredOnce
<1>6. OwnClash' /\ Fresh'
  BY <1>1, <1>3, <1>4 DEF GeoInv, OwnClash, Fresh, Changed
<1> QED
  BY <1>2, <1>5, <1>6 DEF GeoInv

\* Releases, hours and the end of sniffbox.
LEMMA WorldKeeps ==
  ASSUME GeoInv, Released \/ HourStrikes \/ SniffboxEnds
  PROVE  GeoInv'
<1>1. CASE Released
  <2>1. /\ release' = release + 1
        /\ UNCHANGED <<clashVars, disk, updateLog, upd, job, lagged, loadedGeo, clock, marker, fired, ends>>
    BY <1>1 DEF Released, Asking
  <2>2. ClashInv'
    BY <2>1, ClashAlone DEF GeoInv
  <2>3. GeoTyped' /\ FiredOnce'
    BY <2>1 DEF GeoInv, GeoTyped, FiredOnce
  <2>4. Grows'
    BY <2>1 DEF GeoInv, GeoTyped, Grows, UpdRecs
  <2>5. OwnClash' /\ Fresh'
    BY <2>1 DEF GeoInv, OwnClash, Fresh, Changed, clashVars
  <2> QED
    BY <2>2, <2>3, <2>4, <2>5 DEF GeoInv
<1>2. CASE HourStrikes
  <2>1. /\ UNCHANGED <<clashVars, release, disk, updateLog, upd, job, lagged, loadedGeo, marker, fired, ends>>
        /\ clock' \in [day : Nat, hour : BOOLEAN] /\ clock'.day >= clock.day
        /\ clock'.day # clock.day => clock'.day = clock.day + 1
    <3>1. clock \in [day : Nat, hour : BOOLEAN]
      BY DEF GeoInv, GeoTyped
    <3>2. \/ clock' = [day |-> clock.day + 1, hour |-> FALSE]
          \/ clock' = [clock EXCEPT !.hour = TRUE]
      BY <1>2 DEF HourStrikes
    <3>3. clock' \in [day : Nat, hour : BOOLEAN] /\ (clock'.day = clock.day \/ clock'.day = clock.day + 1)
      <4>1. CASE clock' = [day |-> clock.day + 1, hour |-> FALSE]
        <5>1. clock.day + 1 \in Nat
          BY <3>1
        <5> QED
          BY <4>1, <5>1
      <4>2. CASE clock' = [clock EXCEPT !.hour = TRUE]
        BY <3>1, <4>2
      <4> QED
        BY <3>2, <4>1, <4>2
    <3> QED
      BY <1>2, <3>1, <3>3 DEF HourStrikes
  <2>2. ClashInv'
    BY <2>1, ClashAlone DEF GeoInv
  <2>3. GeoTyped' /\ Grows'
    BY <2>1 DEF GeoInv, GeoTyped, Grows
  <2>4. FiredOnce'
    BY <2>1 DEF GeoInv, GeoTyped, FiredOnce
  <2>5. OwnClash' /\ Fresh'
    BY <2>1 DEF GeoInv, OwnClash, Fresh, Changed, clashVars
  <2> QED
    BY <2>2, <2>3, <2>4, <2>5 DEF GeoInv
<1>3. CASE SniffboxEnds
  <2>1. /\ ClashAdopted /\ ends' = ends + 1 /\ upd' = NoUpdate /\ job' = Unasked
        /\ UNCHANGED <<release, disk, updateLog, lagged, loadedGeo, clock, marker, fired>>
    BY <1>3 DEF SniffboxEnds
  <2>2. ClashInv'
    BY <2>1, AroundKeepsOne DEF GeoInv
  <2>3. GeoTyped' /\ FiredOnce'
    BY <2>1 DEF GeoInv, GeoTyped, FiredOnce, JobRecs, UpdRecs, NoUpdate, Unasked
  <2>4. Grows'
    BY <2>1 DEF GeoInv, Grows, Unasked, NoUpdate
  <2>5. OwnClash' /\ Fresh'
    BY <2>1 DEF GeoInv, GeoTyped, OwnClash, Fresh
  <2> QED
    BY <2>2, <2>3, <2>4, <2>5 DEF GeoInv
<1> QED
  BY <1>1, <1>2, <1>3

\* Every step keeps the invariant of the update.
LEMMA GeoSteps ==
  ASSUME GeoInv, [GeoNext]_<<clashVars, geoVars>>
  PROVE  GeoInv'
<1>1. CASE WebUpdates \/ TimerFires \/ AsksVersion
  BY <1>1, AskedKeeps
<1>2. CASE WritesLog
  BY <1>2, WritesLogKeeps
<1>3. CASE AsksRestart \/ RestartDone
  BY <1>3, GeoRestartKeeps
<1>4. ASSUME NEW f \in GeoFiles, AsksSha(f) \/ Downloads(f)
      PROVE  GeoInv'
  BY <1>4, AsksShaKeeps, DownloadsKeeps
<1>5. CASE SupMoves
  BY <1>5, SupMovesKeep
<1>6. CASE Released \/ HourStrikes \/ SniffboxEnds
  BY <1>6, WorldKeeps
<1>7. CASE UNCHANGED <<clashVars, geoVars>>
  <2>1. UNCHANGED <<clashVars, release, disk, updateLog, upd, job, lagged, loadedGeo, clock, marker, fired, ends>>
    BY <1>7 DEF geoVars
  <2>2. ClashInv'
    BY <2>1, ClashAlone DEF GeoInv
  <2>3. GeoTyped' /\ Grows' /\ FiredOnce' /\ OwnClash' /\ Fresh'
    BY <2>1 DEF GeoInv, GeoTyped, Grows, FiredOnce, OwnClash, Fresh, Changed, clashVars
  <2> QED
    BY <2>2, <2>3 DEF GeoInv
<1> QED
  BY <1>1, <1>2, <1>3, <1>4, <1>5, <1>6, <1>7 DEF GeoNext

\* Whatever the update does, the supervisor's part goes on as by itself.
LEMMA ClashSteps ==
  ASSUME ClashInv, [GeoNext]_<<clashVars, geoVars>>
  PROVE  ClashInv'
<1>1. \/ UNCHANGED clashVars \/ RestartBegins \/ SupStep \/ EnsureUp
      \/ ClashSurroundings \/ ClashAdopted
  BY DEF GeoNext, WebUpdates, TimerFires, AsksVersion, WritesLog, AsksRestart, RestartDone, AsksSha, Downloads,
         SupMoves, Released, HourStrikes, SniffboxEnds
<1> QED
  BY <1>1, ClashAlone, SpawnsKeepsOne, SupMovesKeepOne, RestartKeepsOne, AroundKeepsOne DEF SupStep

\* There is one clash that is meant to run, which the supervisor knows, and no idle
\* connection leads to an earlier one, but to one that outlived its five seconds; unless
\* sniffbox ended and adopted such a one (restart, spawn_clash, wait_gone, adopt).
THEOREM OneClashKnown ==
  GeoInit /\ [][GeoNext]_<<clashVars, geoVars>> => []OneClash
<1>1. GeoInit => ClashInv
  BY ClashStarts DEF GeoInit
<1>2. ClashInv /\ [GeoNext]_<<clashVars, geoVars>> => ClashInv'
  BY ClashSteps
<1>3. ClashInv => OneClash
  BY ClashInvSuffices
<1> QED
  BY <1>1, <1>2, <1>3, PTL

\* However far sources lag behind the feed: one clash and one that the supervisor knows,
\* a log that is ahead of the disk only for files that came from a source that lagged, one
\* restart of the timer a day, and clash runs with the data that is on disk.
THEOREM ClashAndDataSafe ==
  GeoInit /\ [][GeoNext]_<<clashVars, geoVars>> => []ClashSafe
<1>1. GeoInv /\ [GeoNext]_<<clashVars, geoVars>> => GeoInv'
  BY GeoSteps
<1>2. GeoInv => ClashSafe
  BY GeoInvSuffices
<1> QED
  BY <1>1, <1>2, GeoStarts, PTL

-----------------------------------------------------------------------------
(***************************************************************************)
(* SmartFixed.  With one thread at a time the temporary file is never the  *)
(* one that a restart loads, and holds the new locks before it is renamed. *)
(***************************************************************************)
\* How far the only thread is with the change that is in progress.
Persisting(t) ==
  /\ tmp # None => tmp # file
  /\ thread[t].pc = "away" => Loaded = map
  /\ thread[t].pc # "away" => Loaded = before
  /\ thread[t].pc \in {"away", "snapshot", "open"} => thread[t].inode = None
  /\ thread[t].pc \in {"open", "write", "rename"} => thread[t].snap = map
  /\ thread[t].pc \in {"write", "rename"} => tmp # None /\ thread[t].inode = tmp
  /\ thread[t].pc = "write" => content[tmp] = <<>>
  /\ thread[t].pc = "rename" => content[tmp] = <<map>>

LocksInv == FixedTypeOK /\ \A t \in Threads : Persisting(t)

\* The parts of the typing that the steps below need.
LEMMA LocksTyped ==
  ASSUME FixedTypeOK
  PROVE  /\ Loaded \in Locks /\ NoLocks \in Locks /\ None \notin Inodes
         /\ \A l \in Locks : <<l>> # <<>> /\ <<l>>[1] = l
<1>1. None \notin Inodes
  BY FixedConstants, FS_CardinalityType DEF Inodes
<1>2. NoLocks \in Locks
  BY DEF NoLocks, Locks
<1>3. Loaded \in Locks
  <2>1. CASE file = None \/ content[file] = <<>>
    BY <1>2, <2>1 DEF Loaded
  <2>2. CASE file # None /\ content[file] # <<>>
    <3>1. PICK l \in Locks : content[file] = <<l>>
      BY <2>2 DEF FixedTypeOK
    <3> QED
      BY <2>2, <3>1 DEF Loaded
  <2> QED
    BY <2>1, <2>2
<1> QED
  BY <1>1, <1>2, <1>3

\* At rest the file says what the map says.
LEMMA LocksInvSuffices ==
  ASSUME LocksInv, Threads # {}
  PROVE  LocksSurvive
<1>1. PICK t \in Threads : TRUE
  OBVIOUS
<1>2. Loaded \in {before, map}
  BY <1>1 DEF LocksInv, Persisting
<1>3. (\A u \in Threads : thread[u].pc = "away") => Loaded = map
  BY <1>1 DEF LocksInv, Persisting
<1> QED
  BY <1>2, <1>3 DEF LocksSurvive, CrashAtomic, LocksInv

\* No file, no locks, nobody at work.
LEMMA LocksStart ==
  FixedInit => LocksInv
<1> SUFFICES ASSUME FixedInit
             PROVE  LocksInv
  OBVIOUS
<1>1. NoLocks \in Locks
  BY DEF NoLocks, Locks
<1>2. FixedTypeOK
  BY <1>1 DEF FixedInit, FixedTypeOK, Away
<1>3. Loaded = NoLocks
  BY DEF FixedInit, Loaded
<1>4. ASSUME NEW t \in Threads
      PROVE  Persisting(t)
  BY <1>3, <1>4 DEF FixedInit, Persisting, Away
<1> QED
  BY <1>2, <1>4 DEF LocksInv

\* A change is made by the thread that is away, on what the file says.
LEMMA ChangeKeeps ==
  ASSUME LocksInv, NEW t \in Threads, Threads = {t}, NEW m \in Locks, Changes(t, m), Persists(t)
  PROVE  LocksInv'
<1>1. /\ thread[t].pc = "away" /\ map' = m /\ before' = map /\ UNCHANGED <<tmp, file, content>>
      /\ thread' = [thread EXCEPT ![t].pc = "snapshot"]
  BY DEF Changes, Persists
<1>2. FixedTypeOK'
  BY <1>1 DEF LocksInv, FixedTypeOK
<1>3. Loaded' = Loaded
  BY <1>1 DEF Loaded
<1>4. Persisting(t)'
  BY <1>1, <1>3 DEF LocksInv, FixedTypeOK, Persisting
<1> QED
  BY <1>2, <1>4 DEF LocksInv

\* The snapshot is the map: nobody else changes it.
LEMMA SnapshotKeeps ==
  ASSUME LocksInv, NEW t \in Threads, Threads = {t}, Snapshots(t)
  PROVE  LocksInv'
<1>1. /\ thread[t].pc = "snapshot" /\ UNCHANGED <<map, tmp, file, content, before>>
      /\ thread' = [thread EXCEPT ![t].pc = "open", ![t].snap = map]
  BY DEF Snapshots
<1>2. FixedTypeOK'
  BY <1>1 DEF LocksInv, FixedTypeOK
<1>3. Loaded' = Loaded
  BY <1>1 DEF Loaded
<1>4. Persisting(t)'
  BY <1>1, <1>3 DEF LocksInv, FixedTypeOK, Persisting
<1> QED
  BY <1>2, <1>4 DEF LocksInv

\* What is truncated is not what a restart would load.
LEMMA OpenKeeps ==
  ASSUME LocksInv, NEW t \in Threads, Threads = {t}, OpensTemp(t)
  PROVE  LocksInv'
<1>1. FixedTypeOK /\ Persisting(t) /\ thread[t].pc = "open" /\ thread[t].inode = None
  BY DEF LocksInv, OpensTemp, Persisting
<1>2. None \notin Inodes /\ {1, 2, 3} \subseteq Inodes
  <2>1. Cardinality(Threads) = 1
    BY FS_Singleton
  <2> QED
    BY <1>1, <2>1, LocksTyped DEF Inodes
<1>3. \E i \in Inodes : i # file /\ \A u \in Threads : thread[u].inode # i
  <2>1. CASE file = 1
    BY <1>1, <1>2, <2>1
  <2>2. CASE file # 1
    BY <1>1, <1>2, <2>2
  <2> QED
    BY <2>1, <2>2
<1>4. PICK i \in Inodes : /\ i # file /\ tmp' = i /\ content' = [content EXCEPT ![i] = <<>>]
                          /\ thread' = [thread EXCEPT ![t].pc = "write", ![t].inode = i]
  <2>1. CASE tmp # None
    BY <1>1, <2>1 DEF OpensTemp, Persisting, FixedTypeOK
  <2>2. CASE tmp = None
    BY <1>3, <2>2 DEF OpensTemp
  <2> QED
    BY <2>1, <2>2
<1>5. UNCHANGED <<map, file, before>>
  BY DEF OpensTemp
<1>6. FixedTypeOK'
  <2>1. thread' \in [Threads -> [pc : {"away", "snapshot", "open", "write", "rename"},
                                 snap : Locks, inode : Inodes \cup {None}]]
    <3> DEFINE States == [pc : {"away", "snapshot", "open", "write", "rename"},
                          snap : Locks, inode : Inodes \cup {None}]
               w == [thread[t] EXCEPT !.pc = "write", !.inode = i]
    <3>1. thread \in [Threads -> States] /\ thread[t] \in States
      BY <1>1 DEF FixedTypeOK
    <3>2. w \in States
      BY <1>4, <3>1
    <3>3. thread' = [thread EXCEPT ![t] = w]
      BY <1>4
    <3> HIDE DEF w, States
    <3>4. thread' \in [Threads -> States]
      BY <3>1, <3>2, <3>3
    <3> QED
      BY <3>4 DEF States
  <2>2. content' \in [Inodes -> {<<>>} \cup {<<l>> : l \in Locks}]
    BY <1>1, <1>4 DEF FixedTypeOK
  <2> QED
    BY <1>1, <1>4, <1>5, <2>1, <2>2 DEF FixedTypeOK
<1>7. Loaded' = Loaded
  BY <1>1, <1>2, <1>4, <1>5 DEF Loaded, FixedTypeOK
<1>8. Persisting(t)'
  BY <1>1, <1>2, <1>4, <1>5, <1>7 DEF FixedTypeOK, Persisting
<1> QED
  BY <1>6, <1>8 DEF LocksInv

\* The file that was truncated is filled, and holds nothing else.
LEMMA WriteKeeps ==
  ASSUME LocksInv, NEW t \in Threads, Threads = {t}, Writes(t)
  PROVE  LocksInv'
<1>1. /\ FixedTypeOK /\ Persisting(t) /\ thread[t].pc = "write" /\ thread[t].inode = tmp /\ tmp # None
      /\ content[tmp] = <<>> /\ thread[t].snap = map /\ tmp # file
  BY DEF LocksInv, Writes, Persisting
<1>2. /\ content' = [content EXCEPT ![tmp] = <<map>>] /\ UNCHANGED <<map, tmp, file, before>>
      /\ thread' = [thread EXCEPT ![t].pc = "rename"]
  BY <1>1 DEF Writes
<1>3. FixedTypeOK'
  <2>1. content' \in [Inodes -> {<<>>} \cup {<<l>> : l \in Locks}]
    BY <1>1, <1>2 DEF FixedTypeOK
  <2> QED
    BY <1>1, <1>2, <2>1 DEF FixedTypeOK
<1>4. Loaded' = Loaded
  BY <1>1, <1>2 DEF Loaded, FixedTypeOK
<1>5. Persisting(t)'
  BY <1>1, <1>2, <1>4 DEF FixedTypeOK, Persisting
<1> QED
  BY <1>3, <1>5 DEF LocksInv

\* The rename puts the new locks where a restart looks.
LEMMA RenameKeeps ==
  ASSUME LocksInv, NEW t \in Threads, Threads = {t}, Renames(t)
  PROVE  LocksInv'
<1>1. /\ FixedTypeOK /\ thread[t].pc = "rename" /\ tmp # None /\ content[tmp] = <<map>>
  BY DEF LocksInv, Renames, Persisting
<1>2. /\ file' = tmp /\ tmp' = None /\ thread' = [thread EXCEPT ![t] = Away] /\ UNCHANGED <<map, content, before>>
  BY <1>1 DEF Renames
<1>3. FixedTypeOK'
  BY <1>1, <1>2, LocksTyped DEF FixedTypeOK, Away
<1>4. Loaded' = map'
  BY <1>1, <1>2, LocksTyped DEF Loaded, FixedTypeOK
<1>5. Persisting(t)'
  BY <1>1, <1>2, <1>4 DEF FixedTypeOK, Persisting, Away
<1> QED
  BY <1>3, <1>5 DEF LocksInv

\* A restart has what the file says, and leaves a temporary file behind.
LEMMA RebootKeeps ==
  ASSUME LocksInv, Reboot
  PROVE  LocksInv'
<1>1. /\ map' = Loaded /\ before' = Loaded /\ thread' = [t \in Threads |-> Away]
      /\ UNCHANGED <<tmp, file, content>>
  BY DEF Reboot
<1>2. FixedTypeOK'
  BY <1>1, LocksTyped DEF LocksInv, FixedTypeOK, Away
<1>3. Loaded' = Loaded
  BY <1>1 DEF Loaded
<1>4. ASSUME NEW t \in Threads
      PROVE  Persisting(t)'
  BY <1>1, <1>3, <1>4 DEF LocksInv, Persisting, Away
<1> QED
  BY <1>2, <1>4 DEF LocksInv

\* Every step of the one thread keeps the invariant.
LEMMA LocksSteps ==
  ASSUME NEW w, Threads = {w}, LocksInv, [FixedNext]_fixedVars
  PROVE  LocksInv'
<1>1. map \in Locks
  BY DEF LocksInv, FixedTypeOK
<1>2. ASSUME NEW t \in Threads, NEW g \in Groups, Clear(t, g)
      PROVE  LocksInv'
  BY <1>1, <1>2, ChangeKeeps DEF Clear, Locks
<1>3. ASSUME NEW t \in Threads, NEW g \in Groups, NEW n \in Nodes, SetLock(t, g, n)
      PROVE  LocksInv'
  BY <1>1, <1>3, ChangeKeeps DEF SetLock, Locks
<1>4. ASSUME NEW t \in Threads, NEW keep \in SUBSET Groups, RetainGroups(t, keep)
      PROVE  LocksInv'
  BY <1>1, <1>4, ChangeKeeps DEF RetainGroups, Locks
<1>5. ASSUME NEW t \in Threads, Persist(t)
      PROVE  LocksInv'
  BY <1>5, SnapshotKeeps, OpenKeeps, WriteKeeps, RenameKeeps DEF Persist
<1>6. CASE Reboot
  BY <1>6, RebootKeeps
<1>7. CASE UNCHANGED fixedVars
  BY <1>7 DEF fixedVars, LocksInv, FixedTypeOK, Persisting, Loaded
<1> QED
  BY <1>2, <1>3, <1>4, <1>5, <1>6, <1>7 DEF FixedNext

\* When one thread at a time changes locks, the locks on disk are the old ones or the
\* new ones wherever the process ends.  (persist is not under the mutex of the map:
\* for two threads at once the theorem does not hold.)
THEOREM OneThreadLocksSurvive ==
  ASSUME NEW CONSTANT w, Threads = {w}
  PROVE  FixedSpec => []LocksSurvive
<1>1. LocksInv /\ [FixedNext]_fixedVars => LocksInv'
  BY LocksSteps
<1>2. LocksInv => LocksSurvive
  BY LocksInvSuffices
<1> QED
  BY <1>1, <1>2, LocksStart, PTL DEF FixedSpec

-----------------------------------------------------------------------------
(***************************************************************************)
(* Screen.  The history ends with the screen that was seen last, line for  *)
(* line: what is appended is found by a search for the longest overlap.    *)
(***************************************************************************)
Blank == ""
Lines == Texts \cup {Blank}

\* t ends with s, element by element.
EndsWith(t, s) == Len(s) <= Len(t) /\ \A i \in 1 .. Len(s) : t[Len(t) - Len(s) + i] = s[i]

ShownInv ==
  /\ console \in Seq(Lines) /\ Len(console) <= Rows
  /\ seen \in Seq(Lines) /\ Len(seen) <= HistoryCap
  /\ history \in Seq(Lines) /\ EndsWith(history, seen)

\* Of a sequence and its ending.
LEMMA SuffixByElement ==
  ASSUME NEW S, NEW s \in Seq(S), NEW t \in Seq(S), EndsWith(t, s)
  PROVE  IsSuffix(s, t)
<1> DEFINE a == Reverse(s)  b == Reverse(t)
<1>1. /\ a = [i \in 1 .. Len(s) |-> s[(Len(s) - i) + 1]]
      /\ b = [i \in 1 .. Len(t) |-> t[(Len(t) - i) + 1]]
  BY DEF Reverse
<1>2. Len(s) \in Nat /\ Len(t) \in Nat /\ Len(s) <= Len(t)
  BY DEF EndsWith
<1>3. a \in Seq(S) /\ b \in Seq(S) /\ Len(a) = Len(s) /\ Len(b) = Len(t)
  BY <1>1, <1>2
<1>4. \A i \in 1 .. Len(s) : a[i] = b[i]
  <2> SUFFICES ASSUME NEW i \in 1 .. Len(s)
               PROVE  a[i] = b[i]
    OBVIOUS
  <2>1. (Len(s) - i) + 1 \in 1 .. Len(s) /\ i \in 1 .. Len(t)
    BY <1>2
  <2>2. t[Len(t) - Len(s) + ((Len(s) - i) + 1)] = s[(Len(s) - i) + 1]
    BY <2>1 DEF EndsWith
  <2>3. Len(t) - Len(s) + ((Len(s) - i) + 1) = (Len(t) - i) + 1
    BY <1>2
  <2>4. a[i] = s[(Len(s) - i) + 1] /\ b[i] = t[(Len(t) - i) + 1]
    BY <1>1, <2>1
  <2> QED
    BY <2>2, <2>3, <2>4
<1> HIDE DEF a, b
<1>5. SubSeq(a, 1, Len(a)) = SubSeq(b, 1, Len(a))
  BY <1>2, <1>3, <1>4
<1> QED
  BY <1>2, <1>3, <1>5 DEF IsSuffix, IsPrefix, a, b

\* The ending of a sequence.
LEMMA EndingOf ==
  ASSUME NEW S, NEW s \in Seq(S), NEW n \in 0 .. Len(s)
  PROVE  /\ Ending(s, n) \in Seq(S) /\ Len(Ending(s, n)) = n
         /\ \A i \in 1 .. n : Ending(s, n)[i] = s[Len(s) - n + i]
<1>1. Len(s) \in Nat /\ n \in Nat /\ n <= Len(s)
  OBVIOUS
<1>2. Ending(s, n) = SubSeq(s, Len(s) - n + 1, Len(s))
  BY DEF Ending
<1>3. CASE n = 0
  BY <1>1, <1>2, <1>3
<1>4. CASE n > 0
  BY <1>1, <1>2, <1>4
<1> QED
  BY <1>1, <1>3, <1>4

\* read_screen: never more than the rows and the line that is empty.
LEMMA RenderedBounded ==
  ASSUME console \in Seq(Lines), Len(console) <= Rows
  PROVE  Rendered \in Seq(Lines) /\ Len(Rendered) <= HistoryCap
<1> DEFINE written == {i \in DOMAIN console : console[i] # Blank}
           bottom == CHOOSE i \in written : \A j \in written : j <= i
           rows == IF written = {} THEN <<Blank>> ELSE SubSeq(console, 1, bottom)
<1>1. Rendered = Append(rows, Blank)
  BY Zenon DEF Rendered, Blank
<1>2. Len(console) \in Nat /\ DOMAIN console = 1 .. Len(console)
  BY LenProperties
<1>3. written # {} => bottom \in 1 .. Len(console)
  <2> SUFFICES ASSUME written # {}
               PROVE  bottom \in 1 .. Len(console)
    OBVIOUS
  <2>1. written \subseteq 1 .. Len(console)
    BY <1>2
  <2> HIDE DEF written
  <2>2. written \subseteq 0 .. Len(console)
    BY <1>2, <2>1
  <2>3. \E i \in written : \A j \in written : j <= i
    BY <1>2, <2>2, GreatestNat
  <2>4. bottom \in written
    BY <2>3
  <2> QED
    BY <2>1, <2>4
<1> HIDE DEF bottom
<1>4. rows \in Seq(Lines) /\ (Len(rows) <= Rows \/ Len(rows) = 1)
  <2>1. CASE written = {}
    <3>1. rows = <<Blank>> /\ Blank \in Lines
      BY <2>1 DEF Lines
    <3>2. <<Blank>> \in Seq(Lines) /\ Len(<<Blank>>) = 1
      BY <3>1
    <3> QED
      BY <3>1, <3>2
  <2>2. CASE written # {}
    <3>1. rows = SubSeq(console, 1, bottom) /\ bottom \in 1 .. Len(console)
      BY <1>3, <2>2
    <3>2. SubSeq(console, 1, bottom) \in Seq(Lines) /\ Len(SubSeq(console, 1, bottom)) = bottom
      BY <1>2, <3>1
    <3> QED
      BY <1>2, <3>1, <3>2, ScreenConstants
  <2> QED
    BY <2>1, <2>2
<1> HIDE DEF rows
<1>5. Blank \in Lines
  BY DEF Lines
<1>6. Rendered \in Seq(Lines) /\ Len(Rendered) = Len(rows) + 1 /\ Len(rows) \in Nat
  BY <1>1, <1>4, <1>5
<1>7. \A n \in Nat : n <= Rows \/ n = 1 => n + 1 <= HistoryCap
  BY ScreenConstants
<1> QED
  BY <1>4, <1>6, <1>7

\* diff_new_lines: what is appended completes what the history ends with.
LEMMA DiffCompletes ==
  ASSUME NEW S, NEW old \in Seq(S), NEW new \in Seq(S), NEW h \in Seq(S), EndsWith(h, old)
  PROVE  /\ DiffNewLines(old, new) \in Seq(S)
         /\ EndsWith(h \o DiffNewLines(old, new), new)
<1> DEFINE fits == {k \in 0 .. Len(old) : IsPrefix(Ending(old, k), new)}
           most == CHOOSE k \in fits : \A j \in fits : j <= k
<1>1. 0 \in fits
  BY EndingOf DEF IsPrefix
<1>2. most \in fits
  <2>1. fits \subseteq 0 .. Len(old) /\ Len(old) \in Nat
    BY LenProperties
  <2> HIDE DEF fits
  <2>2. \E k \in fits : \A j \in fits : j <= k
    BY <1>1, <2>1, GreatestNat
  <2> QED
    BY <2>2
<1>3. PICK k \in 0 .. Len(old) : k = most /\ IsPrefix(Ending(old, k), new)
  BY <1>2
<1>4. DiffNewLines(old, new) = SubSeq(new, k + 1, Len(new))
  BY <1>3 DEF DiffNewLines
<1> HIDE DEF fits, most
<1>5. /\ Len(old) \in Nat /\ Len(new) \in Nat /\ Len(h) \in Nat /\ k \in Nat /\ k <= Len(old)
      /\ Len(old) <= Len(h) /\ k <= Len(new)
  BY <1>3, EndingOf DEF IsPrefix, EndsWith
<1>6. \A i \in 1 .. k : new[i] = old[Len(old) - k + i]
  <2>1. Ending(old, k) \in Seq(S) /\ Len(Ending(old, k)) = k
    BY EndingOf
  <2>2. SubSeq(Ending(old, k), 1, k) = SubSeq(new, 1, k)
    BY <1>3, <2>1 DEF IsPrefix
  <2>3. \A i \in 1 .. k : Ending(old, k)[i] = new[i]
    <3> SUFFICES ASSUME NEW i \in 1 .. k
                 PROVE  Ending(old, k)[i] = new[i]
      OBVIOUS
    <3> DEFINE e == Ending(old, k)
    <3>1. e \in Seq(S) /\ Len(e) = k
      BY <2>1
    <3> HIDE DEF e
    <3>2. SubSeq(e, 1, k)[i] = e[i] /\ SubSeq(new, 1, k)[i] = new[i]
      BY <1>5, <3>1
    <3> QED
      BY <2>2, <3>2 DEF e
  <2> QED
    BY <2>3, EndingOf
<1>7. \A i \in 1 .. k : h[Len(h) - k + i] = new[i]
  <2> SUFFICES ASSUME NEW i \in 1 .. k
               PROVE  h[Len(h) - k + i] = new[i]
    OBVIOUS
  <2>1. Len(old) - k + i \in 1 .. Len(old)
    BY <1>5
  <2>2. h[Len(h) - Len(old) + (Len(old) - k + i)] = old[Len(old) - k + i]
    BY <2>1 DEF EndsWith
  <2>3. Len(h) - Len(old) + (Len(old) - k + i) = Len(h) - k + i
    BY <1>5
  <2> QED
    BY <1>6, <2>2, <2>3
<1> DEFINE d == SubSeq(new, k + 1, Len(new))
<1>8. d \in Seq(S) /\ Len(d) = Len(new) - k /\ \A i \in 1 .. Len(new) - k : d[i] = new[k + i]
  BY <1>5
<1> HIDE DEF d
<1>9. h \o d \in Seq(S) /\ Len(h \o d) = Len(h) + Len(new) - k /\ Len(new) <= Len(h \o d)
  <2>1. h \o d \in Seq(S) /\ Len(h \o d) = Len(h) + Len(d)
    BY <1>8, ConcatProperties
  <2> QED
    BY <1>5, <1>8, <2>1
<1>12. \A i \in 1 .. Len(h) + Len(d) : (h \o d)[i] = IF i <= Len(h) THEN h[i] ELSE d[i - Len(h)]
  BY <1>8, ConcatProperties
<1>10. \A i \in 1 .. Len(new) : (h \o d)[Len(h) - k + i] = new[i]
  <2> SUFFICES ASSUME NEW i \in 1 .. Len(new)
               PROVE  (h \o d)[Len(h) - k + i] = new[i]
    OBVIOUS
  <2>1. CASE i <= k
    <3>1. Len(h) - k + i \in 1 .. Len(h) /\ i \in 1 .. k
      BY <1>5, <2>1
    <3>2. (h \o d)[Len(h) - k + i] = h[Len(h) - k + i]
      BY <1>5, <1>8, <1>12, <3>1
    <3> QED
      BY <1>7, <3>1, <3>2
  <2>2. CASE i > k
    <3>1. i - k \in 1 .. Len(new) - k /\ Len(h) + (i - k) = Len(h) - k + i /\ k + (i - k) = i
      BY <1>5, <2>2
    <3>2. (h \o d)[Len(h) + (i - k)] = d[i - k]
      BY <1>5, <1>8, <1>12, <3>1
    <3> QED
      BY <1>8, <3>1, <3>2
  <2>3. i <= k \/ i > k
    BY <1>5
  <2> QED
    BY <2>1, <2>2, <2>3
<1>11. EndsWith(h \o d, new)
  <2>1. Len(h \o d) - Len(new) = Len(h) - k
    BY <1>5, <1>9
  <2> QED
    BY <1>9, <1>10, <2>1 DEF EndsWith
<1> QED
  BY <1>4, <1>8, <1>11 DEF d

\* push_lines: what is dropped at the front is not of the screen.
LEMMA TrimKeepsEnd ==
  ASSUME NEW S, NEW all \in Seq(S), NEW new \in Seq(S), EndsWith(all, new), NEW n \in Nat,
         Len(new) <= n, n < Len(all)
  PROVE  Ending(all, n) \in Seq(S) /\ EndsWith(Ending(all, n), new)
<1>1. n \in 0 .. Len(all) /\ Len(all) \in Nat /\ Len(new) \in Nat
  OBVIOUS
<1>2. /\ Ending(all, n) \in Seq(S) /\ Len(Ending(all, n)) = n
      /\ \A i \in 1 .. n : Ending(all, n)[i] = all[Len(all) - n + i]
  BY <1>1, EndingOf
<1>3. \A i \in 1 .. Len(new) : Ending(all, n)[n - Len(new) + i] = new[i]
  <2> SUFFICES ASSUME NEW i \in 1 .. Len(new)
               PROVE  Ending(all, n)[n - Len(new) + i] = new[i]
    OBVIOUS
  <2>1. n - Len(new) + i \in 1 .. n
    BY <1>1
  <2>2. Len(all) - n + (n - Len(new) + i) = Len(all) - Len(new) + i
    BY <1>1
  <2> QED
    BY <1>2, <2>1, <2>2 DEF EndsWith
<1> QED
  BY <1>2, <1>3 DEF EndsWith

\* Whatever is printed between two polls, the history still ends with what was read.
LEMMA ShownSteps ==
  ASSUME ShownInv, [ScreenNext]_screenVars
  PROVE  ShownInv'
<1>1. CASE Prints
  <2>1. PICK t \in Texts : console' = IF Len(Append(console, t)) > Rows THEN Tail(Append(console, t))
                                      ELSE Append(console, t)
    BY <1>1 DEF Prints
  <2>2. t \in Lines /\ console \in Seq(Lines) /\ Len(console) <= Rows
    BY DEF ShownInv, Lines
  <2>3. console' \in Seq(Lines) /\ Len(console') <= Rows
    <3> DEFINE longer == Append(console, t)
    <3>1. longer \in Seq(Lines) /\ Len(longer) = Len(console) + 1 /\ Len(console) \in Nat
      BY <2>2
    <3>2. longer # <<>>
      BY <3>1
    <3> HIDE DEF longer
    <3>3. Tail(longer) \in Seq(Lines) /\ Len(Tail(longer)) = Len(longer) - 1
      BY <3>1, <3>2, HeadTailProperties
    <3>4. console' = IF Len(longer) > Rows THEN Tail(longer) ELSE longer
      BY <2>1 DEF longer
    <3> QED
      BY <2>2, <3>1, <3>3, <3>4, ScreenConstants
  <2> QED
    BY <1>1, <2>3 DEF Prints, ShownInv
<1>2. CASE Views
  BY <1>2 DEF Views, ShownInv
<1>3. CASE Polls
  <2>1. \/ UNCHANGED <<history, seen>>
        \/ history' = Pushed(DiffNewLines(seen, Rendered)) /\ seen' = Rendered
    BY <1>3 DEF Polls
  <2>2. console' = console
    BY <1>3 DEF Polls
  <2>3. CASE UNCHANGED <<history, seen>>
    BY <2>2, <2>3 DEF ShownInv
  <2>4. CASE history' = Pushed(DiffNewLines(seen, Rendered)) /\ seen' = Rendered
    <3> DEFINE all == history \o DiffNewLines(seen, Rendered)
    <3>1. Rendered \in Seq(Lines) /\ Len(Rendered) <= HistoryCap
      BY RenderedBounded DEF ShownInv
    <3>2. all \in Seq(Lines) /\ EndsWith(all, Rendered)
      BY <3>1, DiffCompletes DEF ShownInv
    <3>3. history' = IF Len(all) > HistoryCap THEN Ending(all, HistoryCap) ELSE all
      BY <2>4 DEF Pushed
    <3> HIDE DEF all
    <3>4. history' \in Seq(Lines) /\ EndsWith(history', Rendered)
      <4>1. CASE Len(all) > HistoryCap
        BY <3>1, <3>2, <3>3, <4>1, TrimKeepsEnd, ScreenConstants
      <4>2. CASE ~(Len(all) > HistoryCap)
        BY <3>2, <3>3, <4>2
      <4> QED
        BY <4>1, <4>2
    <3> QED
      BY <2>2, <2>4, <3>1, <3>4 DEF ShownInv
  <2> QED
    BY <2>1, <2>3, <2>4
<1>4. CASE UNCHANGED screenVars
  BY <1>4 DEF screenVars, ShownInv
<1> QED
  BY <1>1, <1>2, <1>3, <1>4 DEF ScreenNext

\* The history of the console ends with the screen as it was last read, whatever was
\* printed and however long nobody looked.
THEOREM HistoryEndsWithScreen ==
  ScreenSpec => []EndsWithScreen
<1>1. ScreenInit => ShownInv
  BY ScreenConstants DEF ScreenInit, ShownInv, EndsWith
<1>2. ShownInv /\ [ScreenNext]_screenVars => ShownInv'
  BY ShownSteps
<1>3. ShownInv => EndsWithScreen
  BY SuffixByElement DEF ShownInv, EndsWithScreen
<1> QED
  BY <1>1, <1>2, <1>3, PTL DEF ScreenSpec

-----------------------------------------------------------------------------
(***************************************************************************)
(* Relay.  Every connection is sound by itself; between connections only   *)
(* the buffers of the pool pass, and they are empty.                       *)
(***************************************************************************)
Dirs == [at : {"idle", "write", "shut"}, hold : Seq(STRING), got : Seq(STRING), count : Nat]
Verdicts == [proto : {"tls", "http", "bittorrent", "unknown"}, name : BOOLEAN, more : BOOLEAN]
LinkRecs ==
  [at : {"free", "peek", "dial", "prefix", "relay"}, script : Scripts \cup {NoScript}, sent : Nat,
   fin : BOOLEAN, rsent : Nat, rfin : BOOLEAN, read : Nat, rread : Nat, peek : Seq(STRING),
   pooled : BOOLEAN, verdict : Verdicts, cut : BOOLEAN, way : {"none", "splice", "copy"},
   up : Dirs, down : Dirs]

\* How far both ends are: nothing is read that was not sent.
Bounded(f) ==
  /\ f.script \in Scripts /\ f.read <= f.sent /\ f.sent <= Len(f.script.atoms)
  /\ f.fin => f.sent = Len(f.script.atoms)
  /\ f.rread <= f.rsent /\ f.rsent <= Len(Reply)

\* What was passed on, what is on its way and what is still in the buffer are, in
\* this order, what was read.
UpIntact(f) ==
  /\ (f.up.got \o f.up.hold) \o f.peek = SubSeq(f.script.atoms, 1, f.read)
  /\ f.up.count = Len(f.up.got)
  /\ f.up.at # "write" => f.up.hold = <<>>
  /\ f.up.at = "shut" => f.up.got = f.script.atoms
DownIntact(f) ==
  /\ f.down.got \o f.down.hold = SubSeq(Reply, 1, f.rread)
  /\ f.down.count = Len(f.down.got)
  /\ f.down.at # "write" => f.down.hold = <<>>

\* Before it relays a connection passes nothing on, and splice has no buffer.
Phased(f) ==
  /\ f.at = "relay" => f.way # "none" /\ (f.way = "splice" => f.peek = <<>>)
  /\ f.at # "relay" => f.way = "none" /\ f.up = Direction /\ f.down = Direction /\ f.rread = 0

VerdictHolds(f) ==
  f.at # "peek" /\ ~f.cut =>
    /\ f.verdict.proto = SniffAll(f.script.atoms).proto
    /\ f.verdict.name = SniffAll(f.script.atoms).name

Sound(f) ==
  f \in LinkRecs /\ (f.at # "free" => Bounded(f) /\ UpIntact(f) /\ DownIntact(f) /\ Phased(f) /\ VerdictHolds(f))

RelayInv ==
  /\ DOMAIN link = Links /\ \A c \in Links : Sound(link[c])
  /\ peekPool \in Seq({<<>>})

\* A verdict is a verdict.
LEMMA SniffTyped ==
  ASSUME NEW b \in Seq(STRING)
  PROVE  SniffAll(b) \in Verdicts
<1> DEFINE h == HasHost(b)  m == ~HasHost(b) /\ ~Contains(b, "end")
<1>1. h \in BOOLEAN /\ m \in BOOLEAN
  BY DEF HasHost, Contains
<1>2. \/ SniffAll(b) = [proto |-> "tls", name |-> TRUE, more |-> FALSE]
      \/ SniffAll(b) = [proto |-> "http", name |-> h, more |-> m]
      \/ SniffAll(b) = [Unknown EXCEPT !.proto = "bittorrent"]
      \/ SniffAll(b) = Unknown
  BY DEF SniffAll
<1> HIDE DEF h, m
<1>3. [proto |-> "tls", name |-> TRUE, more |-> FALSE] \in Verdicts
  BY DEF Verdicts
<1>4. [proto |-> "http", name |-> h, more |-> m] \in Verdicts
  BY <1>1 DEF Verdicts
<1>5. Unknown \in Verdicts
  BY DEF Verdicts, Unknown
<1>6. [Unknown EXCEPT !.proto = "bittorrent"] \in Verdicts
  BY <1>5 DEF Verdicts
<1> QED
  BY <1>2, <1>3, <1>4, <1>5, <1>6

\* What is sound says what the property says.
LEMMA SoundSuffices ==
  ASSUME RelayInv
  PROVE  RelayFaithful
<1>1. ASSUME NEW c \in Links, L(c).at # "free"
      PROVE  LET pending == IF L(c).at = "relay" /\ L(c).way = "splice" THEN <<>> ELSE L(c).peek
             IN /\ L(c).up.got \o L(c).up.hold \o pending = SubSeq(Atoms(c), 1, L(c).read)
                /\ L(c).down.got \o L(c).down.hold = SubSeq(Reply, 1, L(c).rread)
                /\ L(c).up.count = Len(L(c).up.got) /\ L(c).down.count = Len(L(c).down.got)
                /\ L(c).up.at = "shut" => L(c).up.got = Atoms(c)
  <2>1. UpIntact(L(c)) /\ DownIntact(L(c)) /\ Phased(L(c))
    BY <1>1 DEF RelayInv, Sound, L
  <2> QED
    BY <2>1 DEF UpIntact, DownIntact, Phased, Atoms
<1>2. ASSUME NEW c \in Links, L(c).at \notin {"free", "peek"}, ~L(c).cut
      PROVE  /\ L(c).verdict.proto = SniffAll(Atoms(c)).proto
             /\ L(c).verdict.name = SniffAll(Atoms(c)).name
  <2>1. VerdictHolds(L(c))
    BY <1>2 DEF RelayInv, Sound, L
  <2> QED
    BY <1>2, <2>1 DEF VerdictHolds, Atoms
<1> QED
  BY <1>1, <1>2 DEF RelayFaithful, StreamIntact, VerdictOfTheStream

\* A connection that is not there.
LEMMA NoLinkSound ==
  Sound(NoLink)
<1>1. <<>> \in Seq(STRING)
  OBVIOUS
<1>2. Direction \in Dirs /\ Unknown \in Verdicts
  BY <1>1 DEF Direction, Dirs, Unknown, Verdicts
<1>3. NoLink \in LinkRecs /\ NoLink.at = "free"
  BY <1>1, <1>2 DEF NoLink, LinkRecs
<1> QED
  BY <1>3 DEF Sound

\* Two pieces of a stream that follow each other.
LEMMA Joined2 ==
  ASSUME NEW S, NEW s \in Seq(S), NEW m \in 0 .. Len(s), NEW n \in m .. Len(s)
  PROVE  SubSeq(s, 1, m) \o SubSeq(s, m + 1, n) = SubSeq(s, 1, n)
<1>1. Len(s) \in Nat
  OBVIOUS
<1> QED
  BY <1>1, ConcatAdjacentSubSeq

\* A piece of a stream, and how long it is.
LEMMA Piece ==
  ASSUME NEW S, NEW s \in Seq(S), NEW m \in 1 .. Len(s) + 1, NEW n \in 0 .. Len(s)
  PROVE  SubSeq(s, m, n) \in Seq(S) /\ Len(SubSeq(s, m, n)) = IF m <= n THEN n - m + 1 ELSE 0
<1>1. Len(s) \in Nat
  OBVIOUS
<1>2. \A i \in m .. n : s[i] \in S
  BY <1>1, ElementOfSeq
<1> QED
  BY <1>1, <1>2, SubSeqProperties

\* What is looked at goes on to be dialled only with a verdict that holds.
LEMMA LookedSound ==
  ASSUME NEW f, Sound([f EXCEPT !.at = "peek"]), f \in LinkRecs, f.at = "peek", f.peek # <<>>
  PROVE  Sound(Looked(f))
<1> DEFINE a == f.script.atoms  g == Looked(f)
<1>1. /\ f \in LinkRecs /\ Bounded(f) /\ UpIntact(f) /\ DownIntact(f) /\ Phased(f)
  <2>1. [f EXCEPT !.at = "peek"] = f
    BY DEF LinkRecs
  <2> QED
    BY <2>1 DEF Sound
<1>2. f.peek \in Seq(STRING) /\ SniffAll(f.peek) \in Verdicts
  BY <1>1, SniffTyped DEF LinkRecs
<1>3. /\ g \in LinkRecs /\ g.at = (IF Final(f.peek) THEN "dial" ELSE "peek") /\ g.verdict = SniffAll(f.peek)
      /\ g.script = f.script /\ g.sent = f.sent /\ g.fin = f.fin /\ g.rsent = f.rsent /\ g.rread = f.rread
      /\ g.read = f.read /\ g.peek = f.peek /\ g.cut = f.cut /\ g.way = f.way /\ g.up = f.up /\ g.down = f.down
  BY <1>1, <1>2 DEF Looked, LinkRecs
<1> HIDE DEF g
<1>4. a \in Seq(STRING) /\ f.read \in 0 .. Len(a) /\ Len(a) \in Nat
  BY <1>1, RelayConstants DEF Bounded, LinkRecs
<1>5. f.peek = SubSeq(a, 1, f.read)
  <2>1. f.up = Direction
    BY <1>1 DEF Phased
  <2>2. (<<>> \o <<>>) \o f.peek = SubSeq(a, 1, f.read)
    BY <1>1, <2>1 DEF UpIntact, Direction
  <2> QED
    BY <1>2, <2>2
<1>6. f.read \in 1 .. Len(a)
  BY <1>4, <1>5
<1>7. Final(f.peek) => SniffAll(f.peek).proto = SniffAll(a).proto /\ SniffAll(f.peek).name = SniffAll(a).name
  BY <1>1, <1>5, <1>6, RelayConstants DEF Bounded
<1>8. VerdictHolds(g)
  BY <1>3, <1>7 DEF VerdictHolds
<1>9. Bounded(g) /\ UpIntact(g) /\ DownIntact(g) /\ Phased(g)
  BY <1>1, <1>3 DEF Bounded, UpIntact, DownIntact, Phased
<1> QED
  BY <1>3, <1>8, <1>9 DEF Sound, g

\* Accepted: what the inbound read already is in the buffer, and the buffer was empty.
LEMMA AcceptSound ==
  ASSUME RelayInv, NEW c \in Links, NEW s \in Scripts, NEW sniff \in BOOLEAN, Accepts(c, s, sniff)
  PROVE  RelayInv'
<1> DEFINE early == SubSeq(s.atoms, 1, s.early)
           new == [NoLink EXCEPT !.script = s, !.sent = s.early, !.read = s.early]
           seeded == [new EXCEPT !.peek = Pooled \o early, !.pooled = TRUE, !.at = "peek"]
           direct == [new EXCEPT !.peek = early, !.at = "dial", !.cut = TRUE]
<1>1. s.atoms \in Seq(STRING) /\ s.early \in 0 .. Len(s.atoms) /\ Len(s.atoms) \in Nat
  BY RelayConstants
<1>2. early \in Seq(STRING)
  BY <1>1, Piece
<1>3. Pooled = <<>>
  <2>1. CASE peekPool = <<>>
    BY <2>1 DEF Pooled
  <2>2. CASE peekPool # <<>>
    <3>1. Len(peekPool) \in 1 .. Len(peekPool) /\ peekPool \in Seq({<<>>})
      BY <2>2 DEF RelayInv
    <3>2. peekPool[Len(peekPool)] \in {<<>>}
      BY <3>1, ElementOfSeq
    <3> QED
      BY <2>2, <3>2 DEF Pooled, Last
  <2> QED
    BY <2>1, <2>2
<1>4. Pooled \o early = early
  BY <1>2, <1>3, ConcatEmptySeq
<1>5. NoLink \in LinkRecs /\ Direction \in Dirs
  <2>1. NoLink.up = Direction
    BY DEF NoLink
  <2> QED
    BY <2>1, NoLinkSound DEF Sound, LinkRecs
<1>6. ASSUME NEW f, f.peek = early, f.at \in {"peek", "dial"}, f \in LinkRecs, f.at = "dial" => f.cut,
             f.script = s, f.sent = s.early, f.read = s.early, f.fin = FALSE, f.rread = 0, f.rsent = 0,
             f.way = "none", f.up = Direction, f.down = Direction
      PROVE  Sound(f)
  <2>1. Bounded(f)
    BY <1>1, <1>6 DEF Bounded
  <2>2. UpIntact(f)
    <3>1. (<<>> \o <<>>) \o early = early
      BY <1>2, ConcatEmptySeq
    <3>2. Len(<<>>) = 0
      OBVIOUS
    <3>3. /\ f.up.got = <<>> /\ f.up.hold = <<>> /\ f.up.count = 0 /\ f.up.at = "idle"
          /\ f.peek = early /\ f.script.atoms = s.atoms /\ f.read = s.early
      BY <1>6 DEF Direction
    <3> QED
      BY <3>1, <3>2, <3>3 DEF UpIntact
  <2>3. DownIntact(f)
    <3>1. SubSeq(Reply, 1, 0) = <<>> /\ <<>> \o <<>> = <<>> /\ Len(<<>>) = 0
      OBVIOUS
    <3> QED
      BY <1>6, <3>1 DEF DownIntact, Direction
  <2>4. Phased(f) /\ VerdictHolds(f)
    BY <1>6 DEF Phased, VerdictHolds
  <2> QED
    BY <1>6, <2>1, <2>2, <2>3, <2>4 DEF Sound
<1>7. /\ new \in LinkRecs /\ new.script = s /\ new.sent = s.early /\ new.read = s.early /\ new.fin = FALSE
      /\ new.rread = 0 /\ new.rsent = 0 /\ new.way = "none" /\ new.up = Direction /\ new.down = Direction
  <2>1. /\ NoLink.fin = FALSE /\ NoLink.rread = 0 /\ NoLink.rsent = 0 /\ NoLink.way = "none"
        /\ NoLink.up = Direction /\ NoLink.down = Direction
    BY DEF NoLink
  <2>2. s.early \in Nat
    BY <1>1
  <2>3. new \in LinkRecs
    BY <1>5, <2>2 DEF LinkRecs
  <2>4. /\ new.script = s /\ new.sent = s.early /\ new.read = s.early /\ new.fin = NoLink.fin
        /\ new.rread = NoLink.rread /\ new.rsent = NoLink.rsent /\ new.way = NoLink.way
        /\ new.up = NoLink.up /\ new.down = NoLink.down
    BY <1>5 DEF LinkRecs
  <2> QED
    BY <2>1, <2>3, <2>4
<1> HIDE DEF new, early
<1>8. Sound(seeded) /\ seeded \in LinkRecs /\ seeded.at = "peek" /\ seeded.peek = early
  <2>1. seeded = [new EXCEPT !.peek = early, !.pooled = TRUE, !.at = "peek"]
    BY <1>4
  <2> HIDE DEF seeded
  <2>2. /\ seeded \in LinkRecs /\ seeded.peek = early /\ seeded.at = "peek" /\ seeded.script = s
        /\ seeded.sent = s.early /\ seeded.read = s.early /\ seeded.fin = FALSE
        /\ seeded.rread = 0 /\ seeded.rsent = 0 /\ seeded.way = "none"
        /\ seeded.up = Direction /\ seeded.down = Direction
    BY <1>2, <1>7, <2>1 DEF LinkRecs
  <2> QED
    BY <1>6, <2>2
<1>9. Sound(direct)
  <2>1. /\ direct \in LinkRecs /\ direct.peek = early /\ direct.at = "dial" /\ direct.cut = TRUE
        /\ direct.script = s /\ direct.sent = s.early /\ direct.read = s.early /\ direct.fin = FALSE
        /\ direct.rread = 0 /\ direct.rsent = 0 /\ direct.way = "none"
        /\ direct.up = Direction /\ direct.down = Direction
    BY <1>2, <1>7 DEF LinkRecs
  <2> HIDE DEF direct
  <2> QED
    BY <1>6, <2>1
<1> HIDE DEF seeded, direct
<1>10. seeded.peek # <<>> => Sound(Looked(seeded))
  <2>1. [seeded EXCEPT !.at = "peek"] = seeded
    BY <1>8 DEF LinkRecs
  <2> QED
    BY <1>8, <2>1, LookedSound
<1>11. PICK f \in {seeded, direct, Looked(seeded)} : Sound(f) /\ link' = [link EXCEPT ![c] = f]
  <2>1. CASE sniff
    BY <1>8, <1>10, <2>1 DEF Accepts, SetLink, seeded, new, early
  <2>2. CASE ~sniff
    BY <1>9, <2>2 DEF Accepts, SetLink, direct, new, early
  <2> QED
    BY <2>1, <2>2
<1>12. peekPool' \in Seq({<<>>})
  <2>1. CASE peekPool = <<>> \/ ~sniff
    BY <2>1 DEF Accepts, RelayInv
  <2>2. CASE peekPool # <<>> /\ sniff
    <3>1. peekPool' = SubSeq(peekPool, 1, Len(peekPool) - 1)
      BY <2>2 DEF Accepts, Front
    <3>2. peekPool \in Seq({<<>>}) /\ Len(peekPool) - 1 \in 0 .. Len(peekPool) /\ 1 \in 1 .. Len(peekPool) + 1
      BY <2>2 DEF RelayInv
    <3> QED
      BY <3>1, <3>2, Piece
  <2> QED
    BY <2>1, <2>2
<1> QED
  BY <1>11, <1>12 DEF RelayInv

\* A step of one connection that leaves the pool alone, or gives a buffer back empty.
LEMMA StepSuffices ==
  ASSUME RelayInv, NEW c \in Links, NEW f, Sound(f), SetLink(c, f), UNCHANGED peekPool \/ GiveBack(c)
  PROVE  RelayInv'
<1>1. peekPool' \in Seq({<<>>})
  <2>1. Append(peekPool, <<>>) \in Seq({<<>>})
    BY DEF RelayInv
  <2> QED
    BY <2>1 DEF GiveBack, RelayInv
<1> QED
  BY <1>1 DEF RelayInv, SetLink

\* More of the client's bytes in the buffer.
LEMMA PeekReadsSound ==
  ASSUME RelayInv, NEW c \in Links, PeekReads(c)
  PROVE  RelayInv'
<1> DEFINE f == L(c)  a == f.script.atoms
<1>1. Sound(f) /\ f.at = "peek"
  BY DEF RelayInv, PeekReads, L
<1>2. PICK n \in 1 .. f.sent - f.read :
        SetLink(c, Looked([f EXCEPT !.peek = @ \o SubSeq(a, f.read + 1, f.read + n), !.read = @ + n]))
  BY DEF PeekReads, Atoms
<1> DEFINE more == SubSeq(a, f.read + 1, f.read + n)
           g == [f EXCEPT !.peek = @ \o more, !.read = @ + n]
<1>3. f \in LinkRecs /\ Bounded(f) /\ UpIntact(f) /\ DownIntact(f) /\ Phased(f)
  BY <1>1 DEF Sound
<1>4. /\ a \in Seq(STRING) /\ Len(a) \in Nat /\ f.read \in Nat /\ f.sent \in Nat /\ f.sent <= Len(a)
      /\ f.read <= f.sent /\ f.peek \in Seq(STRING)
      /\ n \in Nat \ {0} /\ f.read + n <= f.sent
  <2>1. /\ a \in Seq(STRING) /\ Len(a) \in Nat /\ f.read \in Nat /\ f.sent \in Nat /\ f.sent <= Len(a)
        /\ f.read <= f.sent /\ f.peek \in Seq(STRING)
    BY <1>3, RelayConstants DEF Bounded, LinkRecs
  <2>2. n \in 1 .. f.sent - f.read
    BY <1>2
  <2> HIDE DEF f
  <2>3. n \in Nat \ {0} /\ f.read + n <= f.sent
    BY <2>1, <2>2
  <2> QED
    BY <2>1, <2>3
<1> HIDE DEF f, a
<1>5. more \in Seq(STRING) /\ Len(more) = n
  <2>1. f.read + 1 \in 1 .. Len(a) + 1 /\ f.read + n \in 0 .. Len(a) /\ f.read + 1 <= f.read + n
    BY <1>4
  <2> QED
    BY <1>4, <2>1, Piece
<1> HIDE DEF more
<1>6. f.peek \o more \in Seq(STRING) /\ Len(f.peek \o more) = Len(f.peek) + n /\ Len(f.peek) \in Nat
  <2>1. f.peek \in Seq(STRING)
    BY <1>4
  <2>2. /\ f.peek \o more \in Seq(STRING) /\ Len(f.peek \o more) = Len(f.peek) + Len(more)
        /\ Len(f.peek) \in Nat
    BY <1>5, <2>1, ConcatProperties, LenProperties
  <2> QED
    BY <1>5, <2>2
<1>7. f.peek = SubSeq(a, 1, f.read)
  <2>1. f.up.got = <<>> /\ f.up.hold = <<>>
    BY <1>1, <1>3 DEF Phased, Direction
  <2>2. (<<>> \o <<>>) \o f.peek = f.peek
    BY <1>4, ConcatEmptySeq
  <2> QED
    BY <1>3, <2>1, <2>2 DEF UpIntact, a
<1>8. f.peek \o more = SubSeq(a, 1, f.read + n)
  <2>1. f.read \in 0 .. Len(a) /\ f.read + n \in f.read .. Len(a)
    BY <1>4
  <2> QED
    BY <1>4, <1>7, <2>1, Joined2 DEF more
<1>9. f.read + n \in Nat /\ f.read + n <= f.sent
  BY <1>4
<1>10. /\ g \in LinkRecs /\ g.peek = f.peek \o more /\ g.read = f.read + n
       /\ g.at = f.at /\ g.script = f.script /\ g.sent = f.sent /\ g.fin = f.fin /\ g.rsent = f.rsent
       /\ g.rread = f.rread /\ g.cut = f.cut /\ g.way = f.way /\ g.up = f.up /\ g.down = f.down
  BY <1>3, <1>6, <1>9 DEF LinkRecs
<1> HIDE DEF g
<1>11. Sound(g) /\ g.at = "peek" /\ g.peek # <<>>
  <2>1. g.at = "peek" /\ g.peek # <<>>
    BY <1>1, <1>6, <1>10
  <2>2. Bounded(g) /\ Phased(g) /\ DownIntact(g) /\ VerdictHolds(g)
    BY <1>3, <1>9, <1>10, <2>1 DEF Bounded, Phased, DownIntact, VerdictHolds
  <2>3. UpIntact(g)
    <3>1. f.up.got = <<>> /\ f.up.hold = <<>>
      BY <1>1, <1>3 DEF Phased, Direction
    <3>2. (<<>> \o <<>>) \o (f.peek \o more) = f.peek \o more
      BY <1>6, ConcatEmptySeq
    <3> QED
      BY <1>3, <1>8, <1>10, <3>1, <3>2 DEF UpIntact, a
  <2> QED
    BY <1>10, <2>1, <2>2, <2>3 DEF Sound
<1>12. Sound(Looked(g))
  <2>1. [g EXCEPT !.at = "peek"] = g
    BY <1>10, <1>11 DEF LinkRecs
  <2> QED
    BY <1>10, <1>11, <2>1, LookedSound
<1>13. SetLink(c, Looked(g)) /\ UNCHANGED peekPool
  BY <1>2 DEF g, f, a, more, PeekReads
<1> QED
  BY <1>12, <1>13, StepSuffices

\* The sniffing ends, a connection ends, or the dialling is done.
LEMMA StopsSound ==
  ASSUME RelayInv, NEW c \in Links, PeekStops(c) \/ LinkDrops(c) \/ Joined(c) \/ Dialled(c)
  PROVE  RelayInv'
<1> DEFINE f == L(c)
<1>1. Sound(f) /\ f \in LinkRecs
  BY DEF RelayInv, Sound, L
<1>2. ASSUME SetLink(c, NoLink), GiveBack(c)
      PROVE  RelayInv'
  BY <1>2, NoLinkSound, StepSuffices
<1>3. ASSUME f.at = "peek", SetLink(c, [f EXCEPT !.at = "dial", !.cut = TRUE]), UNCHANGED peekPool
      PROVE  RelayInv'
  <2> DEFINE g == [f EXCEPT !.at = "dial", !.cut = TRUE]
  <2> HIDE DEF f
  <2>1. /\ g \in LinkRecs /\ g.at = "dial" /\ g.cut = TRUE /\ g.script = f.script /\ g.sent = f.sent
        /\ g.fin = f.fin /\ g.rsent = f.rsent /\ g.rread = f.rread /\ g.read = f.read /\ g.peek = f.peek
        /\ g.way = f.way /\ g.up = f.up /\ g.down = f.down
    BY <1>1 DEF LinkRecs
  <2> HIDE DEF g
  <2>2. Sound(g)
    BY <1>1, <1>3, <2>1 DEF Sound, Bounded, UpIntact, DownIntact, Phased, VerdictHolds
  <2> QED
    BY <1>3, <2>2, StepSuffices DEF g
<1>4. ASSUME f.at = "dial", SetLink(c, [f EXCEPT !.at = "prefix"]), UNCHANGED peekPool
      PROVE  RelayInv'
  <2> DEFINE g == [f EXCEPT !.at = "prefix"]
  <2> HIDE DEF f
  <2>1. /\ g \in LinkRecs /\ g.at = "prefix" /\ g.cut = f.cut /\ g.script = f.script /\ g.sent = f.sent
        /\ g.fin = f.fin /\ g.rsent = f.rsent /\ g.rread = f.rread /\ g.read = f.read /\ g.peek = f.peek
        /\ g.way = f.way /\ g.up = f.up /\ g.down = f.down /\ g.verdict = f.verdict
    BY <1>1 DEF LinkRecs
  <2> HIDE DEF g
  <2>2. Sound(g)
    BY <1>1, <1>4, <2>1 DEF Sound, Bounded, UpIntact, DownIntact, Phased, VerdictHolds
  <2> QED
    BY <1>4, <2>2, StepSuffices DEF g
<1> QED
  BY <1>2, <1>3, <1>4 DEF PeekStops, LinkDrops, Joined, Ends, Dialled

\* The peeked bytes go first, whichever way is taken.
LEMMA PrefixSound ==
  ASSUME RelayInv, NEW c \in Links, WritesPrefix(c) \/ IntoReplay(c)
  PROVE  RelayInv'
<1> DEFINE f == L(c)
<1>1. Sound(f) /\ f \in LinkRecs /\ f.at = "prefix"
  BY DEF RelayInv, Sound, L, WritesPrefix, IntoReplay
<1>2. /\ Bounded(f) /\ UpIntact(f) /\ DownIntact(f) /\ VerdictHolds(f) /\ f.up = Direction /\ f.down = Direction
      /\ f.peek \in Seq(STRING) /\ f.up \in Dirs
  BY <1>1 DEF Sound, Phased, LinkRecs
<1>3. /\ f.up.at = "idle" /\ f.up.got = <<>> /\ f.up.hold = <<>> /\ (<<>> \o <<>>) \o f.peek = f.peek
      /\ (f.peek \o <<>>) \o <<>> = f.peek /\ Len(f.peek) \in Nat
  BY <1>2, ConcatEmptySeq DEF Direction
<1>4. CASE WritesPrefix(c)
  <2> DEFINE g == [f EXCEPT !.at = "relay", !.way = "splice", !.peek = <<>>, !.pooled = FALSE,
                            !.up.got = f.peek, !.up.count = Len(f.peek)]
             d == [f.up EXCEPT !.got = f.peek, !.count = Len(f.peek)]
  <2>1. SetLink(c, g) /\ GiveBack(c)
    BY <1>4 DEF WritesPrefix
  <2> HIDE DEF f
  <2>2. /\ d \in Dirs /\ d.at = "idle" /\ d.hold = <<>> /\ d.got = f.peek /\ d.count = Len(f.peek)
    BY <1>2, <1>3 DEF Dirs
  <2>3. g = [f EXCEPT !.at = "relay", !.way = "splice", !.peek = <<>>, !.pooled = FALSE, !.up = d]
    BY <1>1 DEF LinkRecs
  <2> HIDE DEF d
  <2>4. <<>> \in Seq(STRING)
    OBVIOUS
  <2>5. /\ g \in LinkRecs /\ g.at = "relay" /\ g.cut = f.cut /\ g.script = f.script /\ g.sent = f.sent
        /\ g.fin = f.fin /\ g.rsent = f.rsent /\ g.rread = f.rread /\ g.read = f.read /\ g.peek = <<>>
        /\ g.way = "splice" /\ g.up = d /\ g.down = f.down /\ g.verdict = f.verdict
    <3> DEFINE h == [f EXCEPT !.at = "relay", !.way = "splice", !.peek = <<>>]
    <3>1. g = [h EXCEPT !.pooled = FALSE, !.up = d]
      BY <2>3
    <3> HIDE DEF g
    <3>2. /\ h \in LinkRecs /\ h.at = "relay" /\ h.cut = f.cut /\ h.script = f.script /\ h.sent = f.sent
          /\ h.fin = f.fin /\ h.rsent = f.rsent /\ h.rread = f.rread /\ h.read = f.read /\ h.peek = <<>>
          /\ h.way = "splice" /\ h.down = f.down /\ h.verdict = f.verdict
      BY <1>1, <2>4 DEF LinkRecs
    <3> HIDE DEF h
    <3> QED
      BY <2>2, <3>1, <3>2 DEF LinkRecs
  <2> HIDE DEF g
  <2>6. UpIntact(g)
    BY <1>2, <1>3, <2>2, <2>5 DEF UpIntact
  <2>7. Bounded(g) /\ DownIntact(g) /\ Phased(g) /\ VerdictHolds(g)
    BY <1>1, <1>2, <2>5 DEF Bounded, DownIntact, Phased, VerdictHolds
  <2> QED
    BY <2>1, <2>5, <2>6, <2>7, StepSuffices DEF Sound
<1>5. CASE IntoReplay(c)
  <2> DEFINE g == [f EXCEPT !.at = "relay", !.way = "copy"]
  <2>1. SetLink(c, g) /\ UNCHANGED peekPool
    BY <1>5 DEF IntoReplay
  <2> HIDE DEF f
  <2>2. /\ g \in LinkRecs /\ g.at = "relay" /\ g.cut = f.cut /\ g.script = f.script /\ g.sent = f.sent
        /\ g.fin = f.fin /\ g.rsent = f.rsent /\ g.rread = f.rread /\ g.read = f.read /\ g.peek = f.peek
        /\ g.way = "copy" /\ g.up = f.up /\ g.down = f.down /\ g.verdict = f.verdict
    BY <1>1 DEF LinkRecs
  <2> HIDE DEF g
  <2>3. Bounded(g) /\ UpIntact(g) /\ DownIntact(g) /\ Phased(g) /\ VerdictHolds(g)
    BY <1>1, <1>2, <2>2 DEF Bounded, UpIntact, DownIntact, Phased, VerdictHolds
  <2> QED
    BY <2>1, <2>2, <2>3, StepSuffices DEF Sound
<1> QED
  BY <1>4, <1>5

\* The buffer first, and then what the client sent since.
LEMMA UpReadSound ==
  ASSUME RelayInv, NEW c \in Links, ReadsUp(c)
  PROVE  RelayInv'
<1> DEFINE f == L(c)  a == f.script.atoms
<1>1. /\ f \in LinkRecs /\ f.at = "relay" /\ f.up.at = "idle" /\ UNCHANGED peekPool
      /\ Bounded(f) /\ UpIntact(f) /\ DownIntact(f) /\ Phased(f) /\ VerdictHolds(f)
  BY DEF RelayInv, Sound, L, ReadsUp, Relaying, Pump
<1>2. /\ a \in Seq(STRING) /\ Len(a) \in Nat /\ f.read \in Nat /\ f.sent \in Nat /\ f.sent <= Len(a)
      /\ f.read <= f.sent /\ f.peek \in Seq(STRING) /\ f.up \in Dirs
  BY <1>1, RelayConstants DEF Bounded, LinkRecs
<1>3. f.up.hold = <<>> /\ f.up.got \in Seq(STRING) /\ (f.up.got \o <<>>) = f.up.got
  BY <1>1, <1>2, ConcatEmptySeq DEF UpIntact, Dirs
<1> DEFINE rest == SubSeq(a, f.read + 1, f.sent)
           g == [f EXCEPT !.up.at = "write", !.up.hold = f.peek, !.peek = <<>>]
           h == [f EXCEPT !.up.at = "write", !.up.hold = rest, !.read = f.sent]
<1>4. (f.way = "copy" /\ f.peek # <<>> /\ SetLink(c, g)) \/ (~(f.way = "copy" /\ f.peek # <<>>) /\ SetLink(c, h))
  BY DEF ReadsUp, Pump, Atoms
<1> HIDE DEF a, f
<1>5. CASE f.way = "copy" /\ f.peek # <<>> /\ SetLink(c, g)
  <2> DEFINE d == [f.up EXCEPT !.at = "write", !.hold = f.peek]
  <2>1. d \in Dirs /\ d.at = "write" /\ d.hold = f.peek /\ d.got = f.up.got /\ d.count = f.up.count
    BY <1>2 DEF Dirs
  <2>2. g = [f EXCEPT !.up = d, !.peek = <<>>]
    BY <1>1 DEF LinkRecs, d, g
  <2>0. <<>> \in Seq(STRING)
    OBVIOUS
  <2> HIDE DEF d
  <2>3. /\ g \in LinkRecs /\ g.at = f.at /\ g.cut = f.cut /\ g.script = f.script /\ g.sent = f.sent
        /\ g.fin = f.fin /\ g.rsent = f.rsent /\ g.rread = f.rread /\ g.read = f.read /\ g.peek = <<>>
        /\ g.way = f.way /\ g.up = d /\ g.down = f.down /\ g.verdict = f.verdict
    BY <1>1, <2>0, <2>1, <2>2 DEF LinkRecs
  <2> HIDE DEF g
  <2>4. UpIntact(g)
    <3>1. f.up.got \o f.peek \in Seq(STRING)
      BY <1>2, <1>3, ConcatProperties
    <3>2. (f.up.got \o f.peek) \o <<>> = f.up.got \o f.peek
      BY <3>1, ConcatEmptySeq
    <3> QED
      BY <1>1, <1>3, <2>1, <2>3, <3>2 DEF UpIntact
  <2>5. Bounded(g) /\ DownIntact(g) /\ Phased(g) /\ VerdictHolds(g)
    BY <1>1, <2>3 DEF Bounded, DownIntact, Phased, VerdictHolds
  <2> QED
    BY <1>1, <1>5, <2>3, <2>4, <2>5, StepSuffices DEF Sound
<1>6. CASE ~(f.way = "copy" /\ f.peek # <<>>) /\ SetLink(c, h)
  <2> DEFINE d == [f.up EXCEPT !.at = "write", !.hold = rest]
  <2>1. f.peek = <<>>
    BY <1>1, <1>6 DEF Phased, LinkRecs
  <2>2. rest \in Seq(STRING)
    <3>1. f.read + 1 \in 1 .. Len(a) + 1 /\ f.sent \in 0 .. Len(a)
      BY <1>2
    <3> QED
      BY <1>2, <3>1, Piece
  <2>3. SubSeq(a, 1, f.read) \o rest = SubSeq(a, 1, f.sent)
    <3>1. f.read \in 0 .. Len(a) /\ f.sent \in f.read .. Len(a)
      BY <1>2
    <3> QED
      BY <1>2, <3>1, Joined2
  <2> HIDE DEF rest
  <2>4. d \in Dirs /\ d.at = "write" /\ d.hold = rest /\ d.got = f.up.got /\ d.count = f.up.count
    BY <1>2, <2>2 DEF Dirs
  <2>5. h = [f EXCEPT !.up = d, !.read = f.sent]
    BY <1>1 DEF LinkRecs
  <2> HIDE DEF d
  <2>6. /\ h \in LinkRecs /\ h.at = f.at /\ h.cut = f.cut /\ h.script = f.script /\ h.sent = f.sent
        /\ h.fin = f.fin /\ h.rsent = f.rsent /\ h.rread = f.rread /\ h.read = f.sent /\ h.peek = f.peek
        /\ h.way = f.way /\ h.up = d /\ h.down = f.down /\ h.verdict = f.verdict
    BY <1>1, <1>2, <2>4, <2>5 DEF LinkRecs
  <2> HIDE DEF h
  <2>7. UpIntact(h)
    <3>1. f.up.got = SubSeq(a, 1, f.read)
      BY <1>1, <1>3, <2>1, ConcatEmptySeq DEF UpIntact, a
    <3>2. (f.up.got \o rest) \o <<>> = SubSeq(a, 1, f.sent)
      <4>1. f.up.got \o rest \in Seq(STRING)
        BY <1>3, <2>2, ConcatProperties
      <4> QED
        BY <2>3, <3>1, <4>1, ConcatEmptySeq
    <3> QED
      BY <1>1, <2>1, <2>4, <2>6, <3>2 DEF UpIntact, a
  <2>8. Bounded(h)
    BY <1>1, <1>2, <2>6 DEF Bounded
  <2>9. DownIntact(h) /\ VerdictHolds(h)
    BY <1>1, <2>6 DEF DownIntact, VerdictHolds
  <2>10. Phased(h)
    BY <1>1, <2>6 DEF Phased
  <2> QED
    BY <1>1, <1>6, <2>6, <2>7, <2>8, <2>9, <2>10, StepSuffices DEF Sound
<1> QED
  BY <1>4, <1>5, <1>6

\* What the server sent since.
LEMMA DownReadSound ==
  ASSUME RelayInv, NEW c \in Links, ReadsDown(c)
  PROVE  RelayInv'
<1> DEFINE f == L(c)
<1>1. /\ f \in LinkRecs /\ f.at = "relay" /\ f.down.at = "idle" /\ UNCHANGED peekPool
      /\ Bounded(f) /\ UpIntact(f) /\ DownIntact(f) /\ Phased(f) /\ VerdictHolds(f)
  BY DEF RelayInv, Sound, L, ReadsDown, Relaying, Pump
<1>2. /\ Reply \in Seq(STRING) /\ Len(Reply) \in Nat /\ f.rread \in Nat /\ f.rsent \in Nat
      /\ f.rsent <= Len(Reply) /\ f.rread <= f.rsent /\ f.down \in Dirs
  BY <1>1, RelayConstants DEF Bounded, LinkRecs
<1>3. f.down.hold = <<>> /\ f.down.got \in Seq(STRING) /\ (f.down.got \o <<>>) = f.down.got
  BY <1>1, <1>2, ConcatEmptySeq DEF DownIntact, Dirs
<1> DEFINE rest == SubSeq(Reply, f.rread + 1, f.rsent)
           h == [f EXCEPT !.down.at = "write", !.down.hold = rest, !.rread = f.rsent]
           d == [f.down EXCEPT !.at = "write", !.hold = rest]
<1>4. SetLink(c, h)
  BY DEF ReadsDown, Pump
<1> HIDE DEF f
<1>5. rest \in Seq(STRING)
  <2>1. f.rread + 1 \in 1 .. Len(Reply) + 1 /\ f.rsent \in 0 .. Len(Reply)
    BY <1>2
  <2> QED
    BY <1>2, <2>1, Piece
<1>6. SubSeq(Reply, 1, f.rread) \o rest = SubSeq(Reply, 1, f.rsent)
  <2>1. f.rread \in 0 .. Len(Reply) /\ f.rsent \in f.rread .. Len(Reply)
    BY <1>2
  <2> QED
    BY <1>2, <2>1, Joined2
<1> HIDE DEF rest
<1>7. d \in Dirs /\ d.at = "write" /\ d.hold = rest /\ d.got = f.down.got /\ d.count = f.down.count
  BY <1>2, <1>5 DEF Dirs
<1>8. h = [f EXCEPT !.down = d, !.rread = f.rsent]
  BY <1>1 DEF LinkRecs
<1> HIDE DEF d
<1>9. /\ h \in LinkRecs /\ h.at = f.at /\ h.cut = f.cut /\ h.script = f.script /\ h.sent = f.sent
      /\ h.fin = f.fin /\ h.rsent = f.rsent /\ h.rread = f.rsent /\ h.read = f.read /\ h.peek = f.peek
      /\ h.way = f.way /\ h.up = f.up /\ h.down = d /\ h.verdict = f.verdict
  BY <1>1, <1>2, <1>7, <1>8 DEF LinkRecs
<1> HIDE DEF h
<1>10. DownIntact(h)
  BY <1>1, <1>3, <1>6, <1>7, <1>9 DEF DownIntact
<1>11. Bounded(h)
  BY <1>1, <1>2, <1>9 DEF Bounded
<1>12. UpIntact(h) /\ VerdictHolds(h)
  BY <1>1, <1>9 DEF UpIntact, VerdictHolds
<1>13. Phased(h)
  BY <1>1, <1>9 DEF Phased
<1> QED
  BY <1>1, <1>4, <1>9, <1>10, <1>11, <1>12, <1>13, StepSuffices DEF Sound

\* Pieces of text join into text.
LEMMA JoinTwo ==
  ASSUME NEW a \in Seq(STRING), NEW b \in Seq(STRING)
  PROVE  a \o b \in Seq(STRING) /\ Len(a \o b) = Len(a) + Len(b)
BY ConcatProperties

\* However they are grouped, they join into the same text.
LEMMA JoinThree ==
  ASSUME NEW a \in Seq(STRING), NEW b \in Seq(STRING), NEW c \in Seq(STRING)
  PROVE  (a \o b) \o c = a \o (b \o c)
BY ConcatAssociative

\* What is written moves from the buffer to what was passed on, and is counted.
LEMMA WroteTyped ==
  ASSUME NEW d \in Dirs, NEW n \in Nat, n <= Len(d.hold), d.count = Len(d.got)
  PROVE  /\ Wrote(d, n) \in Dirs
         /\ Wrote(d, n).got \o Wrote(d, n).hold = d.got \o d.hold
         /\ Wrote(d, n).count = Len(Wrote(d, n).got)
         /\ Wrote(d, n).at # "write" => Wrote(d, n).hold = <<>>
         /\ Wrote(d, n).at \in {"idle", "write"}
<1> DEFINE hold == d.hold  got == d.got
           done == SubSeq(hold, 1, n)  left == SubSeq(hold, n + 1, Len(hold))
<1>1. hold \in Seq(STRING) /\ got \in Seq(STRING) /\ Len(hold) \in Nat /\ Len(got) \in Nat
  BY DEF Dirs
<1> HIDE DEF hold, got
<1>2. n <= Len(hold)
  BY DEF hold
<1>3. /\ done \in Seq(STRING) /\ Len(done) = n
  <2>1. 1 \in 1 .. Len(hold) + 1 /\ n \in 0 .. Len(hold)
    BY <1>1, <1>2
  <2>2. done \in Seq(STRING) /\ Len(done) = IF 1 <= n THEN n - 1 + 1 ELSE 0
    BY <1>1, <2>1, Piece
  <2> QED
    BY <2>2
<1>4. left \in Seq(STRING) /\ (n = Len(hold) => left = <<>>)
  <2>1. n + 1 \in 1 .. Len(hold) + 1 /\ Len(hold) \in 0 .. Len(hold)
    BY <1>1, <1>2
  <2>2. left \in Seq(STRING) /\ Len(left) = IF n + 1 <= Len(hold) THEN Len(hold) - (n + 1) + 1 ELSE 0
    BY <1>1, <2>1, Piece
  <2> HIDE DEF left
  <2>3. n = Len(hold) => Len(left) = 0
    BY <1>1, <2>2
  <2> QED
    BY <2>2, <2>3
<1>5. done \o left = hold
  <2>1. n \in 0 .. Len(hold) /\ Len(hold) \in n .. Len(hold)
    BY <1>1, <1>2
  <2>2. done \o left = SubSeq(hold, 1, Len(hold))
    BY <1>1, <2>1, Joined2
  <2> QED
    BY <1>1, <2>2, SubSeqFull
<1>6. Wrote(d, n) = [at |-> IF n = Len(hold) THEN "idle" ELSE "write", hold |-> left,
                     got |-> got \o done, count |-> d.count + n]
  BY DEF Wrote, hold, got
<1> HIDE DEF done, left
<1>7. got \o done \in Seq(STRING) /\ Len(got \o done) = Len(got) + n
  <2>1. got \o done \in Seq(STRING) /\ Len(got \o done) = Len(got) + Len(done)
    BY <1>1, <1>3, JoinTwo
  <2> QED
    BY <1>3, <2>1
<1>8. (got \o done) \o left = got \o hold
  <2>1. (got \o done) \o left = got \o (done \o left)
    BY <1>1, <1>3, <1>4, JoinThree
  <2> QED
    BY <1>5, <2>1
<1>9. d.count \in Nat /\ d.count = Len(got)
  BY <1>1 DEF Dirs, got
<1>10. Wrote(d, n) \in Dirs
  BY <1>1, <1>4, <1>6, <1>7, <1>9 DEF Dirs
<1>11. /\ Wrote(d, n).at = (IF n = Len(hold) THEN "idle" ELSE "write") /\ Wrote(d, n).hold = left
       /\ Wrote(d, n).got = got \o done /\ Wrote(d, n).count = d.count + n
  BY <1>6
<1> QED
  BY <1>1, <1>4, <1>7, <1>8, <1>9, <1>10, <1>11 DEF hold, got

\* Writing on, in whole buffers or in pieces.
LEMMA WriteSound ==
  ASSUME RelayInv, NEW c \in Links, WritesOn(c)
  PROVE  RelayInv'
<1> DEFINE f == L(c)
<1>1. /\ f \in LinkRecs /\ f.at = "relay" /\ UNCHANGED peekPool
      /\ Bounded(f) /\ UpIntact(f) /\ DownIntact(f) /\ Phased(f) /\ VerdictHolds(f)
  BY DEF RelayInv, Sound, L, WritesOn, Relaying, Pump
<1>2. \A d \in Dirs : \A n \in Moves(c, d) : n \in Nat /\ n <= Len(d.hold)
  BY DEF Moves, Dirs
<1>3. f.up \in Dirs /\ f.down \in Dirs
  BY <1>1 DEF LinkRecs
<1>4. CASE f.up.at = "write" /\ \E n \in Moves(c, f.up) : SetLink(c, [f EXCEPT !.up = Wrote(f.up, n)])
  <2>1. PICK n \in Moves(c, f.up) : SetLink(c, [f EXCEPT !.up = Wrote(f.up, n)])
    BY <1>4
  <2> DEFINE w == Wrote(f.up, n)  g == [f EXCEPT !.up = w]
  <2> HIDE DEF f
  <2>2. /\ w \in Dirs /\ w.got \o w.hold = f.up.got \o f.up.hold /\ w.count = Len(w.got)
        /\ (w.at # "write" => w.hold = <<>>) /\ w.at # "shut"
    BY <1>1, <1>2, <1>3, WroteTyped DEF UpIntact
  <2> HIDE DEF w
  <2>3. /\ g \in LinkRecs /\ g.at = f.at /\ g.cut = f.cut /\ g.script = f.script /\ g.sent = f.sent
        /\ g.fin = f.fin /\ g.rsent = f.rsent /\ g.rread = f.rread /\ g.read = f.read /\ g.peek = f.peek
        /\ g.way = f.way /\ g.up = w /\ g.down = f.down /\ g.verdict = f.verdict
    BY <1>1, <2>2 DEF LinkRecs
  <2> HIDE DEF g
  <2>4. Bounded(g) /\ UpIntact(g) /\ DownIntact(g) /\ Phased(g) /\ VerdictHolds(g)
    BY <1>1, <2>2, <2>3 DEF Bounded, UpIntact, DownIntact, Phased, VerdictHolds
  <2> QED
    BY <1>1, <2>1, <2>3, <2>4, StepSuffices DEF Sound, g, w
<1>5. CASE f.down.at = "write" /\ \E n \in Moves(c, f.down) : SetLink(c, [f EXCEPT !.down = Wrote(f.down, n)])
  <2>1. PICK n \in Moves(c, f.down) : SetLink(c, [f EXCEPT !.down = Wrote(f.down, n)])
    BY <1>5
  <2> DEFINE w == Wrote(f.down, n)  g == [f EXCEPT !.down = w]
  <2> HIDE DEF f
  <2>2. /\ w \in Dirs /\ w.got \o w.hold = f.down.got \o f.down.hold /\ w.count = Len(w.got)
        /\ (w.at # "write" => w.hold = <<>>) /\ w.at # "shut"
    BY <1>1, <1>2, <1>3, WroteTyped DEF DownIntact
  <2> HIDE DEF w
  <2>3. /\ g \in LinkRecs /\ g.at = f.at /\ g.cut = f.cut /\ g.script = f.script /\ g.sent = f.sent
        /\ g.fin = f.fin /\ g.rsent = f.rsent /\ g.rread = f.rread /\ g.read = f.read /\ g.peek = f.peek
        /\ g.way = f.way /\ g.up = f.up /\ g.down = w /\ g.verdict = f.verdict
    BY <1>1, <2>2 DEF LinkRecs
  <2> HIDE DEF g
  <2>4. Bounded(g) /\ UpIntact(g) /\ DownIntact(g) /\ Phased(g) /\ VerdictHolds(g)
    BY <1>1, <2>2, <2>3 DEF Bounded, UpIntact, DownIntact, Phased, VerdictHolds
  <2> QED
    BY <1>1, <2>1, <2>3, <2>4, StepSuffices DEF Sound, g, w
<1> QED
  BY <1>4, <1>5 DEF WritesOn, Pump

\* A direction is shut when all of it was passed on.
LEMMA EofSound ==
  ASSUME RelayInv, NEW c \in Links, EofUp(c) \/ EofDown(c)
  PROVE  RelayInv'
<1> DEFINE f == L(c)  a == f.script.atoms
<1>1. /\ f \in LinkRecs /\ f.at = "relay" /\ UNCHANGED peekPool
      /\ Bounded(f) /\ UpIntact(f) /\ DownIntact(f) /\ Phased(f) /\ VerdictHolds(f)
  BY DEF RelayInv, Sound, L, EofUp, EofDown, Relaying, Pump
<1>2. a \in Seq(STRING) /\ f.up \in Dirs /\ f.down \in Dirs /\ f.way \in {"none", "splice", "copy"}
  BY <1>1, RelayConstants DEF Bounded, LinkRecs
<1>3. CASE EofUp(c)
  <2> DEFINE g == [f EXCEPT !.up.at = "shut"]  d == [f.up EXCEPT !.at = "shut"]
  <2>1. /\ SetLink(c, g) /\ f.up.at = "idle" /\ f.fin /\ f.read = f.sent
        /\ f.way = "copy" => f.peek = <<>>
    BY <1>3 DEF EofUp, Pump
  <2> HIDE DEF f
  <2>2. d \in Dirs /\ d.at = "shut" /\ d.hold = f.up.hold /\ d.got = f.up.got /\ d.count = f.up.count
    BY <1>2 DEF Dirs
  <2>3. g = [f EXCEPT !.up = d]
    BY <1>1 DEF LinkRecs
  <2> HIDE DEF d
  <2>4. /\ g \in LinkRecs /\ g.at = f.at /\ g.cut = f.cut /\ g.script = f.script /\ g.sent = f.sent
        /\ g.fin = f.fin /\ g.rsent = f.rsent /\ g.rread = f.rread /\ g.read = f.read /\ g.peek = f.peek
        /\ g.way = f.way /\ g.up = d /\ g.down = f.down /\ g.verdict = f.verdict
    BY <1>1, <2>2, <2>3 DEF LinkRecs
  <2> HIDE DEF g
  <2>5. f.up.got = a
    <3>1. f.peek = <<>> /\ f.up.hold = <<>> /\ f.read = Len(a)
      BY <1>1, <1>2, <2>1 DEF Phased, UpIntact, Bounded
    <3>2. (f.up.got \o <<>>) \o <<>> = f.up.got
      <4>1. f.up.got \in Seq(STRING)
        BY <1>2 DEF Dirs
      <4> QED
        BY <4>1, ConcatEmptySeq
    <3>3. SubSeq(a, 1, Len(a)) = a
      BY <1>2, SubSeqFull
    <3> QED
      BY <1>1, <3>1, <3>2, <3>3 DEF UpIntact
  <2>6. UpIntact(g)
    BY <1>1, <2>1, <2>2, <2>4, <2>5 DEF UpIntact
  <2>7. Bounded(g) /\ DownIntact(g) /\ Phased(g) /\ VerdictHolds(g)
    BY <1>1, <2>4 DEF Bounded, DownIntact, Phased, VerdictHolds
  <2> QED
    BY <1>1, <2>1, <2>4, <2>6, <2>7, StepSuffices DEF Sound
<1>4. CASE EofDown(c)
  <2> DEFINE g == [f EXCEPT !.down.at = "shut"]  d == [f.down EXCEPT !.at = "shut"]
  <2>1. SetLink(c, g) /\ f.down.at = "idle"
    BY <1>4 DEF EofDown, Pump
  <2> HIDE DEF f
  <2>2. d \in Dirs /\ d.at = "shut" /\ d.hold = f.down.hold /\ d.got = f.down.got /\ d.count = f.down.count
    BY <1>2 DEF Dirs
  <2>3. g = [f EXCEPT !.down = d]
    BY <1>1 DEF LinkRecs
  <2> HIDE DEF d
  <2>4. /\ g \in LinkRecs /\ g.at = f.at /\ g.cut = f.cut /\ g.script = f.script /\ g.sent = f.sent
        /\ g.fin = f.fin /\ g.rsent = f.rsent /\ g.rread = f.rread /\ g.read = f.read /\ g.peek = f.peek
        /\ g.way = f.way /\ g.up = f.up /\ g.down = d /\ g.verdict = f.verdict
    BY <1>1, <2>2, <2>3 DEF LinkRecs
  <2> HIDE DEF g
  <2>5. DownIntact(g)
    BY <1>1, <2>1, <2>2, <2>4 DEF DownIntact
  <2>6. Bounded(g) /\ UpIntact(g) /\ Phased(g) /\ VerdictHolds(g)
    BY <1>1, <2>4 DEF Bounded, UpIntact, Phased, VerdictHolds
  <2> QED
    BY <1>1, <2>1, <2>4, <2>5, <2>6, StepSuffices DEF Sound
<1> QED
  BY <1>3, <1>4

\* The client and the server, whose sending changes only how far they are.
LEMMA SendsSound ==
  ASSUME RelayInv, NEW c \in Links, ClientSends(c) \/ ServerSends(c)
  PROVE  RelayInv'
<1> DEFINE f == L(c)  a == f.script.atoms
<1>1. /\ f \in LinkRecs /\ f.at # "free" /\ UNCHANGED peekPool
      /\ Bounded(f) /\ UpIntact(f) /\ DownIntact(f) /\ Phased(f) /\ VerdictHolds(f)
  BY DEF RelayInv, Sound, L, ClientSends, ServerSends, Relaying, Pump
<1>2. /\ Len(a) \in Nat /\ f.sent \in Nat /\ f.read \in Nat /\ f.rsent \in Nat /\ f.rread \in Nat
      /\ Len(Reply) \in Nat
  BY <1>1, RelayConstants DEF Bounded, LinkRecs
<1>3. \/ ~f.fin /\ f.sent < Len(a) /\ SetLink(c, [f EXCEPT !.sent = f.sent + 1])
      \/ ~f.fin /\ ~(f.sent < Len(a)) /\ SetLink(c, [f EXCEPT !.fin = TRUE])
      \/ f.rsent < Len(Reply) /\ SetLink(c, [f EXCEPT !.rsent = f.rsent + 1])
      \/ SetLink(c, [f EXCEPT !.rfin = TRUE])
  BY DEF ClientSends, ServerSends, Pump, Atoms
<1> HIDE DEF f, a
<1>4. ASSUME NEW g \in LinkRecs, SetLink(c, g), g.script = f.script, g.read = f.read, g.rread = f.rread,
             g.at = f.at, g.cut = f.cut, g.peek = f.peek, g.way = f.way, g.up = f.up, g.down = f.down,
             g.verdict = f.verdict,
             g.sent \in {f.sent, f.sent + 1}, g.sent <= Len(a), g.fin => g.sent = Len(a),
             g.rsent \in {f.rsent, f.rsent + 1}, g.rsent <= Len(Reply)
      PROVE  RelayInv'
  <2>1. Bounded(g)
    BY <1>1, <1>2, <1>4 DEF Bounded, a
  <2>2. UpIntact(g) /\ DownIntact(g)
    BY <1>1, <1>4 DEF UpIntact, DownIntact
  <2>3. Phased(g) /\ VerdictHolds(g)
    BY <1>1, <1>4 DEF Phased, VerdictHolds
  <2> QED
    BY <1>1, <1>4, <2>1, <2>2, <2>3, StepSuffices DEF Sound
<1>5. f.sent <= Len(a) /\ f.rsent <= Len(Reply) /\ (f.fin => f.sent = Len(a))
  BY <1>1 DEF Bounded, a
<1>6. CASE ~f.fin /\ f.sent < Len(a) /\ SetLink(c, [f EXCEPT !.sent = f.sent + 1])
  <2> DEFINE g == [f EXCEPT !.sent = f.sent + 1]
  <2>1. f.sent + 1 \in Nat /\ f.sent + 1 <= Len(a)
    BY <1>2, <1>6
  <2>2. /\ g \in LinkRecs /\ g.script = f.script /\ g.read = f.read /\ g.rread = f.rread
        /\ g.at = f.at /\ g.cut = f.cut /\ g.peek = f.peek /\ g.way = f.way /\ g.up = f.up /\ g.down = f.down
        /\ g.verdict = f.verdict /\ g.sent = f.sent + 1 /\ g.fin = f.fin /\ g.rsent = f.rsent
    BY <1>1, <2>1 DEF LinkRecs
  <2> HIDE DEF g
  <2> QED
    BY <1>4, <1>5, <1>6, <2>1, <2>2 DEF g
<1>7. CASE ~f.fin /\ ~(f.sent < Len(a)) /\ SetLink(c, [f EXCEPT !.fin = TRUE])
  <2> DEFINE g == [f EXCEPT !.fin = TRUE]
  <2>1. f.sent = Len(a)
    BY <1>2, <1>5, <1>7
  <2>2. /\ g \in LinkRecs /\ g.script = f.script /\ g.read = f.read /\ g.rread = f.rread
        /\ g.at = f.at /\ g.cut = f.cut /\ g.peek = f.peek /\ g.way = f.way /\ g.up = f.up /\ g.down = f.down
        /\ g.verdict = f.verdict /\ g.sent = f.sent /\ g.rsent = f.rsent
    BY <1>1 DEF LinkRecs
  <2> HIDE DEF g
  <2> QED
    BY <1>4, <1>5, <1>7, <2>1, <2>2 DEF g
<1>8. CASE f.rsent < Len(Reply) /\ SetLink(c, [f EXCEPT !.rsent = f.rsent + 1])
  <2> DEFINE g == [f EXCEPT !.rsent = f.rsent + 1]
  <2>1. f.rsent + 1 \in Nat /\ f.rsent + 1 <= Len(Reply)
    BY <1>2, <1>8
  <2>2. /\ g \in LinkRecs /\ g.script = f.script /\ g.read = f.read /\ g.rread = f.rread
        /\ g.at = f.at /\ g.cut = f.cut /\ g.peek = f.peek /\ g.way = f.way /\ g.up = f.up /\ g.down = f.down
        /\ g.verdict = f.verdict /\ g.sent = f.sent /\ g.fin = f.fin /\ g.rsent = f.rsent + 1
    BY <1>1, <2>1 DEF LinkRecs
  <2> HIDE DEF g
  <2> QED
    BY <1>4, <1>5, <1>8, <2>1, <2>2 DEF g
<1>9. CASE SetLink(c, [f EXCEPT !.rfin = TRUE])
  <2> DEFINE g == [f EXCEPT !.rfin = TRUE]
  <2>1. /\ g \in LinkRecs /\ g.script = f.script /\ g.read = f.read /\ g.rread = f.rread
        /\ g.at = f.at /\ g.cut = f.cut /\ g.peek = f.peek /\ g.way = f.way /\ g.up = f.up /\ g.down = f.down
        /\ g.verdict = f.verdict /\ g.sent = f.sent /\ g.fin = f.fin /\ g.rsent = f.rsent
    BY <1>1 DEF LinkRecs
  <2> HIDE DEF g
  <2> QED
    BY <1>4, <1>5, <1>9, <2>1 DEF g
<1> QED
  BY <1>3, <1>6, <1>7, <1>8, <1>9

\* One theorem per relay: every step of every connection keeps all of them sound.
LEMMA RelayKeeps ==
  ASSUME RelayInv, [RelayNext]_relayVars
  PROVE  RelayInv'
<1>1. CASE UNCHANGED relayVars
  BY <1>1 DEF relayVars, RelayInv
<1>2. ASSUME NEW c \in Links, RelayStep(c)
      PROVE  RelayInv'
  BY <1>2, PeekReadsSound, StopsSound, PrefixSound, UpReadSound, DownReadSound, WriteSound, EofSound DEF RelayStep
<1>3. ASSUME NEW c \in Links,
             LinkDrops(c) \/ ClientSends(c) \/ ServerSends(c) \/ \E s \in Scripts, sniff \in BOOLEAN : Accepts(c, s, sniff)
      PROVE  RelayInv'
  BY <1>3, StopsSound, SendsSound, AcceptSound
<1> QED
  BY <1>1, <1>2, <1>3 DEF RelayNext

\* Whatever the sizes of the reads and of the writes, and whenever a connection ends
\* (peek_and_sniff, ReplayReader, counting_copy, adaptive_copy): the server gets the
\* client's bytes and the client the server's, each counted once, none of another
\* connection through a pooled buffer, and the verdict is that on the whole stream.
THEOREM RelayKeepsStreams == RelaySpec => []RelayFaithful
<1>1. RelayInit => RelayInv
  <2>1. <<>> \in Seq({<<>>})
    OBVIOUS
  <2> QED
    BY <2>1, NoLinkSound DEF RelayInit, RelayInv
<1>2. RelayInv /\ [RelayNext]_relayVars => RelayInv'
  BY RelayKeeps
<1>3. RelayInv => RelayFaithful
  BY SoundSuffices
<1> QED
  BY <1>1, <1>2, <1>3, PTL DEF RelaySpec

-----------------------------------------------------------------------------
(***************************************************************************)
(* The web interface (Web): what a connection has left of a body wherever  *)
(* its task is, and who holds the gate.                                    *)
(***************************************************************************)

Asked == [route : STRING, kind : STRING, body : Nat, chunked : BOOLEAN, ka : BOOLEAN, ok : BOOLEAN]
AtRest == {"new", "head", "closed"}
Places == AtRest \cup {"route", "drain", "upload", "await", "answer", "tunnel", "body", "serve", "stream"}
Tasks == [at : Places, req : Asked \cup {NoRequest}, left : Nat, skipped : BOOLEAN]

\* A task that serves a request knows which, and has read all of its body where the
\* code waits for clash, or for the next head but for a 502.
TaskOK(k) ==
  /\ k \in Tasks
  /\ k.at \notin AtRest => k.req \in Asked
  /\ k.at \in {"new", "await", "answer", "tunnel", "serve"} => k.left = 0
  /\ k.at = "head" /\ ~k.skipped => k.left = 0

\* A task that has clash test a group.
Tests(k) == /\ k.at \in {"upload", "await", "answer", "tunnel"}
            /\ k.req.route = "clash" /\ k.req.kind = "group"
Testing == {c \in Browsers : Tests(conn[c])}

\* The gate is shut for one task that tests, and open when none does.
GateHeld ==
  \/ inflight = {} /\ Testing = {}
  \/ inflight = {"g"} /\ \E c \in Browsers : Testing = {c}

\* The flag tells of the child that runs.
OneReload == /\ reload \in [flag : BOOLEAN, children : Nat]
             /\ reload.children = IF reload.flag THEN 1 ELSE 0

TasksOK == conn \in [Browsers -> Tasks] /\ \A c \in Browsers : TaskOK(conn[c])

WebInv == TasksOK /\ GateHeld /\ OneReload

\* Gate::drop is for the task that tests.
LEMMA TestsIs ==
  ASSUME NEW c \in Browsers
  PROVE  Proxying(c) /\ Gated(c) <=> Tests(conn[c])
BY DEF Proxying, Gated, Tests, Req

\* What a task goes to.
Gone(k, at, skips) ==
  [at |-> at, req |-> IF at \in {"head", "closed"} THEN NoRequest ELSE k.req,
   left |-> IF at = "closed" THEN 0 ELSE k.left, skipped |-> at = "head" /\ skips]

\* Goes sets the task to that, ...
LEMMA GoneIs ==
  ASSUME TasksOK, NEW c \in Browsers, NEW at, NEW skips \in BOOLEAN, Goes(c, at, skips)
  PROVE  conn' = [conn EXCEPT ![c] = Gone(conn[c], at, skips)]
BY DEF TasksOK, Goes, Gone

\* ... which is in order when what is left of the body is.
LEMMA GoneOK ==
  ASSUME NEW k, TaskOK(k), NEW at \in Places, NEW skips \in BOOLEAN,
         at \notin AtRest => k.req \in Asked,
         at \in {"new", "await", "answer", "tunnel", "serve"} => k.left = 0,
         at = "head" /\ ~skips => k.left = 0
  PROVE  TaskOK(Gone(k, at, skips))
BY DEF TaskOK, Gone, Tasks, AtRest, Places

\* A step of one task that leaves the gate to the one that holds it, ...
LEMMA SameTest ==
  ASSUME WebInv, NEW c \in Browsers, NEW k, TaskOK(k), conn' = [conn EXCEPT ![c] = k],
         Tests(k) <=> Tests(conn[c]), inflight' = inflight, OneReload'
  PROVE  WebInv'
<1>1. conn' \in [Browsers -> Tasks] /\ \A b \in Browsers : conn'[b] = IF b = c THEN k ELSE conn[b]
  BY DEF WebInv, TasksOK, TaskOK
<1>2. TasksOK'
  BY <1>1 DEF WebInv, TasksOK
<1>3. Testing' = Testing
  BY <1>1 DEF Testing
<1> QED
  BY <1>2, <1>3 DEF WebInv, GateHeld

\* ... one that takes the open gate, ...
LEMMA TestBegins ==
  ASSUME WebInv, NEW c \in Browsers, NEW k, TaskOK(k), conn' = [conn EXCEPT ![c] = k],
         Tests(k), inflight = {}, inflight' = {"g"}, OneReload'
  PROVE  WebInv'
<1>1. conn' \in [Browsers -> Tasks] /\ \A b \in Browsers : conn'[b] = IF b = c THEN k ELSE conn[b]
  BY DEF WebInv, TasksOK, TaskOK
<1>2. TasksOK'
  BY <1>1 DEF WebInv, TasksOK
<1>3. Testing = {}
  BY DEF WebInv, GateHeld
<1>4. Testing' = {c}
  BY <1>1, <1>3 DEF Testing
<1> QED
  BY <1>2, <1>4 DEF WebInv, GateHeld

\* ... and one after which it does not test, if it did.
LEMMA TestEnds ==
  ASSUME WebInv, NEW c \in Browsers, NEW k, TaskOK(k), conn' = [conn EXCEPT ![c] = k],
         ~Tests(k), inflight' = GateDropped(c), OneReload'
  PROVE  WebInv'
<1>1. conn' \in [Browsers -> Tasks] /\ \A b \in Browsers : conn'[b] = IF b = c THEN k ELSE conn[b]
  BY DEF WebInv, TasksOK, TaskOK
<1>2. TasksOK'
  BY <1>1 DEF WebInv, TasksOK
<1>3. inflight' = IF Tests(conn[c]) THEN inflight \ {"g"} ELSE inflight
  BY TestsIs DEF GateDropped
<1>4. CASE Tests(conn[c])
  <2>1. c \in Testing
    BY <1>4 DEF Testing
  <2>2. Testing = {c} /\ inflight = {"g"}
    BY <2>1 DEF WebInv, GateHeld
  <2>3. Testing' = {} /\ inflight' = {}
    BY <1>1, <1>3, <1>4, <2>2 DEF Testing
  <2> QED
    BY <1>2, <2>3 DEF WebInv, GateHeld
<1>5. CASE ~Tests(conn[c])
  <2>1. Testing' = Testing /\ inflight' = inflight
    BY <1>1, <1>3, <1>5 DEF Testing
  <2> QED
    BY <1>2, <2>1 DEF WebInv, GateHeld
<1> QED
  BY <1>4, <1>5

\* A task that tests is at one of the four places where clash has its request.
LEMMA GoneTests ==
  ASSUME NEW k, NEW at, NEW skips, at \notin {"upload", "await", "answer", "tunnel"}
  PROVE  ~Tests(Gone(k, at, skips))
BY DEF Tests, Gone

\* The usual case: a task goes where nothing is tested, from where nothing is.
LEMMA Quietly ==
  ASSUME WebInv, NEW c \in Browsers, NEW at \in Places, NEW skips \in BOOLEAN, Goes(c, at, skips),
         ~Tests(conn[c]), at \notin {"upload", "await", "answer", "tunnel"},
         inflight' = inflight, reload' = reload \/ OneReload',
         at \notin AtRest => conn[c].req \in Asked,
         at \in {"new", "serve"} => conn[c].left = 0,
         at = "head" /\ ~skips => conn[c].left = 0
  PROVE  WebInv'
<1> DEFINE k == Gone(conn[c], at, skips)
<1>1. conn' = [conn EXCEPT ![c] = k]
  BY GoneIs DEF WebInv
<1>2. TaskOK(k)
  <2>1. TaskOK(conn[c])
    BY DEF WebInv, TasksOK
  <2> QED
    BY <2>1, GoneOK
<1>3. ~Tests(k)
  BY GoneTests
<1>4. OneReload'
  BY DEF WebInv, OneReload
<1> HIDE DEF k
<1> QED
  BY <1>1, <1>2, <1>3, <1>4, SameTest

\* A piece of a body is read.
LEMMA PieceRead ==
  ASSUME WebInv, NEW c \in Browsers, conn[c].at \in {"drain", "body", "upload"}, conn[c].left > 0,
         conn' = [conn EXCEPT ![c].left = @ - 1], inflight' = inflight, reload' = reload
  PROVE  WebInv'
<1> DEFINE k == [conn[c] EXCEPT !.left = @ - 1]
<1>1. TaskOK(conn[c]) /\ conn \in [Browsers -> Tasks]
  BY DEF WebInv, TasksOK
<1>2. conn' = [conn EXCEPT ![c] = k]
  BY <1>1
<1>3. TaskOK(k) /\ (Tests(k) <=> Tests(conn[c]))
  BY <1>1 DEF TaskOK, Tasks, Tests
<1>4. OneReload'
  BY DEF WebInv, OneReload
<1> HIDE DEF k
<1> QED
  BY <1>2, <1>3, <1>4, SameTest

\* A task leaves the request, and with it the gate.
LEMMA Leaves ==
  ASSUME WebInv, NEW c \in Browsers, NEW at \in {"head", "closed"}, StepsTo(c, at),
         at = "head" => conn[c].left = 0, inflight' = GateDropped(c), reload' = reload
  PROVE  WebInv'
<1> DEFINE k == Gone(conn[c], at, FALSE)
<1>1. conn' = [conn EXCEPT ![c] = k]
  BY GoneIs DEF WebInv, StepsTo
<1>2. TaskOK(k)
  <2>1. TaskOK(conn[c])
    BY DEF WebInv, TasksOK
  <2>2. at \in Places /\ at \in AtRest /\ at \notin {"new", "await", "answer", "tunnel", "serve"}
    BY DEF Places, AtRest
  <2> QED
    BY <2>1, <2>2, GoneOK
<1>3. ~Tests(k)
  BY GoneTests
<1>4. OneReload'
  BY DEF WebInv, OneReload
<1> HIDE DEF k
<1> QED
  BY <1>1, <1>2, <1>3, <1>4, TestEnds

\* What a request brings in, and what a task does before anything is sent on.
LEMMA TakenStep ==
  ASSUME WebInv, NEW c \in Browsers,
         \/ WebAccepts(c) \/ ReadsGarbage(c) \/ GoesIdle(c) \/ AnswersHere(c) \/ Drains(c) \/ Unavailable(c)
         \/ ReadsBody(c) \/ BodyArrives(c) \/ NativeAnswers(c) \/ StreamOpens(c) \/ StreamEnds(c)
  PROVE  WebInv'
<1>1. TaskOK(conn[c]) /\ conn[c].at \in Places /\ conn[c].left \in Nat
  BY DEF WebInv, TasksOK, TaskOK, Tasks
<1>2. conn[c].at \in {"new", "head", "route", "drain", "body", "serve", "stream"} => ~Tests(conn[c])
  BY DEF Tests
<1>3. /\ conn[c].at \in {"route", "drain", "body", "serve", "stream"} => conn[c].req \in Asked
      /\ conn[c].at \in {"new", "serve"} => conn[c].left = 0
  BY <1>1 DEF TaskOK, AtRest
<1>4. /\ After(c) \in {"head", "closed"}
      /\ AtRest \subseteq Places /\ {"drain", "body", "serve", "stream"} \subseteq Places
  BY DEF After, Places, AtRest
<1>5. CASE WebAccepts(c)
  <2>1. ConnAt(c, "new") /\ StepsTo(c, IF c \in Admitted THEN "head" ELSE "closed") /\ inflight' = inflight /\ reload' = reload
    BY <1>5 DEF WebAccepts, taskVars
  <2> QED
    BY <1>2, <1>3, <1>4, <2>1, Quietly DEF StepsTo, ConnAt, AtRest
<1>6. CASE ReadsGarbage(c) \/ GoesIdle(c) \/ StreamEnds(c)
  <2>1. conn[c].at \in {"head", "stream"} /\ StepsTo(c, "closed") /\ inflight' = inflight /\ reload' = reload
    BY <1>6 DEF ReadsGarbage, GoesIdle, StreamEnds, taskVars, ConnAt
  <2> QED
    BY <1>2, <1>4, <2>1, Quietly DEF StepsTo, AtRest
<1>7. CASE AnswersHere(c)
  <2>1. conn[c].at = "route" /\ StepsTo(c, "drain") /\ inflight' = inflight /\ reload' = reload
    BY <1>7 DEF AnswersHere, taskVars, ConnAt
  <2> QED
    BY <1>2, <1>3, <1>4, <2>1, Quietly DEF StepsTo
<1>8. CASE Drains(c)
  <2>1. conn[c].at = "drain" /\ inflight' = inflight /\ reload' = reload
    BY <1>8 DEF Drains, taskVars, ConnAt
  <2>2. CASE conn[c].left = 0 /\ StepsTo(c, After(c))
    BY <1>2, <1>4, <2>1, <2>2, Quietly DEF StepsTo, AtRest
  <2>3. CASE StepsTo(c, "closed")
    BY <1>2, <1>4, <2>1, <2>3, Quietly DEF StepsTo, AtRest
  <2>4. CASE conn[c].left > 0 /\ conn' = [conn EXCEPT ![c].left = @ - 1]
    BY <2>1, <2>4, PieceRead
  <2> QED
    BY <1>8, <2>2, <2>3, <2>4 DEF Drains
<1>9. CASE Unavailable(c)
  <2>1. conn[c].at = "route" /\ Goes(c, After(c), conn[c].left > 0) /\ inflight' = inflight /\ reload' = reload
    BY <1>9 DEF Unavailable, ToClash, taskVars, ConnAt
  <2>2. CASE conn[c].left > 0
    <3>1. Goes(c, After(c), TRUE)
      <4>1. (conn[c].left > 0) = TRUE
        BY <2>2
      <4> QED
        BY <2>1, <4>1
    <3> QED
      BY <1>2, <1>4, <2>1, <3>1, Quietly DEF AtRest
  <2>3. CASE ~(conn[c].left > 0)
    <3>1. Goes(c, After(c), FALSE) /\ conn[c].left = 0
      <4>1. (conn[c].left > 0) = FALSE /\ conn[c].left = 0
        BY <1>1, <2>3
      <4> QED
        BY <2>1, <4>1
    <3> QED
      BY <1>2, <1>4, <2>1, <3>1, Quietly DEF AtRest
  <2> QED
    BY <2>2, <2>3
<1>10. CASE ReadsBody(c)
  <2>1. /\ conn[c].at = "route" /\ inflight' = inflight /\ reload' = reload
        /\ StepsTo(c, "closed") \/ StepsTo(c, "body")
    BY <1>10 DEF ReadsBody, taskVars, ConnAt
  <2> QED
    BY <1>2, <1>3, <1>4, <2>1, Quietly DEF StepsTo, AtRest
<1>11. CASE BodyArrives(c)
  <2>1. conn[c].at = "body" /\ inflight' = inflight /\ reload' = reload
    BY <1>11 DEF BodyArrives, taskVars, ConnAt
  <2>2. CASE conn[c].left > 0
    BY <1>11, <2>1, <2>2, PieceRead DEF BodyArrives
  <2>3. CASE ~(conn[c].left > 0)
    <3>1. conn[c].left = 0 /\ StepsTo(c, "serve")
      BY <1>1, <1>11, <2>3 DEF BodyArrives
    <3> QED
      BY <1>2, <1>3, <1>4, <2>1, <3>1, Quietly DEF StepsTo
  <2> QED
    BY <2>2, <2>3
<1>12. CASE NativeAnswers(c) \/ StreamOpens(c)
  <2>1. /\ conn[c].at = "serve" /\ inflight' = inflight /\ reload' = reload
        /\ StepsTo(c, After(c)) \/ StepsTo(c, "stream")
    BY <1>12 DEF NativeAnswers, StreamOpens, taskVars, ConnAt
  <2> QED
    BY <1>2, <1>3, <1>4, <2>1, Quietly DEF StepsTo, AtRest
<1> QED
  BY <1>5, <1>6, <1>7, <1>8, <1>9, <1>10, <1>11, <1>12

\* What a task asks of clash, and the gate with it.
LEMMA ProxyStep ==
  ASSUME WebInv, NEW c \in Browsers,
         \/ Connects(c) \/ Uploads(c) \/ ClashAnswers(c) \/ Patches(c)
         \/ HangsUp(c) \/ ClashSilent(c) \/ AnswerRelayed(c) \/ ClashHangsUp(c)
  PROVE  WebInv'
<1>1. TaskOK(conn[c]) /\ conn[c].at \in Places /\ conn[c].left \in Nat /\ conn \in [Browsers -> Tasks]
  BY DEF WebInv, TasksOK, TaskOK, Tasks
<1>2. /\ reload' = reload => OneReload'
      /\ After(c) \in {"head", "closed"}
      /\ {"upload", "await", "answer", "tunnel"} \subseteq Places \ AtRest
  BY DEF WebInv, OneReload, After, Places, AtRest
<1>3. /\ conn[c].at \in {"route", "serve", "upload", "await"} => conn[c].req \in Asked
      /\ conn[c].at \in {"await", "answer", "tunnel", "serve"} => conn[c].left = 0
  BY <1>1 DEF TaskOK, AtRest
<1>4. ASSUME NEW at \in {"upload", "await", "answer", "tunnel"}, StepsTo(c, at), reload' = reload, inflight' = inflight,
             conn[c].req \in Asked, at # "upload" => conn[c].left = 0,
             \/ conn[c].at \in {"upload", "await"}
             \/ ~(conn[c].req.route = "clash" /\ conn[c].req.kind = "group")
      PROVE  WebInv'
  <2> DEFINE k == Gone(conn[c], at, FALSE)
  <2>1. conn' = [conn EXCEPT ![c] = k] /\ TaskOK(k)
    <3>1. conn' = [conn EXCEPT ![c] = k]
      BY <1>4, GoneIs DEF WebInv, StepsTo
    <3>2. TaskOK(k)
      BY <1>1, <1>2, <1>4, GoneOK
    <3> QED
      BY <3>1, <3>2
  <2>2. Tests(k) <=> Tests(conn[c])
    BY <1>4 DEF Tests, Gone
  <2> HIDE DEF k
  <2> QED
    BY <1>2, <1>4, <2>1, <2>2, SameTest
<1>5. CASE Connects(c)
  <2> DEFINE k == Gone(conn[c], "upload", FALSE)
  <2>1. /\ conn[c].at = "route" /\ StepsTo(c, "upload") /\ reload' = reload
        /\ ~GateBusy(c) /\ inflight' = IF Gated(c) THEN inflight \cup {"g"} ELSE inflight
    BY <1>5 DEF Connects, ToClash, ConnAt
  <2>2. Gated(c) <=> conn[c].req.route = "clash" /\ conn[c].req.kind = "group"
    BY <2>1 DEF Gated, Req
  <2>3. CASE Gated(c)
    <3>1. conn' = [conn EXCEPT ![c] = k]
      BY <2>1, GoneIs DEF WebInv, StepsTo
    <3>2. TaskOK(k)
      BY <1>1, <1>2, <1>3, <2>1, GoneOK
    <3>3. Tests(k)
      BY <2>2, <2>3 DEF Tests, Gone
    <3>4. inflight = {} /\ inflight' = {"g"}
      BY <2>1, <2>3 DEF GateBusy
    <3> HIDE DEF k
    <3> QED
      BY <1>2, <2>1, <3>1, <3>2, <3>3, <3>4, TestBegins
  <2>4. CASE ~Gated(c)
    BY <1>3, <1>4, <2>1, <2>2, <2>4
  <2> QED
    BY <2>3, <2>4
<1>6. CASE Uploads(c)
  <2>1. conn[c].at = "upload" /\ inflight' = inflight /\ reload' = reload
    BY <1>6 DEF Uploads, taskVars, ConnAt
  <2>2. CASE conn[c].left > 0
    BY <1>6, <2>1, <2>2, PieceRead DEF Uploads
  <2>3. CASE ~(conn[c].left > 0)
    <3>1. conn[c].left = 0 /\ StepsTo(c, "await")
      BY <1>1, <1>6, <2>3 DEF Uploads
    <3> QED
      BY <1>3, <1>4, <2>1, <3>1
  <2> QED
    BY <2>2, <2>3
<1>7. CASE ClashAnswers(c)
  <2>1. conn[c].at = "await" /\ inflight' = inflight /\ reload' = reload
    BY <1>7 DEF ClashAnswers, taskVars, ConnAt
  <2>2. CASE StepsTo(c, "tunnel") \/ StepsTo(c, "answer")
    BY <1>3, <1>4, <2>1, <2>2
  <2>3. CASE conn' = [conn EXCEPT ![c].at = "answer", ![c].req.ka = FALSE]
    <3> DEFINE k == [conn[c] EXCEPT !.at = "answer", !.req.ka = FALSE]
    <3>1. conn' = [conn EXCEPT ![c] = k]
      BY <1>1, <2>3
    <3>2. k.req = [conn[c].req EXCEPT !.ka = FALSE] /\ k.at = "answer" /\ k.left = conn[c].left /\ k.skipped = conn[c].skipped
      BY <1>1 DEF Tasks
    <3>3. conn[c].req \in Asked /\ k.req \in Asked /\ k.req.route = conn[c].req.route /\ k.req.kind = conn[c].req.kind
      <4>1. conn[c].req \in Asked
        BY <1>3, <2>1
      <4> DEFINE r == conn[c].req  q == [r EXCEPT !.ka = FALSE]
      <4>2. r \in Asked /\ k.req = q
        BY <3>2, <4>1, Zenon
      <4> HIDE DEF r, k
      <4>3. q \in Asked /\ q.route = r.route /\ q.kind = r.kind
        BY <4>2 DEF Asked
      <4> QED
        BY <4>1, <4>2, <4>3, Zenon DEF r
    <3>4. k \in Tasks
      <4> DEFINE o == conn[c]
      <4>0. o \in Tasks /\ k = [o EXCEPT !.at = "answer", !.req = [o.req EXCEPT !.ka = FALSE]]
        BY <1>1
      <4> HIDE DEF o, k
      <4>1. o = [at |-> o.at, req |-> o.req, left |-> o.left, skipped |-> o.skipped]
        BY <4>0 DEF Tasks
      <4>2. k = [at |-> "answer", req |-> k.req, left |-> o.left, skipped |-> o.skipped]
        BY <4>0, <4>1
      <4> QED
        BY <1>2, <3>3, <4>0, <4>2 DEF Tasks
    <3>5. TaskOK(k)
      BY <1>3, <2>1, <3>2, <3>3, <3>4 DEF TaskOK
    <3>6. Tests(k) <=> Tests(conn[c])
      BY <2>1, <3>2, <3>3 DEF Tests
    <3> HIDE DEF k
    <3> QED
      BY <1>2, <2>1, <3>1, <3>5, <3>6, SameTest
  <2> QED
    BY <1>7, <2>2, <2>3 DEF ClashAnswers
<1>8. CASE Patches(c)
  <2>1. /\ conn[c].at = "serve" /\ conn[c].req.route = "patch" /\ inflight' = inflight /\ reload' = reload
        /\ StepsTo(c, After(c)) \/ StepsTo(c, "await")
    BY <1>8 DEF Patches, taskVars, ConnAt, Req
  <2>2. CASE StepsTo(c, After(c))
    <3>1. ~Tests(conn[c]) /\ After(c) \in Places /\ After(c) \in AtRest
      BY <1>2, <2>1 DEF Tests, Places, AtRest
    <3> QED
      BY <1>2, <1>3, <2>1, <2>2, <3>1, Quietly DEF StepsTo
  <2>3. CASE StepsTo(c, "await")
    BY <1>3, <1>4, <2>1, <2>3
  <2> QED
    BY <2>1, <2>2, <2>3
<1>9. CASE HangsUp(c) \/ ClashHangsUp(c)
  BY <1>9, Leaves DEF HangsUp, ClashHangsUp
<1>10. CASE ClashSilent(c)
  BY <1>2, <1>3, <1>10, Leaves DEF ClashSilent, ConnAt
<1>11. CASE AnswerRelayed(c)
  BY <1>2, <1>3, <1>11, Leaves DEF AnswerRelayed, ConnAt
<1> QED
  BY <1>5, <1>6, <1>7, <1>8, <1>9, <1>10, <1>11

\* The invariant survives every step.
LEMMA WebInvKept == WebInv /\ [WebNext]_webVars => WebInv'
<1> SUFFICES ASSUME WebInv, [WebNext]_webVars
             PROVE  WebInv'
  OBVIOUS
<1>1. ASSUME NEW c \in Browsers, NEW r \in Requests, TakesRequest(c, r)
      PROVE  WebInv'
  <2> DEFINE k == [at |-> "route", req |-> r, left |-> r.body, skipped |-> FALSE]
  <2>1. r \in Asked /\ r.body \in Nat
    BY WebConstants DEF Asked
  <2>2. TaskOK(k)
    BY <2>1 DEF TaskOK, Tasks, Places, AtRest
  <2>3. ~Tests(k) /\ ~Tests(conn[c])
    BY <1>1 DEF Tests, TakesRequest, ConnAt
  <2>4. conn' = [conn EXCEPT ![c] = k] /\ inflight' = inflight /\ OneReload'
    BY <1>1 DEF TakesRequest, WebInv, OneReload
  <2> HIDE DEF k
  <2> QED
    BY <2>2, <2>3, <2>4, SameTest
<1>2. ASSUME NEW c \in Browsers, ReloadStarts(c)
      PROVE  WebInv'
  <2>1. conn[c].at = "serve" /\ StepsTo(c, After(c)) /\ inflight' = inflight
    BY <1>2 DEF ReloadStarts, ConnAt
  <2>2. OneReload'
    <3>1. CASE reload' = reload
      BY <3>1 DEF WebInv, OneReload
    <3>2. CASE ~reload.flag /\ reload' = [flag |-> TRUE, children |-> reload.children + 1]
      <4>1. reload.children = 0
        BY <3>2 DEF WebInv, OneReload
      <4> QED
        BY <3>2, <4>1 DEF OneReload
    <3> QED
      BY <1>2, <3>1, <3>2 DEF ReloadStarts
  <2>3. conn[c].left = 0 /\ ~Tests(conn[c])
    BY <2>1 DEF WebInv, TasksOK, TaskOK, Tests
  <2>4. After(c) \in {"head", "closed"} /\ After(c) \in Places /\ After(c) \in AtRest
    BY DEF After, Places, AtRest
  <2> QED
    BY <2>1, <2>2, <2>3, <2>4, Quietly DEF StepsTo
<1>3. CASE ReloadEnds \/ LogsStep \/ ClashChanges \/ Closes \/ UNCHANGED webVars
  <2>1. conn' = conn /\ inflight' = inflight /\ (ReloadEnds \/ reload' = reload)
    BY <1>3 DEF ReloadEnds, LogsStep, ClashChanges, Closes, webVars
  <2>2. OneReload'
    <3>1. CASE reload' = reload
      BY <3>1 DEF WebInv, OneReload
    <3>2. CASE ReloadEnds
      <4>1. reload.children = 1 /\ reload' = [flag |-> FALSE, children |-> reload.children - 1]
        BY <3>2 DEF WebInv, OneReload, ReloadEnds
      <4> QED
        BY <4>1 DEF OneReload
    <3> QED
      BY <2>1, <3>1, <3>2
  <2>3. TasksOK'
    BY <2>1 DEF WebInv, TasksOK
  <2>4. GateHeld'
    BY <2>1 DEF WebInv, GateHeld, Testing
  <2> QED
    BY <2>2, <2>3, <2>4 DEF WebInv
<1> QED
  BY <1>1, <1>2, <1>3, TakenStep, ProxyStep DEF WebNext, WebStep

\* The invariant says what FrontSafe does.
LEMMA WebInvIsSafe == WebInv => FrontSafe
<1> SUFFICES ASSUME WebInv
             PROVE  FrontSafe
  OBVIOUS
<1>1. InStep
  BY DEF WebInv, TasksOK, TaskOK, InStep, ConnAt
<1>2. {c \in Browsers : Proxying(c) /\ Gated(c)} = Testing
  BY TestsIs DEF Testing
<1>3. Cardinality(Testing) <= 1 /\ (inflight = {} <=> Testing = {})
  <2>1. CASE Testing = {}
    BY <2>1, FS_EmptySet DEF WebInv, GateHeld
  <2>2. CASE inflight = {"g"} /\ \E c \in Browsers : Testing = {c}
    <3>1. PICK c \in Browsers : Testing = {c}
      BY <2>2
    <3>2. Cardinality(Testing) = 1 /\ Testing # {}
      BY <3>1, FS_Singleton
    <3> QED
      BY <2>2, <3>2
  <2> QED
    BY <2>1, <2>2 DEF WebInv, GateHeld
<1>4. OneAtATime
  BY <1>2, <1>3 DEF WebInv, OneReload, OneAtATime
<1> QED
  BY <1>1, <1>4 DEF FrontSafe

\* The front end and the browser agree on where a request begins, whatever way the
\* requests end, and two browsers never have clash test a group at once.
THEOREM FrontStaysSafe == WebSpec => []FrontSafe
<1>1. WebInit => WebInv
  <2> SUFFICES ASSUME WebInit
               PROVE  WebInv
    OBVIOUS
  <2> DEFINE k == [at |-> "new", req |-> NoRequest, left |-> 0, skipped |-> FALSE]
  <2>1. TaskOK(k) /\ ~Tests(k)
    BY DEF TaskOK, Tasks, Places, AtRest, Tests
  <2>2. conn = [c \in Browsers |-> k]
    BY DEF WebInit
  <2> HIDE DEF k
  <2>3. TasksOK /\ Testing = {}
    BY <2>1, <2>2 DEF TasksOK, TaskOK, Testing
  <2> QED
    BY <2>3 DEF WebInit, WebInv, GateHeld, OneReload
<1> QED
  BY <1>1, WebInvKept, WebInvIsSafe, PTL DEF WebSpec

-----------------------------------------------------------------------------
(***************************************************************************)
(* The poll of clash's connections (ClashPull): what the answer in hand    *)
(* says of each connection, against what was counted of it, and how far    *)
(* the mirror's knowledge of clash.yaml may lag.                           *)
(***************************************************************************)
Counters == Nat \cup {Unseen}
PollSteps == {"rest", "count", "render", "publish", "stat", "gate", "mirror", "restore"}
Counted(c) == nodes[c] + wiped[c]

PullTyped ==
  /\ flow \in [ClashConns -> [st : {"none", "live", "gone"}, up : Nat]]
  /\ yaml \in [mtime : Nat, declares : BOOLEAN]
  /\ listeners \in [checked : BOOLEAN, mtime : Nat, types : BOOLEAN]
  /\ poll \in [pc : PollSteps, answer : [ClashConns -> Counters], mtime : Nat,
               render : [ClashConns -> Nat]]
  /\ last \in [ClashConns -> Counters]
  /\ nodes \in [ClashConns -> Nat] /\ wiped \in [ClashConns -> Nat]
  /\ forgotten \in [ClashConns -> Nat]

\* What is counted of a connection is its counter at the last poll and what answers that
\* lacked it made the poll forget; one that is gone does not come back.
CountedTo(c) ==
  /\ Counted(c) <= flow[c].up + forgotten[c]
  /\ last[c] # Unseen => Counted(c) = last[c] + forgotten[c] /\ last[c] <= flow[c].up
  /\ last[c] = Unseen => Counted(c) = forgotten[c] \/ flow[c].st = "gone"
  /\ flow[c].st = "none" => flow[c].up = 0

\* An answer that was not counted yet is between what was and what flowed.
AnswerAhead(c) ==
  poll.answer[c] # Unseen =>
    /\ flow[c].st # "none"
    /\ Before(c) <= poll.answer[c] /\ poll.answer[c] <= flow[c].up
    /\ Counted(c) = Before(c) + forgotten[c]

\* The mirror has seen no later clash.yaml than the one there is.
YamlSeen ==
  /\ yaml.mtime = 0 => ~yaml.declares
  /\ listeners.mtime <= yaml.mtime
  /\ poll.mtime <= yaml.mtime

Mirroring == logged = mirror /\ mirrored \subseteq mirror

PullInv ==
  /\ PullTyped
  /\ \A c \in ClashConns : CountedTo(c)
  /\ PollAt("rest") => poll.answer = NoAnswer
  /\ PollAt("count") => \A c \in ClashConns : AnswerAhead(c)
  /\ YamlSeen /\ GateFresh
  /\ Mirroring

LEMMA PullStarts == PullInit => PullInv
<1> SUFFICES ASSUME PullInit
             PROVE  PullInv
  OBVIOUS
<1> USE PullConstants
<1>1. PullTyped
  BY DEF PullInit, PullTyped, Resting, NoAnswer, NoBytes, Counters, PollSteps
<1>2. \A c \in ClashConns : CountedTo(c)
  BY DEF PullInit, CountedTo, Counted, NoAnswer, NoBytes
<1>3. ~PollAt("count")
  BY DEF PullInit, PollAt, Resting
<1>4. YamlSeen /\ GateFresh /\ Mirroring
  BY DEF PullInit, YamlSeen, GateFresh, Mirroring, Resting
<1>5. poll.answer = NoAnswer
  BY DEF PullInit, Resting
<1> QED
  BY <1>1, <1>2, <1>3, <1>4, <1>5 DEF PullInv

\* A step that touches neither connections, counters nor files leaves them right.
LEMMA PullFetches ==
  ASSUME PullInv, Fetches \/ AnswerIsCut
  PROVE  PullInv'
<1> USE PullConstants
<1>1. UNCHANGED <<flow, yaml, listeners, last, nodes, wiped, forgotten, mirror, mirrored, logged>>
      /\ poll'.mtime = poll.mtime
  BY DEF Fetches, AnswerIsCut, Kept, PollGoes, PullInv, PullTyped
<1>2. PullTyped'
  <2>1. CASE Fetches
    <3> DEFINE told == [c \in ClashConns |-> IF flow[c].st = "live" THEN flow[c].up ELSE Unseen]
    <3>1. told \in [ClashConns -> Counters]
      BY DEF PullInv, PullTyped, Counters
    <3>2. poll' = [poll EXCEPT !.pc = "count", !.answer = told]
      BY <2>1 DEF Fetches
    <3> HIDE DEF told
    <3> QED
      BY <1>1, <3>1, <3>2 DEF PullInv, PullTyped, PollSteps
  <2>2. CASE AnswerIsCut
    BY <1>1, <2>2 DEF PullInv, PullTyped, AnswerIsCut, PollGoes, PollSteps
  <2> QED
    BY <2>1, <2>2
<1>3. \A c \in ClashConns : CountedTo(c)'
  BY <1>1 DEF PullInv, CountedTo, Counted
<1>4. ASSUME NEW c \in ClashConns
      PROVE  AnswerAhead(c)'
  <2>1. CountedTo(c) /\ flow[c].up \in Nat /\ flow[c].st \in {"none", "live", "gone"}
        /\ last[c] \in Counters /\ forgotten[c] \in Nat
    BY DEF PullInv, PullTyped
  <2>2. CASE Fetches
    <3>1. poll'.answer[c] = IF flow[c].st = "live" THEN flow[c].up ELSE Unseen
      BY <2>2 DEF Fetches, PullInv, PullTyped
    <3>2. flow[c].st = "live" => /\ Before(c) <= flow[c].up
                                 /\ Counted(c) = Before(c) + forgotten[c]
      BY <2>1 DEF CountedTo, Before, Counted, PullInv, PullTyped
    <3>3. Counted(c)' = Counted(c) /\ Before(c)' = Before(c)
      BY <1>1 DEF Counted, Before
    <3> QED
      BY <1>1, <2>1, <3>1, <3>2, <3>3 DEF AnswerAhead
  <2>3. CASE AnswerIsCut
    <3>1. poll'.answer[c] = Unseen
      BY <2>3 DEF AnswerIsCut, PollGoes, PullInv, PullTyped, PollAt, NoAnswer
    <3> QED
      BY <3>1 DEF AnswerAhead
  <2> QED
    BY <2>2, <2>3
<1>5. YamlSeen' /\ GateFresh' /\ Mirroring'
  BY <1>1 DEF PullInv, YamlSeen, GateFresh, Mirroring
<1>6. ~PollAt("rest")'
  BY DEF Fetches, AnswerIsCut, PollGoes, PullInv, PullTyped, PollAt
<1> QED
  BY <1>2, <1>3, <1>4, <1>5, <1>6 DEF PullInv

\* accumulate: the growth of each counter is counted, and the answer remembered.
LEMMA AccumulatesKeeps ==
  ASSUME PullInv, Accumulates
  PROVE  PullInv'
<1> USE PullConstants
<1>1. UNCHANGED <<flow, yaml, listeners, wiped, mirror, mirrored, logged>>
      /\ poll' = [poll EXCEPT !.pc = "render"] /\ last' = poll.answer
      /\ nodes' = [c \in ClashConns |-> nodes[c] + Growth(c)]
      /\ forgotten' = [c \in ClashConns |-> IF flow[c].st = "live" /\ c \notin Answered
                                             THEN forgotten[c] + Before(c) ELSE forgotten[c]]
  BY DEF Accumulates, PollGoes
<1>2. PollAt("count") /\ \A c \in ClashConns : AnswerAhead(c) /\ CountedTo(c)
  BY DEF Accumulates, PullInv
<1>3. ASSUME NEW c \in ClashConns
      PROVE  Growth(c) \in Nat /\ forgotten'[c] \in Nat /\ CountedTo(c)'
  <2>1. /\ AnswerAhead(c) /\ CountedTo(c)
        /\ flow[c].up \in Nat /\ flow[c].st \in {"none", "live", "gone"}
        /\ poll.answer[c] \in Counters /\ last[c] \in Counters
        /\ nodes[c] \in Nat /\ wiped[c] \in Nat /\ forgotten[c] \in Nat
    BY <1>2 DEF PullInv, PullTyped
  <2>2. Before(c) \in Nat /\ Counted(c) \in Nat /\ last'[c] = poll.answer[c] /\ wiped'[c] = wiped[c]
    BY <1>1, <2>1 DEF Before, Counted, Counters
  <2>3. CASE poll.answer[c] = Unseen
    <3>1. Growth(c) = 0 /\ c \notin Answered
      BY <2>3 DEF Growth, Answered
    <3>2. Counted(c)' = Counted(c) /\ last'[c] = Unseen
      BY <1>1, <2>1, <2>2, <2>3, <3>1 DEF Counted
    <3>3. forgotten'[c] = IF flow[c].st = "live" THEN forgotten[c] + Before(c) ELSE forgotten[c]
      BY <1>1, <3>1
    <3>4. flow[c].st = "gone" \/ Counted(c) = Before(c) + forgotten[c]
      BY <2>1, <2>2 DEF CountedTo, Before
    <3>5. flow[c].st = "none" => Before(c) = 0
      BY <2>1, <2>2 DEF CountedTo, Before, Counters
    <3>6. flow'[c] = flow[c]
      BY <1>1
    <3> QED
      BY <2>1, <2>2, <3>1, <3>2, <3>3, <3>4, <3>5, <3>6 DEF CountedTo
  <2>4. CASE poll.answer[c] # Unseen
    <3>1. Growth(c) = Monus(poll.answer[c], Before(c)) /\ poll.answer[c] \in Nat /\ c \in Answered
      BY <2>1, <2>4 DEF Growth, Answered, Counters
    <3>2. /\ Counted(c) = Before(c) + forgotten[c]
          /\ Before(c) <= poll.answer[c] /\ poll.answer[c] <= flow[c].up /\ flow[c].st # "none"
      BY <2>1, <2>4 DEF AnswerAhead
    <3>3. Growth(c) = poll.answer[c] - Before(c) /\ Growth(c) \in Nat
      BY <2>2, <3>1, <3>2 DEF Monus
    <3>4. nodes'[c] = nodes[c] + Growth(c) /\ forgotten'[c] = forgotten[c] /\ flow'[c] = flow[c]
      BY <1>1, <3>1
    <3>5. Counted(c)' = poll.answer[c] + forgotten[c]
      BY <2>1, <2>2, <3>1, <3>2, <3>3, <3>4 DEF Counted
    <3> QED
      BY <2>1, <2>2, <2>4, <3>1, <3>2, <3>3, <3>4, <3>5 DEF CountedTo
  <2> QED
    BY <2>3, <2>4
<1>4. PullTyped'
  BY <1>1, <1>3 DEF PullInv, PullTyped, PollSteps
<1>5. YamlSeen' /\ GateFresh' /\ Mirroring'
  BY <1>1 DEF PullInv, PullTyped, YamlSeen, GateFresh, Mirroring
<1>6. ~PollAt("count")' /\ ~PollAt("rest")'
  BY <1>1 DEF PollAt, PullInv, PullTyped
<1> QED
  BY <1>3, <1>4, <1>5, <1>6 DEF PullInv

\* What the poll shows, asks of clash.yaml and mirrors is after the counting.
LEMMA PollRestKeeps ==
  ASSUME PullInv, Renders \/ Publishes \/ Stats \/ ReadsYaml \/ Mirrors \/ Restores
  PROVE  PullInv'
<1> USE PullConstants
<1>1. UNCHANGED <<flow, yaml, last, nodes, wiped, forgotten>>
  BY DEF Renders, Publishes, Stats, ReadsYaml, Mirrors, Restores, Kept
<1> DEFINE Poll == [pc : PollSteps, answer : [ClashConns -> Counters], mtime : Nat,
                    render : [ClashConns -> Nat]]
<1>7. poll \in Poll /\ nodes \in [ClashConns -> Nat] /\ yaml.mtime \in Nat /\ yaml.declares \in BOOLEAN
  BY DEF PullInv, PullTyped
<1>8. /\ poll'.pc \notin {"count"} /\ (poll'.pc = "rest" => poll'.answer = NoAnswer)
      /\ poll'.mtime \in {poll.mtime, yaml.mtime, 0}
      /\ poll' \in Poll
  <2>1. NoBytes \in [ClashConns -> Nat] /\ NoAnswer \in [ClashConns -> Counters]
    BY DEF NoBytes, NoAnswer, Counters
  <2>2. CASE Renders
    BY <1>7, <2>2 DEF Renders, PollSteps
  <2>3. CASE Publishes
    BY <1>7, <2>1, <2>3 DEF Publishes, PollSteps
  <2>4. CASE Stats
    BY <1>7, <2>4 DEF Stats, PollSteps
  <2>5. CASE ReadsYaml
    BY <1>7, <2>5 DEF ReadsYaml, PollGoes, PollSteps
  <2>6. CASE Mirrors
    BY <1>7, <2>6 DEF Mirrors, PollGoes, PollSteps
  <2>7. CASE Restores
    BY <1>7, <2>1, <2>7 DEF Restores, Resting, PollSteps
  <2> QED
    BY <2>2, <2>3, <2>4, <2>5, <2>6, <2>7
<1>2. PullTyped'
  <2>1. listeners' \in [checked : BOOLEAN, mtime : Nat, types : BOOLEAN]
    <3>1. listeners' = listeners \/ listeners' = [checked |-> TRUE, mtime |-> poll.mtime,
                                                  types |-> poll.mtime # 0 /\ yaml.declares]
      BY DEF Renders, Publishes, Stats, ReadsYaml, Mirrors, Restores
    <3>2. poll.mtime \in Nat /\ (poll.mtime # 0 /\ yaml.declares) \in BOOLEAN
      BY <1>7
    <3>3. listeners \in [checked : BOOLEAN, mtime : Nat, types : BOOLEAN]
      BY DEF PullInv, PullTyped
    <3> DEFINE m == poll.mtime  t == poll.mtime # 0 /\ yaml.declares
    <3>4. m \in Nat /\ t \in BOOLEAN
      BY <3>2
    <3>5. listeners' = listeners \/ listeners' = [checked |-> TRUE, mtime |-> m, types |-> t]
      BY <3>1
    <3> HIDE DEF m, t
    <3>6. [checked |-> TRUE, mtime |-> m, types |-> t] \in [checked : BOOLEAN, mtime : Nat, types : BOOLEAN]
      BY <3>4, Zenon
    <3> QED
      BY <3>3, <3>5, <3>6
  <2> QED
    BY <1>1, <1>8, <2>1 DEF PullInv, PullTyped
<1>3. \A c \in ClashConns : CountedTo(c)'
  BY <1>1 DEF PullInv, CountedTo, Counted
<1>4. ~PollAt("count")' /\ (PollAt("rest")' => poll'.answer = NoAnswer)
  BY <1>8 DEF PollAt
<1>5. YamlSeen' /\ GateFresh'
  <2>1. CASE UNCHANGED listeners
    <3> QED
      BY <1>1, <1>8, <2>1 DEF PullInv, PullTyped, YamlSeen, GateFresh
  <2>2. CASE ReadsYaml /\ listeners' # listeners
    <3>1. listeners' = [checked |-> TRUE, mtime |-> poll.mtime, types |-> poll.mtime # 0 /\ yaml.declares]
          /\ poll'.mtime = poll.mtime
      BY <2>2 DEF ReadsYaml, PollGoes, PullInv, PullTyped
    <3>2. YamlSeen
      BY DEF PullInv
    <3> QED
      BY <1>1, <3>1, <3>2 DEF PullInv, PullTyped, YamlSeen, GateFresh
  <2> QED
    BY <2>1, <2>2 DEF Renders, Publishes, Stats, ReadsYaml, Mirrors, Restores
<1>6. Mirroring'
  BY DEF PullInv, Mirroring, Renders, Publishes, Stats, ReadsYaml, Mirrors, Restores
<1> QED
  BY <1>2, <1>3, <1>4, <1>5, <1>6 DEF PullInv

\* Connections begin, relay and end; ports, files and statistics change around the poll.
LEMMA FlowsKeep ==
  ASSUME PullInv, NEW c \in ClashConns, FlowOpens(c) \/ FlowRelays(c) \/ FlowEnds(c)
  PROVE  PullInv'
<1> USE PullConstants
<1>1. UNCHANGED <<yaml, listeners, poll, last, nodes, wiped, forgotten, mirror, mirrored, logged>>
  BY DEF FlowOpens, FlowRelays, FlowEnds, Polling
<1>2. PullTyped'
  <2> DEFINE Flowing == [st : {"none", "live", "gone"}, up : Nat]
  <2>1. flow \in [ClashConns -> Flowing] /\ flow[c] \in Flowing
    BY DEF PullInv, PullTyped
  <2>2. PICK f \in Flowing : flow' = [flow EXCEPT ![c] = f]
    <3>1. CASE FlowOpens(c)
      <4>1. [flow[c] EXCEPT !.st = "live"] \in Flowing
        BY <2>1
      <4> QED
        BY <3>1, <4>1 DEF FlowOpens
    <3>2. CASE FlowRelays(c)
      <4>1. [flow[c] EXCEPT !.up = @ + 1] \in Flowing
        BY <2>1
      <4> QED
        BY <3>2, <4>1 DEF FlowRelays
    <3>3. CASE FlowEnds(c)
      <4>1. [flow[c] EXCEPT !.st = "gone"] \in Flowing
        BY <2>1
      <4> QED
        BY <3>3, <4>1 DEF FlowEnds
    <3> QED
      BY <3>1, <3>2, <3>3
  <2>3. flow' \in [ClashConns -> Flowing]
    BY <2>1, <2>2
  <2> QED
    BY <1>1, <2>3 DEF PullInv, PullTyped
<1>3. ASSUME NEW d \in ClashConns
      PROVE  CountedTo(d)' /\ (PollAt("count") => AnswerAhead(d)')
  <2>1. /\ CountedTo(d) /\ (PollAt("count") => AnswerAhead(d))
        /\ flow[d].up \in Nat /\ flow[d].st \in {"none", "live", "gone"}
        /\ poll.answer[d] \in Counters /\ last[d] \in Counters
        /\ nodes[d] \in Nat /\ wiped[d] \in Nat /\ forgotten[d] \in Nat
    BY DEF PullInv, PullTyped
  <2>2. /\ flow'[d].up \in Nat /\ flow[d].up <= flow'[d].up
        /\ flow[d].st = "gone" => flow'[d].st = "gone"
        /\ flow'[d].st = "none" => flow[d].st = "none" /\ flow'[d].up = flow[d].up
    BY <2>1 DEF PullInv, PullTyped, FlowOpens, FlowRelays, FlowEnds
  <2>3. Counted(d)' = Counted(d) /\ Counted(d) \in Nat /\ Before(d)' = Before(d) /\ Before(d) \in Nat
    BY <1>1, <2>1 DEF Counted, Before, Counters
  <2>4. CountedTo(d)'
    BY <1>1, <2>1, <2>2, <2>3 DEF CountedTo, Counters
  <2>5. PollAt("count") => AnswerAhead(d)'
    BY <1>1, <2>1, <2>2, <2>3 DEF AnswerAhead, Counters
  <2> QED
    BY <2>4, <2>5
<1>4. YamlSeen' /\ GateFresh' /\ Mirroring' /\ (PollAt("count")' <=> PollAt("count"))
      /\ (PollAt("rest")' => poll'.answer = NoAnswer)
  BY <1>1 DEF PullInv, YamlSeen, GateFresh, Mirroring, PollAt
<1> QED
  BY <1>2, <1>3, <1>4 DEF PullInv

LEMMA AroundPollKeeps ==
  ASSUME PullInv,
         \/ \E c \in ClashConns : PortIndexed(c) \/ PortUnindexed(c) \/ SweptFlows(c)
         \/ \E d \in BOOLEAN : YamlWritten(d)
         \/ ClearsNodes
         \/ UNCHANGED pullVars
  PROVE  PullInv'
<1> USE PullConstants
<1>1. UNCHANGED <<flow, listeners, poll, last, forgotten>>
  BY DEF PortIndexed, PortUnindexed, SweptFlows, YamlWritten, ClearsNodes, Polling, pullVars
<1>2. PullTyped'
  BY <1>1 DEF PullInv, PullTyped, PortIndexed, PortUnindexed, SweptFlows, YamlWritten, ClearsNodes, Polling,
              pullVars, NoBytes
<1>3. ASSUME NEW c \in ClashConns
      PROVE  Counted(c)' = Counted(c)
  BY DEF PullInv, PullTyped, Counted, PortIndexed, PortUnindexed, SweptFlows, YamlWritten, ClearsNodes, Polling,
         pullVars, NoBytes
<1>4. ASSUME NEW c \in ClashConns
      PROVE  CountedTo(c)' /\ (PollAt("count") => AnswerAhead(c)')
  BY <1>1, <1>3 DEF PullInv, CountedTo, AnswerAhead, Before
<1>5. YamlSeen' /\ GateFresh'
  BY <1>1 DEF PullInv, PullTyped, YamlSeen, GateFresh, PortIndexed, PortUnindexed, SweptFlows, YamlWritten,
              ClearsNodes, Polling, pullVars
<1>6. Mirroring'
  BY DEF PullInv, Mirroring, PortIndexed, PortUnindexed, SweptFlows, YamlWritten, ClearsNodes, Polling, pullVars
<1>7. (PollAt("count")' <=> PollAt("count")) /\ (PollAt("rest")' => poll'.answer = NoAnswer)
  BY <1>1 DEF PullInv, PollAt
<1> QED
  BY <1>2, <1>4, <1>5, <1>6, <1>7 DEF PullInv

\* However connections come, relay and go between an answer, its counting and the next
\* one (accumulate, NodeDist::clear, mirror_direct_inbounds, ListenersGate::check): each
\* byte is counted for its node once, and once more for each answer that lacked its live
\* connection after that; the log closes what it opened, and the gate goes by the clash.yaml
\* it last looked at.
THEOREM PollCountsOnce ==
  PullInit /\ [][PullNext]_pullVars => []PullSafe
<1>1. PullInit => PullInv
  BY PullStarts
<1>2. PullInv /\ [PullNext]_pullVars => PullInv'
  <2> SUFFICES ASSUME PullInv, [PullNext]_pullVars
               PROVE  PullInv'
    OBVIOUS
  <2>1. CASE Fetches \/ AnswerIsCut
    BY <2>1, PullFetches
  <2>2. CASE PollStep
    BY <2>2, AccumulatesKeeps, PollRestKeeps DEF PollStep
  <2>3. ASSUME NEW c \in ClashConns, FlowOpens(c) \/ FlowRelays(c) \/ FlowEnds(c)
        PROVE  PullInv'
    BY <2>3, FlowsKeep
  <2>4. CASE \/ \E c \in ClashConns : PortIndexed(c) \/ PortUnindexed(c) \/ SweptFlows(c)
             \/ \E d \in BOOLEAN : YamlWritten(d)
             \/ ClearsNodes
             \/ UNCHANGED pullVars
    BY <2>4, AroundPollKeeps
  <2> QED
    BY <2>1, <2>2, <2>3, <2>4 DEF PullNext, FetchFails
<1>3. PullInv => PullSafe
  <2> SUFFICES ASSUME PullInv
               PROVE  PullSafe
    OBVIOUS
  <2>1. NodesCountedOnce
    BY DEF PullInv, CountedTo, Counted, Mirroring, NodesCountedOnce
  <2> QED
    BY <2>1 DEF PullInv, PullSafe
<1> QED
  BY <1>1, <1>2, <1>3, PTL

-----------------------------------------------------------------------------
(***************************************************************************)
(* The log of the process (Lifecycle): what is submitted, and where it is. *)
(***************************************************************************)
LinesIn(q) == {i \in DOMAIN q : q[i] # FlushMark}
Below(q, n) == \A i \in DOMAIN q : q[i] <= n
Comes(q, a) == \A i \in LinesIn(q) : q[i] <= a => \E j \in DOMAIN q : j > i /\ q[j] = FlushMark

LogInv ==
  /\ sink \in [queue : Seq(Nat), pending : Nat, asked : Nat]
  /\ shown \in [lines : Nat, drops : Nat] /\ unwritten \in Nat /\ lines \in Nat
  /\ Below(sink.queue, lines) /\ sink.asked <= lines
  /\ LogAccounted

\* A queue is finite, so its lines are counted.
LEMMA LinesFinite ==
  ASSUME NEW q \in Seq(Nat)
  PROVE  IsFiniteSet(LinesIn(q)) /\ Cardinality(LinesIn(q)) \in Nat
<1>1. DOMAIN q = 1 .. Len(q) /\ Len(q) \in Nat
  OBVIOUS
<1>2. IsFiniteSet(1 .. Len(q))
  BY <1>1, FS_Interval
<1>3. LinesIn(q) \in SUBSET (1 .. Len(q))
  BY <1>1 DEF LinesIn
<1> QED
  BY <1>2, <1>3, FS_Subset, FS_CardinalityType

\* A line more, or a flush more.
LEMMA LinesAppended ==
  ASSUME NEW q \in Seq(Nat), NEW m \in Nat, NEW z, z = Append(q, m)
  PROVE  /\ z \in Seq(Nat)
         /\ Cardinality(LinesIn(z)) = Cardinality(LinesIn(q)) + IF m # FlushMark THEN 1 ELSE 0
<1>1. /\ z \in Seq(Nat) /\ DOMAIN z = 1 .. Len(q) + 1 /\ DOMAIN q = 1 .. Len(q) /\ Len(q) \in Nat
      /\ (\A i \in 1 .. Len(q) : z[i] = q[i]) /\ z[Len(q) + 1] = m
  OBVIOUS
<1>2. \A i \in 1 .. Len(q) + 1 : i \in 1 .. Len(q) \/ i = Len(q) + 1
  BY <1>1
<1>3. Len(q) + 1 \notin LinesIn(q) /\ \A i \in 1 .. Len(q) : i \in 1 .. Len(q) + 1
  BY <1>1 DEF LinesIn
<1>4. LinesIn(z) = IF m # FlushMark THEN LinesIn(q) \cup {Len(q) + 1} ELSE LinesIn(q)
  BY <1>1, <1>2, <1>3 DEF LinesIn
<1>5. IsFiniteSet(LinesIn(q)) /\ Cardinality(LinesIn(q)) \in Nat
  BY LinesFinite
<1>6. Cardinality(LinesIn(q) \cup {Len(q) + 1}) = Cardinality(LinesIn(q)) + 1
  BY <1>3, <1>5, FS_AddElement
<1> QED
  BY <1>1, <1>4, <1>5, <1>6

\* What is appended is younger than what was there, and a flush comes behind it all.
LEMMA OrderAppended ==
  ASSUME NEW q \in Seq(Nat), NEW n \in Nat, NEW a \in Nat, Below(q, n), a <= n, Comes(q, a)
  PROVE  /\ \A z : z = Append(q, n + 1) => Below(z, n + 1) /\ Comes(z, a)
         /\ \A z : z = Append(q, FlushMark) => Below(z, n) /\ Comes(z, n)
<1>1. DOMAIN q = 1 .. Len(q) /\ Len(q) \in Nat /\ \A i \in 1 .. Len(q) : q[i] \in Nat
  OBVIOUS
<1>2. ASSUME NEW z, NEW m \in Nat, z = Append(q, m)
      PROVE  /\ DOMAIN z = 1 .. Len(q) + 1 /\ z[Len(q) + 1] = m
             /\ \A i \in 1 .. Len(q) : z[i] = q[i]
  BY <1>2
<1>3. \A i \in 1 .. Len(q) + 1 : i \in 1 .. Len(q) \/ i = Len(q) + 1
  BY <1>1
<1>4. ASSUME NEW z, z = Append(q, n + 1)
      PROVE  Below(z, n + 1) /\ Comes(z, a)
  <2>1. /\ DOMAIN z = 1 .. Len(q) + 1 /\ z[Len(q) + 1] = n + 1
        /\ \A i \in 1 .. Len(q) : z[i] = q[i]
    BY <1>2, <1>4
  <2>2. Below(z, n + 1)
    <3>1. \A i \in 1 .. Len(q) : q[i] <= n /\ z[i] \in Nat /\ z[i] <= n
      BY <1>1, <2>1 DEF Below
    <3>2. \A i \in 1 .. Len(q) : z[i] <= n + 1
      BY <3>1
    <3>3. z[Len(q) + 1] <= n + 1
      BY <2>1
    <3>4. \A i \in 1 .. Len(q) + 1 : z[i] <= n + 1
      BY <1>3, <3>2, <3>3
    <3> QED
      BY <2>1, <3>4 DEF Below
  <2>3. ASSUME NEW i \in LinesIn(z), z[i] <= a
        PROVE  \E j \in DOMAIN z : j > i /\ z[j] = FlushMark
    <3>1. i \in 1 .. Len(q) /\ i \in LinesIn(q) /\ q[i] <= a
      BY <1>1, <1>3, <2>1, <2>3 DEF LinesIn
    <3>2. PICK j \in 1 .. Len(q) : j > i /\ q[j] = FlushMark
      BY <1>1, <3>1 DEF Comes
    <3>3. z[j] = FlushMark /\ j \in DOMAIN z
      BY <1>1, <2>1, <3>2
    <3> QED
      BY <3>2, <3>3
  <2> QED
    BY <2>2, <2>3 DEF Comes
<1>5. ASSUME NEW z, z = Append(q, FlushMark)
      PROVE  Below(z, n) /\ Comes(z, n)
  <2>1. /\ DOMAIN z = 1 .. Len(q) + 1 /\ z[Len(q) + 1] = FlushMark
        /\ \A i \in 1 .. Len(q) : z[i] = q[i]
    BY <1>2, <1>5 DEF FlushMark
  <2>2. Below(z, n)
    BY <1>1, <1>3, <2>1 DEF Below, FlushMark
  <2>3. \A i \in LinesIn(z) : i \in 1 .. Len(q) /\ Len(q) + 1 > i
    BY <1>1, <1>3, <2>1 DEF LinesIn
  <2>4. Len(q) + 1 \in DOMAIN z
    BY <1>1, <2>1
  <2> QED
    BY <2>1, <2>2, <2>3, <2>4 DEF Comes
<1> QED
  BY <1>4, <1>5

\* The front one less.
LEMMA LinesTaken ==
  ASSUME NEW q \in Seq(Nat), q # <<>>
  PROVE  /\ Tail(q) \in Seq(Nat)
         /\ Cardinality(LinesIn(q)) = Cardinality(LinesIn(Tail(q))) + IF Head(q) # FlushMark THEN 1 ELSE 0
<1> DEFINE t == Tail(q)  R == LinesIn(q) \ {1}
           f == [i \in LinesIn(t) |-> i + 1]
<1>1. /\ t \in Seq(Nat) /\ DOMAIN q = 1 .. Len(q) /\ Len(q) \in Nat \ {0} /\ Head(q) = q[1]
      /\ DOMAIN t = 1 .. Len(q) - 1 /\ \A i \in 1 .. Len(q) - 1 : t[i] = q[i + 1]
  OBVIOUS
<1>2. f \in Bijection(LinesIn(t), R)
  <2>1. \A i \in LinesIn(t) : i \in Nat /\ i + 1 \in R
    BY <1>1 DEF LinesIn
  <2>2. \A j \in R : j - 1 \in LinesIn(t) /\ j = (j - 1) + 1
    BY <1>1 DEF LinesIn
  <2>3. f \in [LinesIn(t) -> R]
    BY <2>1
  <2>4. \A i, j \in LinesIn(t) : f[i] = f[j] => i = j
    BY <2>1
  <2>5. \A j \in R : \E i \in LinesIn(t) : f[i] = j
    BY <2>2
  <2> HIDE DEF f, R
  <2> QED
    BY <2>3, <2>4, <2>5 DEF Bijection, Injection, Surjection, IsInjective
<1>3. IsFiniteSet(LinesIn(t)) /\ IsFiniteSet(LinesIn(q)) /\ Cardinality(LinesIn(q)) \in Nat
  BY <1>1, LinesFinite
<1>4. Cardinality(R) = Cardinality(LinesIn(t))
  <2> HIDE DEF f, R
  <2> QED
    BY <1>2, <1>3, FS_Bijection DEF ExistsBijection
<1>5. 1 \in LinesIn(q) <=> Head(q) # FlushMark
  BY <1>1 DEF LinesIn
<1>6. Cardinality(R) = IF 1 \in LinesIn(q) THEN Cardinality(LinesIn(q)) - 1 ELSE Cardinality(LinesIn(q))
  BY <1>3, FS_RemoveElement
<1> QED
  BY <1>1, <1>3, <1>4, <1>5, <1>6

LEMMA OrderTaken ==
  ASSUME NEW q \in Seq(Nat), q # <<>>, NEW n \in Nat, NEW a \in Nat, Below(q, n), Comes(q, a)
  PROVE  Below(Tail(q), n) /\ Comes(Tail(q), a)
<1> DEFINE t == Tail(q)
<1>1. /\ DOMAIN q = 1 .. Len(q) /\ Len(q) \in Nat \ {0}
      /\ DOMAIN t = 1 .. Len(q) - 1 /\ \A i \in 1 .. Len(q) - 1 : t[i] = q[i + 1] /\ i + 1 \in 1 .. Len(q)
  OBVIOUS
<1> HIDE DEF t
<1>2. Below(t, n)
  BY <1>1 DEF Below
<1>3. ASSUME NEW i \in LinesIn(t), t[i] <= a
      PROVE  \E j \in DOMAIN t : j > i /\ t[j] = FlushMark
  <2>1. i \in 1 .. Len(q) - 1 /\ i + 1 \in LinesIn(q) /\ q[i + 1] <= a
    BY <1>1, <1>3 DEF LinesIn
  <2>2. PICK j \in 1 .. Len(q) : j > i + 1 /\ q[j] = FlushMark
    BY <1>1, <2>1 DEF Comes
  <2>3. j - 1 \in 1 .. Len(q) - 1 /\ j - 1 > i /\ (j - 1) + 1 = j
    BY <1>1, <2>1, <2>2
  <2> QED
    BY <1>1, <2>2, <2>3
<1> QED
  BY <1>2, <1>3 DEF Comes, t

LEMMA LogStarts ==
  ASSUME sink = EmptySink, shown = [lines |-> 0, drops |-> 0], unwritten = 0, lines = 0
  PROVE  LogInv
<1>1. sink.queue = <<>> /\ sink.pending = 0 /\ sink.asked = 0 /\ DOMAIN sink.queue = {}
  BY DEF EmptySink
<1>2. LinesQueued = {} /\ Cardinality(LinesQueued) = 0
  BY <1>1, FS_EmptySet DEF LinesQueued
<1>3. sink \in [queue : Seq(Nat), pending : Nat, asked : Nat]
  BY DEF EmptySink
<1>4. EachLineSomewhere /\ FlushComesLast
  BY <1>1, <1>2 DEF EachLineSomewhere, FlushComesLast
<1> QED
  BY <1>1, <1>3, <1>4 DEF LogInv, LogAccounted, Below

\* What a line, a write and an end change of the sum.
LEMMA LedgerMoves ==
  ASSUME NEW m \in Nat, NEW d \in Nat, NEW w \in Nat, NEW k \in Nat, NEW u \in Nat, NEW n \in Nat
  PROVE  /\ n = m + d + w + k + u => /\ n + 1 = m + d + w + (k + 1) + u
                                    /\ n + 1 = m + d + (w + 1) + k + u
                                    /\ n = m + d + 0 + 0 + (u + w + k)
         /\ n = m + d + w + (k + 1) + u => n = (m + 1) + (d + w) + 0 + k + u
         /\ u + w + k \in Nat /\ 0 <= n
OBVIOUS

\* One step of the log: a line is counted where it goes.
LEMMA LogSteps ==
  ASSUME LogInv,
         \/ Submits /\ UNCHANGED <<shown, unwritten>>
         \/ LogFlushes \/ LogWrites
         \/ \E how \in {"failed", "killed", "orderly"} : ProcessGone(how)
  PROVE  LogInv'
<1> DEFINE q == sink.queue  p == sink.pending  a == sink.asked
<1>1. /\ q \in Seq(Nat) /\ p \in Nat /\ a \in Nat /\ shown.lines \in Nat /\ shown.drops \in Nat
      /\ lines \in Nat /\ unwritten \in Nat
      /\ sink = [queue |-> q, pending |-> p, asked |-> a]
      /\ shown = [lines |-> shown.lines, drops |-> shown.drops]
      /\ Below(q, lines) /\ a <= lines
  BY DEF LogInv
<1>2. LinesQueued = LinesIn(q) /\ Comes(q, a)
  BY DEF LogInv, LogAccounted, LinesQueued, LinesIn, FlushComesLast, Comes
<1>3. lines = shown.lines + shown.drops + p + Cardinality(LinesIn(q)) + unwritten
  BY <1>2 DEF LogInv, LogAccounted, EachLineSomewhere
<1>4. Cardinality(LinesIn(q)) \in Nat
  BY <1>1, LinesFinite
<1>5. sink.queue = q /\ sink.pending = p /\ sink.asked = a
  OBVIOUS
<1>0. shown.lines \in Nat /\ shown.drops \in Nat /\ p \in Nat /\ unwritten \in Nat /\ lines \in Nat
  BY <1>1
<1> HIDE DEF q, p, a
<1>6. ASSUME NEW z \in Seq(Nat), NEW w \in Nat, NEW b \in Nat, NEW m \in Nat, NEW d \in Nat,
             NEW u \in Nat, NEW n \in Nat,
             sink' = [queue |-> z, pending |-> w, asked |-> b], shown' = [lines |-> m, drops |-> d],
             unwritten' = u, lines' = n, Below(z, n), b <= n, Comes(z, b),
             n = m + d + w + Cardinality(LinesIn(z)) + u
      PROVE  LogInv'
  <2>1. LinesQueued' = LinesIn(z) /\ sink'.queue = z /\ sink'.pending = w /\ sink'.asked = b
    BY <1>6 DEF LinesQueued, LinesIn
  <2>2. EachLineSomewhere' /\ FlushComesLast'
    BY <1>6, <2>1 DEF EachLineSomewhere, FlushComesLast, Comes
  <2>3. Below(sink.queue, lines)'
    BY <1>6, <2>1 DEF Below
  <2> QED
    BY <1>6, <2>1, <2>2, <2>3 DEF LogInv, LogAccounted
<1>7. CASE Submits /\ UNCHANGED <<shown, unwritten>>
  <2> DEFINE z == Append(q, lines + 1)
  <2>1. z \in Seq(Nat) /\ Cardinality(LinesIn(z)) = Cardinality(LinesIn(q)) + 1
    <3>1. lines + 1 \in Nat /\ lines + 1 # FlushMark
      BY <1>1 DEF FlushMark
    <3> QED
      BY <1>1, <3>1, LinesAppended
  <2>2. Below(z, lines + 1) /\ Comes(z, a) /\ Below(q, lines + 1)
    <3>1. Below(q, lines + 1)
      BY <1>1 DEF Below
    <3> QED
      BY <1>1, <1>2, <3>1, OrderAppended
  <2> HIDE DEF z
  <2>3. /\ lines' = lines + 1 /\ shown' = shown /\ unwritten' = unwritten
        /\ sink' = IF Len(q) < LogCap THEN [sink EXCEPT !.queue = z] ELSE [sink EXCEPT !.pending = p + 1]
    BY <1>5, <1>7 DEF Submits, z
  <2>4. lines + 1 \in Nat /\ a <= lines + 1 /\ p + 1 \in Nat
    BY <1>1
  <2>5. CASE sink' = [sink EXCEPT !.queue = z]
    <3>1. sink' = [queue |-> z, pending |-> p, asked |-> a]
      BY <1>1, <2>5
    <3>2. lines + 1 = shown.lines + shown.drops + p + Cardinality(LinesIn(z)) + unwritten
      BY <1>3, <1>4, <1>0, <2>1, LedgerMoves
    <3> QED
      BY <1>1, <1>6, <2>1, <2>2, <2>3, <2>4, <3>1, <3>2
  <2>6. CASE sink' = [sink EXCEPT !.pending = p + 1]
    <3>1. sink' = [queue |-> q, pending |-> p + 1, asked |-> a]
      BY <1>1, <2>6
    <3>2. lines + 1 = shown.lines + shown.drops + (p + 1) + Cardinality(LinesIn(q)) + unwritten
      BY <1>3, <1>4, <1>0, LedgerMoves
    <3> QED
      BY <1>1, <1>2, <1>6, <2>2, <2>3, <2>4, <3>1, <3>2
  <2> QED
    BY <2>3, <2>5, <2>6
<1>8. CASE LogFlushes
  <2> DEFINE z == Append(q, FlushMark)
  <2>1. z \in Seq(Nat) /\ Cardinality(LinesIn(z)) = Cardinality(LinesIn(q)) + 0
    <3>1. FlushMark \in Nat
      BY DEF FlushMark
    <3> QED
      BY <1>1, <3>1, LinesAppended
  <2>2. Below(z, lines) /\ Comes(z, lines)
    BY <1>1, <1>2, OrderAppended
  <2> HIDE DEF z
  <2>3. /\ lines' = lines /\ shown' = shown /\ unwritten' = unwritten
        /\ sink' = IF Len(q) < LogCap THEN [sink EXCEPT !.queue = z, !.asked = lines] ELSE sink
    BY <1>5, <1>8 DEF LogFlushes, z
  <2>4. CASE sink' = [sink EXCEPT !.queue = z, !.asked = lines]
    <3>1. sink' = [queue |-> z, pending |-> p, asked |-> lines]
      BY <1>1, <2>4
    <3>2. lines = shown.lines + shown.drops + p + Cardinality(LinesIn(z)) + unwritten
      BY <1>1, <1>3, <1>4, <2>1
    <3> QED
      BY <1>1, <1>6, <2>1, <2>2, <2>3, <3>1, <3>2
  <2>5. CASE sink' = sink
    BY <1>1, <1>2, <1>3, <1>6, <2>3, <2>5
  <2> QED
    BY <2>3, <2>4, <2>5
<1>9. CASE LogWrites
  <2> DEFINE z == Tail(q)
  <2>1. Head(q) \in Nat /\ q # <<>>
    BY <1>1, <1>5, <1>9 DEF LogWrites
  <2>2. /\ lines' = lines /\ unwritten' = unwritten
        /\ Head(q) = FlushMark => sink' = [queue |-> z, pending |-> p, asked |-> a] /\ shown' = shown
        /\ Head(q) # FlushMark => /\ sink' = [queue |-> z, pending |-> 0, asked |-> a]
                                  /\ shown' = [lines |-> shown.lines + 1, drops |-> shown.drops + p]
    BY <1>1, <1>5, <1>9 DEF LogWrites
  <2>3. /\ z \in Seq(Nat) /\ Cardinality(LinesIn(z)) \in Nat
        /\ Cardinality(LinesIn(q)) = Cardinality(LinesIn(z)) + IF Head(q) # FlushMark THEN 1 ELSE 0
    BY <1>1, <2>1, LinesTaken, LinesFinite
  <2>4. Below(z, lines) /\ Comes(z, a)
    BY <1>1, <1>2, <2>1, OrderTaken
  <2> HIDE DEF z
  <2>5. CASE Head(q) = FlushMark
    <3>1. lines = shown.lines + shown.drops + p + Cardinality(LinesIn(z)) + unwritten
      <4>1. Cardinality(LinesIn(q)) = Cardinality(LinesIn(z))
        BY <2>3, <2>5
      <4> QED
        BY <1>3, <4>1
    <3> QED
      BY <1>1, <1>6, <2>2, <2>3, <2>4, <2>5, <3>1
  <2>6. CASE Head(q) # FlushMark
    <3>1. lines = (shown.lines + 1) + (shown.drops + p) + 0 + Cardinality(LinesIn(z)) + unwritten
      <4>1. Cardinality(LinesIn(q)) = Cardinality(LinesIn(z)) + 1
        BY <2>3, <2>6
      <4> DEFINE k == Cardinality(LinesIn(z))
      <4>2. k \in Nat /\ lines = shown.lines + shown.drops + p + (k + 1) + unwritten
        BY <1>3, <2>3, <4>1
      <4> HIDE DEF k
      <4>3. lines = (shown.lines + 1) + (shown.drops + p) + 0 + k + unwritten
        BY <1>0, <4>2, LedgerMoves
      <4> QED
        BY <4>3 DEF k
    <3>2. shown.lines + 1 \in Nat /\ shown.drops + p \in Nat /\ 0 \in Nat
      BY <1>1
    <3>3. /\ sink' = [queue |-> z, pending |-> 0, asked |-> a] /\ lines' = lines
          /\ unwritten' = unwritten
          /\ shown' = [lines |-> shown.lines + 1, drops |-> shown.drops + p]
      BY <2>2, <2>6
    <3> QED
      BY <1>1, <1>6, <2>3, <2>4, <3>1, <3>2, <3>3
  <2> QED
    BY <2>5, <2>6
<1>10. ASSUME NEW how, ProcessGone(how)
       PROVE  LogInv'
  <2> DEFINE k == Cardinality(LinesIn(q))
  <2>1. /\ shown' = shown /\ lines' = lines
        /\ sink' = [queue |-> <<>>, pending |-> 0, asked |-> 0]
        /\ unwritten' = unwritten + p + k
    BY <1>2, <1>5, <1>10 DEF ProcessGone, EmptySink
  <2>2. /\ <<>> \in Seq(Nat) /\ LinesIn(<<>>) = {} /\ Below(<<>>, lines) /\ Comes(<<>>, 0)
        /\ Cardinality(LinesIn(<<>>)) = 0
    BY FS_EmptySet DEF LinesIn, Below, Comes
  <2>3. k \in Nat /\ lines = shown.lines + shown.drops + p + k + unwritten
    BY <1>3, <1>4
  <2> HIDE DEF k
  <2>4. /\ lines = shown.lines + shown.drops + 0 + 0 + (unwritten + p + k)
        /\ unwritten + p + k \in Nat /\ 0 \in Nat /\ 0 <= lines
    BY <1>0, <2>3, LedgerMoves
  <2> QED
    BY <1>1, <1>6, <2>1, <2>2, <2>4
<1> QED
  BY <1>7, <1>8, <1>9, <1>10

\* However the queue fills and drains around the flush, and however processes end (submit,
\* flush, the thread sniffbox-log, cli_main): each line that was submitted is shown, queued,
\* reported as dropped, counted for the next report or went with a process; and an end after
\* the answer to the flush takes no line older than the flush.
THEOREM LogNeverLosesCount == LifeSpec => []LogAccounted
<1>1. LifeInit => LogInv
  BY LogStarts DEF LifeInit
<1>2. LogInv /\ [LifeNext]_lifeVars => LogInv'
  <2> SUFFICES ASSUME LogInv, [LifeNext]_lifeVars
               PROVE  LogInv'
    OBVIOUS
  <2>1. CASE UNCHANGED logVars
    BY <2>1 DEF logVars, LogInv, LogAccounted, LinesQueued, EachLineSomewhere, FlushComesLast, Below
  <2>2. LogLine \/ ListenersFail => Submits /\ UNCHANGED <<shown, unwritten>>
    BY DEF LogLine, ListenersFail
  <2>3. Exits \/ Fails \/ ForceKills => \E how \in {"failed", "killed", "orderly"} : ProcessGone(how)
    BY DEF Exits, Fails, ForceKills
  <2>4. SendsHup \/ SendsTerm => \/ UNCHANGED logVars
                                 \/ \E how \in {"failed", "killed", "orderly"} : ProcessGone(how)
    BY DEF SendsHup, SendsTerm
  <2>5. \/ UNCHANGED logVars \/ LogLine \/ ListenersFail \/ LogFlushes \/ LogWrites
        \/ Exits \/ Fails \/ ForceKills \/ SendsHup \/ SendsTerm
    BY DEF LifeNext, ProcStep, ReloadStep, Loads, BuildsState, SupervisesOvpn, ListenersBind, SupervisesCf,
           ServicesStart, ShutsDown, KillsChildren, HupHandler, TermHandler, ReloadReceives,
           ReloadLoads, ReloadStores, WritesIni, IniWritten, lifeVars, logVars
  <2> QED
    BY <2>1, <2>2, <2>3, <2>4, <2>5, LogSteps
<1>3. LogInv => LogAccounted
  BY DEF LogInv
<1> QED
  BY <1>1, <1>2, <1>3, PTL DEF LifeSpec
-----------------------------------------------------------------------------
\* Which children there may be where the process is: none is left from an earlier one once
\* its supervisor is there, and none runs when the supervisors have killed theirs.
LifePlaces == {"down", "loaded", "built", "listen", "failed", "cf", "serve", "up", "kill", "flush", "wait"}
KidsInv ==
  /\ process.at \in LifePlaces
  /\ kids \in [Kids -> {"none", "own", "left"}]
  /\ process = [at |-> process.at, cfg |-> process.cfg]
  /\ ~Ovpn => kids["openvpn"] = "none"
  /\ process.at \in LifePlaces \ {"down", "loaded", "built"} => kids["openvpn"] # "left"
  /\ process.at \in {"serve", "up", "kill"} => kids["cloudflared"] # "left"
  /\ \/ process.at \in {"flush", "wait"}
     \/ process.at = "down" /\ lastEnd = "orderly"
     => \A k \in Kids : kids[k] = "none"

\* A child is the supervisor's own, killed at an orderly end, or was left by a process
\* that failed or was killed (OvpnSupervisor::new, CloudflaredSupervisor::new, kill): the
\* next process takes it over before it can end in order, so after such an end none runs.
THEOREM OrderlyEndLeavesNone == LifeSpec => []OrderlyLeavesNone
<1>1. LifeInit => KidsInv
  BY DEF LifeInit, KidsInv, Kids, LifePlaces
<1>2. KidsInv /\ [LifeNext]_lifeVars => KidsInv'
  <2> SUFFICES ASSUME KidsInv, [LifeNext]_lifeVars
               PROVE  KidsInv'
    OBVIOUS
  <2> USE DEF Kids, LifePlaces
  <2>1. CASE UNCHANGED <<process, kids, lastEnd>>
    BY <2>1 DEF KidsInv
  <2>2. ASSUME NEW from \in {"listen", "cf", "serve", "up"},
               NEW to \in {"cf", "failed", "serve", "up", "kill"},
               <<from, to>> \in {<<"listen", "cf">>, <<"listen", "failed">>, <<"serve", "up">>, <<"up", "kill">>},
               Step(from, to), UNCHANGED <<kids, lastEnd>>
        PROVE  KidsInv'
    BY <2>2 DEF KidsInv, Step
  <2>3. CASE Loads \/ BuildsState
    BY <2>3 DEF KidsInv, Loads, BuildsState, Step, ctlVars
  <2>4. CASE SupervisesOvpn
    BY <2>4 DEF KidsInv, SupervisesOvpn, Step
  <2>5. CASE SupervisesCf
    BY <2>5 DEF KidsInv, SupervisesCf, Step
  <2>6. CASE KillsChildren
    BY <2>6 DEF KidsInv, KillsChildren, Step
  <2>7. CASE LogFlushes
    BY <2>7 DEF KidsInv, LogFlushes, Step, ctlVars
  <2>8. ASSUME NEW how \in {"failed", "killed"}, ProcessGone(how)
        PROVE  KidsInv'
    BY <2>8 DEF KidsInv, ProcessGone
  <2>9. CASE Exits
    BY <2>9 DEF KidsInv, Exits, ProcessGone
  <2>10. ListenersBind \/ ListenersFail \/ ServicesStart \/ ShutsDown => KidsInv'
    BY <2>2 DEF ListenersBind, ListenersFail, ServicesStart, ShutsDown, ctlVars
  <2>11. Fails \/ ForceKills => KidsInv'
    BY <2>8 DEF Fails, ForceKills
  <2>12. SendsHup \/ SendsTerm => KidsInv'
    BY <2>1, <2>8 DEF SendsHup, SendsTerm
  <2>13. HupHandler \/ TermHandler \/ ReloadStep \/ LogLine \/ LogWrites \/ WritesIni \/ IniWritten
         \/ UNCHANGED lifeVars => KidsInv'
    BY <2>1 DEF HupHandler, TermHandler, ReloadStep, ReloadReceives, ReloadLoads, ReloadStores,
                LogLine, LogWrites, WritesIni, IniWritten, ctlVars, lifeVars
  <2> QED
    BY <2>3, <2>4, <2>5, <2>6, <2>7, <2>9, <2>10, <2>11, <2>12, <2>13 DEF LifeNext, ProcStep
<1>3. KidsInv => OrderlyLeavesNone
  BY DEF KidsInv, OrderlyLeavesNone, Alive
<1> QED
  BY <1>1, <1>2, <1>3, PTL DEF LifeSpec
=============================================================================
