------------------------------ MODULE CfScore ------------------------------
(***************************************************************************)
(* A scoring round: which transport is the better one on an egress         *)
(* (cf_quality.rs: pick) is found out with two probe tunnels that are run  *)
(* side by side (cf_probe.rs: measure_pair).  Rounds are started by the    *)
(* background scoring, by a tick whose tunnel does not register and by the *)
(* hourly rescoring, without a lock between them; what a round may spend   *)
(* is limited by a gate that is kept in a file, as are the last scores.    *)
(* sniffbox may end at any moment; the tunnels are processes of their own. *)
(***************************************************************************)
EXTENDS Naturals, FiniteSets

CONSTANTS
  Sides,        \* Egress::ALL
  Rounders,     \* the tasks that start rounds
  Scores,       \* what a tunnel can be measured as: completed, rate, ttfb
  Unscored,
  MinGain,      \* MIN_LATENCY_GAIN
  MaxGateFails, \* from here on the backoff is MAX_PROBE_GAP
  MaxRounds, MaxCrashes    \* bounds

Transports == {"quic", "http2"}

ASSUME ScoreConstants ==
  /\ Scores \subseteq [completed : Nat, rate : Nat \ {0}, ttfb : Nat]
  /\ Sides # {} /\ Unscored \notin Scores /\ Unscored \notin Transports /\ MaxGateFails \in Nat \ {0} /\ MaxCrashes \in Nat /\ MaxRounds \in Nat
  /\ MinGain \in Nat \ {0}
  /\ "stray" \notin Rounders

VARIABLES
  probeGate,   \* the gate file of each egress: whether the wait is over, failures
  judged,     \* the history file of each egress: the last score of each transport
  refused,     \* REFUSED
  round,       \* of each task: its step, egress, failures read, tunnels, samples
  tunnels,     \* probe tunnels that run: <<task, transport>>
  lastRound,   \* LAST_ROUND of each egress
  monitor,     \* whether spawn_monitor was reached
  owed,        \* history: egresses with a round begun that did not measure both
  rounds, crashes

scoreVars == <<probeGate, judged, refused, round, tunnels, lastRound, monitor, owed, rounds, crashes>>
-----------------------------------------------------------------------------
NoScores == [p \in Transports |-> Unscored]
IdleRound == [pc |-> "rest", side |-> CHOOSE e \in Sides : TRUE, fails |-> 0, up |-> {}, limited |-> FALSE, got |-> NoScores]
NoRound == [up |-> Transports, got |-> NoScores, verdict |-> Unscored]

ScoreInit ==
  /\ probeGate = [e \in Sides |-> [open |-> TRUE, fails |-> 0]]
  /\ judged = [e \in Sides |-> NoScores]
  /\ refused = FALSE
  /\ round = [t \in Rounders |-> IdleRound]
  /\ tunnels = {}
  /\ lastRound = [e \in Sides |-> NoRound]
  /\ monitor = TRUE
  /\ owed = {}
  /\ rounds = 0 /\ crashes = 0

Lowest(a, b) == IF a < b THEN a ELSE b
Attempt(fails) == [open |-> FALSE, fails |-> Lowest(fails, MaxGateFails)]
At(t, pc) == round[t].pc = pc
-----------------------------------------------------------------------------
(* measure_pair *)

\* pick: the gate is read ...
PassesGate(t, e) ==
  /\ monitor /\ At(t, "rest") /\ probeGate[e].open
  /\ rounds < MaxRounds /\ rounds' = rounds + 1
  /\ round' = [round EXCEPT ![t] = [IdleRound EXCEPT !.pc = "record", !.side = e, !.fails = probeGate[e].fails]]
  /\ UNCHANGED <<probeGate, judged, refused, tunnels, lastRound, monitor, owed, crashes>>

\* ... the attempt is recorded before it is made, and the tunnels are spawned.
SpawnsTunnels(t) ==
  /\ At(t, "record")
  /\ probeGate' = [probeGate EXCEPT ![round[t].side] = Attempt(round[t].fails + 1)]
  /\ owed' = owed \cup {round[t].side}
  /\ tunnels' = tunnels \cup {t} \X Transports
  /\ round' = [round EXCEPT ![t].pc = "wait"]
  /\ UNCHANGED <<judged, refused, lastRound, monitor, rounds, crashes>>

\* Running::start: a tunnel that does not register in time is dropped, which kills
\* it and tells all rounds if trycloudflare refused it.
TunnelsRegister(t, up, wasRefused) ==
  /\ At(t, "wait") /\ (wasRefused => up # Transports)
  /\ tunnels' = tunnels \ ({t} \X (Transports \ up))
  /\ refused' = (refused \/ wasRefused)
  /\ round' = [round EXCEPT ![t].pc = "ask", ![t].up = up]
  /\ UNCHANGED <<probeGate, judged, lastRound, monitor, owed, rounds, crashes>>

TakesRefusal(t) ==
  /\ At(t, "ask")
  /\ round' = [round EXCEPT ![t].pc = "sample", ![t].limited = refused]
  /\ refused' = FALSE
  /\ UNCHANGED <<probeGate, judged, tunnels, lastRound, monitor, owed, rounds, crashes>>

\* Arm::prepare and the samples: a tunnel that registered is measured, or its name
\* never resolves, or it never answers.  The tunnels end with the arms.
Measures(t, got) ==
  /\ At(t, "sample")
  /\ \A p \in Transports \ round[t].up : got[p] = Unscored
  /\ tunnels' = tunnels \ ({t} \X Transports)
  /\ round' = [round EXCEPT ![t].pc = "conclude", ![t].got = got]
  /\ UNCHANGED <<probeGate, judged, refused, lastRound, monitor, owed, rounds, crashes>>
-----------------------------------------------------------------------------
(* The verdict. *)

\* MIN_LATENCY_GAIN is not asked for.
ClearlyBetterByRatio(x, y) ==
  \/ x.completed > y.completed
  \/ /\ x.completed = y.completed
     /\ \/ 4 * x.rate >= 5 * y.rate
        \/ 4 * y.rate < 5 * x.rate /\ 5 * x.ttfb <= 4 * y.ttfb

\* clearly_better, with MARGIN as 5/4.
ClearlyBetter(x, y) ==
  \/ x.completed > y.completed
  \/ /\ x.completed = y.completed
     /\ \/ 4 * x.rate >= 5 * y.rate
        \/ 4 * y.rate < 5 * x.rate /\ 5 * x.ttfb <= 4 * y.ttfb /\ y.ttfb >= x.ttfb + MinGain

\* rank: a transport that did not register loses to one that was measured; one that
\* registered and could not be measured is no reason for a verdict.
Rank(q, h, up) ==
  CASE q # Unscored /\ h # Unscored -> IF ClearlyBetter(h, q) /\ ~ClearlyBetter(q, h) THEN "http2" ELSE "quic"
    [] q # Unscored /\ h = Unscored -> IF "http2" \notin up THEN "quic" ELSE Unscored
    [] q = Unscored /\ h # Unscored -> IF "quic" \notin up THEN "http2" ELSE Unscored
    [] OTHER -> Unscored

\* degraded_pick: the edges and the remembered scores must say the same.
Degraded(edge, q, h) ==
  CASE q = Unscored \/ h = Unscored -> Unscored
    [] ClearlyBetter(q, h) -> IF edge = "quic" THEN "quic" ELSE Unscored
    [] ClearlyBetter(h, q) -> IF edge = "http2" THEN "http2" ELSE Unscored
    [] OTHER -> Unscored

Remembered(e, got) == [p \in Transports |-> IF got[p] # Unscored THEN got[p] ELSE judged[e][p]]

Verdict(got, up, mem, edge) ==
  LET r == Rank(got["quic"], got["http2"], up) IN
  IF r # Unscored THEN r ELSE Degraded(edge, mem["quic"], mem["http2"])

\* The rest of pick.  edge: which transport the edges answer clearly faster, if any;
\* sameRoute: whether the remembered scores are of a path like this one.
Concludes(t, edge, sameRoute) ==
  /\ At(t, "conclude")
  /\ LET e == round[t].side  got == round[t].got
         both == \A p \in Transports : got[p] # Unscored
         mem == IF sameRoute THEN Remembered(e, got) ELSE got IN
       /\ judged' = [judged EXCEPT ![e] = Remembered(e, got)]
       /\ probeGate' = IF both THEN [probeGate EXCEPT ![e] = Attempt(0)]
                       ELSE IF round[t].limited THEN [probeGate EXCEPT ![e] = Attempt(round[t].fails + 2)]
                       ELSE probeGate
       /\ owed' = IF both THEN owed \ {e} ELSE owed
       /\ lastRound' = [lastRound EXCEPT ![e] = [up |-> round[t].up, got |-> got,
                           verdict |-> Verdict(got, round[t].up, mem, edge)]]
  /\ round' = [round EXCEPT ![t] = IdleRound]
  /\ UNCHANGED <<refused, tunnels, monitor, rounds, crashes>>

RoundStep(t) ==
  \/ SpawnsTunnels(t) \/ TakesRefusal(t)
  \/ \E up \in SUBSET Transports, r \in BOOLEAN : TunnelsRegister(t, up, r)
  \/ \E got \in [Transports -> Scores \cup {Unscored}] : Measures(t, got)
  \/ \E edge \in Transports \cup {Unscored}, same \in BOOLEAN : Concludes(t, edge, same)
-----------------------------------------------------------------------------
\* The wait of an egress is over.
GateOpens(e) ==
  /\ ~probeGate[e].open
  /\ probeGate' = [probeGate EXCEPT ![e].open = TRUE]
  /\ UNCHANGED <<judged, refused, round, tunnels, lastRound, monitor, owed, rounds, crashes>>

ScoresAge(e) ==
  /\ judged[e] # NoScores
  /\ judged' = [judged EXCEPT ![e] = NoScores]
  /\ UNCHANGED <<probeGate, refused, round, tunnels, lastRound, monitor, owed, rounds, crashes>>

\* sniffbox ends; the tunnels that it had go on.
Crash ==
  /\ monitor /\ crashes < MaxCrashes /\ crashes' = crashes + 1
  /\ monitor' = FALSE
  /\ tunnels' = {"stray"} \X {x[2] : x \in tunnels}
  /\ refused' = FALSE
  /\ round' = [t \in Rounders |-> IdleRound]
  /\ lastRound' = [e \in Sides |-> NoRound]
  /\ UNCHANGED <<probeGate, judged, owed, rounds>>

\* spawn_monitor: reap_strays comes first.
MonitorStarts ==
  /\ ~monitor /\ monitor' = TRUE
  /\ tunnels' = {}
  /\ UNCHANGED <<probeGate, judged, refused, round, lastRound, owed, rounds, crashes>>

ScoreNext ==
  \/ \E t \in Rounders : RoundStep(t) \/ \E e \in Sides : PassesGate(t, e)
  \/ \E e \in Sides : GateOpens(e) \/ ScoresAge(e)
  \/ Crash \/ MonitorStarts
-----------------------------------------------------------------------------
\* A probe tunnel belongs to a round that is on, whatever became of the one that
\* started it; and a round that was begun, and never measured both transports,
\* has left its mark on the gate, so that the next one is further away.
ProbesContained ==
  /\ monitor => \A x \in tunnels : x[1] # "stray" /\ round[x[1]].pc \in {"wait", "ask", "sample"}
  /\ \A e \in owed : probeGate[e].fails > 0

\* A verdict is never given to the transport that was measured clearly worse, nor to
\* one that did not register while the other one was measured; the order in which the
\* two are compared does not matter.
VerdictSound ==
  \A e \in Sides :
    LET r == lastRound[e]  p == r.verdict  o == IF p = "quic" THEN "http2" ELSE "quic" IN
    p # Unscored =>
      /\ ~(r.got[p] # Unscored /\ r.got[o] # Unscored /\ ClearlyBetter(r.got[o], r.got[p]))
      /\ ~(p \notin r.up /\ r.got[o] # Unscored)

\* A round leaves no tunnel and no unpaid attempt behind, and its verdict follows
\* from what it measured.
RoundsSound == ProbesContained /\ VerdictSound

=============================================================================
