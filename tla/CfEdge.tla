------------------------------- MODULE CfEdge -------------------------------
(***************************************************************************)
(* Which Cloudflare edges a replica or a probe is started with             *)
(* (cf_edge.rs: pick_edges_mode): the builtin IPv4 addresses are measured, *)
(* then the IPv6 ones unless they did not answer lately, then addresses    *)
(* found by DNS when none answered; the faster family wins.  A round has a *)
(* budget of time.  Rounds may overlap and share the note about IPv6.  The *)
(* rounds here are those of the direct egress; a proxied one asks no IPv6. *)
(*                                                                         *)
(* Of a family the fastest answer counts.  net says what answers now.      *)
(***************************************************************************)
EXTENDS Naturals

CONSTANTS
  Pickers,     \* who picks edges
  Rtts,        \* round trip times, in units
  V6WinMin,    \* V6_WIN_MIN
  Silent,      \* no answer
  MaxNetChanges  \* bound

ASSUME EdgeConstants ==
  Rtts \subseteq Nat /\ Silent \notin Nat /\ V6WinMin \in Nat /\ MaxNetChanges \in Nat

EdgeModes == {"quic", "tcp"}
Families == {"v4", "v6"}

VARIABLES
  net,        \* per family and mode: the fastest answer, or Silent
  v6Route,    \* has_global_v6_route
  elsewhere,  \* families in which DNS knows an address beyond the builtin ones
  v6Down,     \* V6_DOWN_UNTIL lies ahead
  pick,       \* per picker: step, mode, fastest answers, whether the budget is spent
  picked,     \* per picker: the family of the last result, or Silent
  netChanges

edgeVars == <<net, v6Route, elsewhere, v6Down, pick, picked, netChanges>>
-----------------------------------------------------------------------------
NoPick == [pc |-> "rest", mode |-> "quic", v4 |-> Silent, v6 |-> Silent, late |-> FALSE]
Nets == [Families \X EdgeModes -> Rtts \cup {Silent}]

EdgeInit ==
  /\ net \in Nets
  /\ v6Route \in BOOLEAN
  /\ elsewhere = {}
  /\ v6Down = FALSE
  /\ pick = [p \in Pickers |-> NoPick]
  /\ picked = [p \in Pickers |-> Silent]
  /\ netChanges = 0

PickAt(p, pc) == pick[p].pc = pc
-----------------------------------------------------------------------------
\* for_protocol; a proxied replica of http2 asks twice.
PickStarts(p, mode) ==
  /\ PickAt(p, "rest")
  /\ pick' = [pick EXCEPT ![p] = [NoPick EXCEPT !.pc = "v4", !.mode = mode]]
  /\ UNCHANGED <<net, v6Route, elsewhere, v6Down, picked, netChanges>>

\* measure: addresses are asked eight at a time, as long as the budget lasts.
MeasuresV4(p) ==
  /\ PickAt(p, "v4")
  /\ pick' = [pick EXCEPT ![p].pc = "v6", ![p].v4 = net[<<"v4", pick[p].mode>>]]
  /\ UNCHANGED <<net, v6Route, elsewhere, v6Down, picked, netChanges>>

\* measure_v6: two canaries first; note_v6 keeps the outcome.
MeasuresV6(p, late) ==
  /\ PickAt(p, "v6")
  /\ LET ask == v6Route /\ ~v6Down
         got == IF ask THEN net[<<"v6", pick[p].mode>>] ELSE Silent IN
       /\ pick' = [pick EXCEPT ![p].pc = "dns", ![p].v6 = got, ![p].late = late]
       /\ v6Down' = IF ask THEN got = Silent ELSE v6Down
  /\ UNCHANGED <<net, v6Route, elsewhere, picked, netChanges>>

\* discover_edges, when nothing answered: only addresses that are not builtin are
\* asked, and they answer in their families.
Discovers(p) ==
  /\ PickAt(p, "dns")
  /\ LET none == pick[p].v4 = Silent /\ pick[p].v6 = Silent /\ ~pick[p].late
         found(f, r) == IF none /\ f \in elsewhere THEN net[<<f, pick[p].mode>>] ELSE r IN
     pick' = [pick EXCEPT ![p].pc = "choose", ![p].v4 = found("v4", @), ![p].v6 = found("v6", @)]
  /\ UNCHANGED <<net, v6Route, elsewhere, v6Down, picked, netChanges>>

\* v6_clearly_faster, pick_family
V6ClearlyFaster(v6, v4) == v6 + V6WinMin <= v4 /\ 4 * v6 <= 3 * v4
PickFamily(v4, v6) ==
  IF v4 # Silent /\ v6 # Silent THEN (IF V6ClearlyFaster(v6, v4) THEN "v6" ELSE "v4")
  ELSE IF v4 # Silent THEN "v4" ELSE IF v6 # Silent THEN "v6" ELSE Silent

Chooses(p) ==
  /\ PickAt(p, "choose")
  /\ picked' = [picked EXCEPT ![p] = PickFamily(pick[p].v4, pick[p].v6)]
  /\ pick' = [pick EXCEPT ![p] = NoPick]
  /\ UNCHANGED <<net, v6Route, elsewhere, v6Down, netChanges>>

PickStep(p) ==
  \/ MeasuresV4(p) \/ Discovers(p) \/ Chooses(p)
  \/ \E late \in BOOLEAN : MeasuresV6(p, late)
-----------------------------------------------------------------------------
\* The note about IPv6 has no end.
V6NeverForgiven == v6Down /\ UNCHANGED edgeVars

\* V6_DOWN_TTL is over.
V6Forgiven ==
  /\ v6Down /\ v6Down' = FALSE
  /\ UNCHANGED <<net, v6Route, elsewhere, pick, picked, netChanges>>

NetChanges(n, more) ==
  /\ netChanges < MaxNetChanges /\ netChanges' = netChanges + 1
  /\ net' = n /\ v6Route' \in BOOLEAN /\ elsewhere' = more
  /\ UNCHANGED <<v6Down, pick, picked>>

EdgeNext ==
  \/ \E p \in Pickers : PickStep(p) \/ \E m \in EdgeModes : PickStarts(p, m)
  \/ V6Forgiven
  \/ \E n \in Nets, more \in SUBSET Families : NetChanges(n, more)

\* The two timers: V6_DOWN_TTL passes, and each picker asks again and again.
EdgeFair ==
  /\ WF_edgeVars(V6Forgiven)
  /\ \A p \in Pickers : /\ WF_edgeVars(PickStep(p))
                        /\ WF_edgeVars(\E m \in EdgeModes : PickStarts(p, m))

EdgeSpec == EdgeInit /\ [][EdgeNext]_edgeVars /\ EdgeFair
-----------------------------------------------------------------------------
\* Where a family answers in both modes, every picker finds an edge again and again,
\* whatever was noted about IPv6 before.
FindsOver(p, f) ==
  \/ f = "v6" /\ ~v6Route
  \/ \E m \in EdgeModes : net[<<f, m>>] = Silent
  \/ picked[p] # Silent
EdgesFound == \A p \in Pickers, f \in Families : []<>FindsOver(p, f)
=============================================================================
