---------------------------- MODULE MCBackends ----------------------------
(***************************************************************************)
(* Small instances of the components that keep processes, files and counts *)
(* in step with one another: the supervisor of cloudflared (CfCtl), the    *)
(* poll of clash's connections (ClashPull), the connection table, the      *)
(* aggregate and the cache of failures, the boot script (Gateway), the     *)
(* subscription service (PpSub), and the process itself (Lifecycle).  They *)
(* have no common state.  part says which of them a behaviour is about,    *)
(* one of Parts; the others stay in one initial state.                     *)
(*                                                                         *)
(* ConnTable is explored twice.  In "count" one connection relays while    *)
(* housekeeping, a viewer and the clearing of statistics run; in "close"   *)
(* two connections, which may get the same local port, end and are closed. *)
(***************************************************************************)
EXTENDS CfCtl, ClashPull, ConnTable, Aggregate, NegCache, Gateway, PpSub,
        Lifecycle

CONSTANTS Parts, x, y, a, b, g1, g2, g3

\* A setting that is stored early in a reload and one that is stored late.
TwoFields == <<"route", "token">>
KeyEach == [r \in Recs |-> IF r = 1 THEN "k" ELSE "l"]

\* Configurations of the gateway.
Conf(mode, cold, warm, rules) == [mode |-> mode, cold |-> cold, hot |-> warm, nft |-> rules]
Initial == Conf("suburl", 1, 1, 1)
NoIni == Conf("free", 0, 0, 0)

\* Each part of the configuration changes, the hot one alone.
ThreeConfs == <<Initial, [Initial EXCEPT !.hot = 2],
                [Initial EXCEPT !.mode = "free", !.cold = 2, !.nft = 2]>>

\* A change that is taken back.
ThereAndBack == <<Initial, [Initial EXCEPT !.cold = 2], Initial>>

\* A group of one subscription, one that is chained through it, and one of both
\* subscriptions that includes the chained one.  Every group has a rule of its own; one
\* comes from a list, one from a list that is forced, and one rule needs no group.
Group(subs, include, chained) ==
  [subs |-> subs, include |-> include, builtin |-> FALSE, chained |-> chained]
ThreeGroups == [g \in {g1, g2, g3} |->
  CASE g = g1 -> Group({a}, {}, FALSE)
    [] g = g2 -> Group({b}, {g1}, TRUE)
    [] g = g3 -> Group({a, b}, {g2}, FALSE)]
RulePerGroup == [r \in {"r1", "r2", "r3", "r4"} |->
  CASE r = "r1" -> g1 [] r = "r2" -> g2 [] r = "r3" -> g3 [] r = "r4" -> "REJECT"]
OwnFile == [s \in {a, b} |-> s]

VARIABLE part

backendsVars == <<part, vars, pullVars, tableVars, aggVars, negVars, gwVars, psVars, lifeVars>>

Counting == TableNext /\ life'[y] = life[y]
Closing == TableNext /\ <<bytes, viewer, clearing>>' = <<bytes, viewer, clearing>>

\* Bounds of this instance.  Of cloudflared: a replica that fails is looked at apart from
\* a shutdown and from a change of its surroundings, and at first one replica may run.
ShutdownAlone == (killer' = "no" /\ env' = 0) \/ cfFaults' = 0
OneAdopted == /\ alive = {} \/ (bin = 1 /\ alive = {CHOOSE p \in Pids : TRUE})
              /\ cfg.proxy = "no"

\* Of the poll: what the engine's own connections relay is left out, and a clear, a
\* sweep or an answer that does not parse is looked at with one writing of clash.yaml.
FewWritings == (\A c \in Own : flow'[c].up = 0) /\ (wipes' = 0 \/ yaml'.mtime <= 1)

\* Of the subscriptions: two hosts at most do not answer directly, and one when clash or a
\* gap-fill fails, which are looked at apart, or a run overtakes a gap-fill; a host changes
\* between the two runs.
HostsOut == Cardinality({h \in Hosts : reach[h] # "direct"})
FewHostsOut == /\ HostsOut <= 1 \/ (~overtaken' /\ sick' = 0 /\ deaths' = 0)
               /\ sick' + deaths' <= 1
               /\ reach' # reach => run.at = "idle" /\ runs = 1

\* Of the script: a crash and a step that goes wrong are looked at apart.
OneMishap == spent'.crash + spent'.miss <= 1

BackendsInit ==
  /\ part \in Parts
  /\ Init /\ (part # "cloudflared" => cfg = (CHOOSE c \in Configs : TRUE) /\ bin = 0 /\ alive = {})
  /\ part = "cloudflared" => OneAdopted
  /\ PsInit /\ HostsOut <= 2 /\ (part # "ppsub" => reach = [h \in Hosts |-> "direct"])
  /\ PullInit /\ TableInit /\ AggInit /\ NegInit /\ GwInit /\ LifeInit

BackendsNext ==
  /\ \/ /\ part = "cloudflared" /\ Next /\ ShutdownAlone
        /\ UNCHANGED <<pullVars, tableVars, aggVars, negVars, gwVars, psVars, lifeVars>>
     \/ /\ part = "pull" /\ PullNext /\ FewWritings
        /\ UNCHANGED <<vars, tableVars, aggVars, negVars, gwVars, psVars, lifeVars>>
     \/ /\ part = "count" /\ Counting
        /\ UNCHANGED <<vars, pullVars, aggVars, negVars, gwVars, psVars, lifeVars>>
     \/ /\ part = "close" /\ Closing
        /\ UNCHANGED <<vars, pullVars, aggVars, negVars, gwVars, psVars, lifeVars>>
     \/ /\ part = "aggregate" /\ AggNext
        /\ UNCHANGED <<vars, pullVars, tableVars, negVars, gwVars, psVars, lifeVars>>
     \/ /\ part = "failures" /\ NegNext
        /\ UNCHANGED <<vars, pullVars, tableVars, aggVars, gwVars, psVars, lifeVars>>
     \/ /\ part = "gateway" /\ GwNext /\ OneMishap
        /\ UNCHANGED <<vars, pullVars, tableVars, aggVars, negVars, psVars, lifeVars>>
     \/ /\ part = "ppsub" /\ PsNext /\ FewHostsOut
        /\ UNCHANGED <<vars, pullVars, tableVars, aggVars, negVars, gwVars, lifeVars>>
     \/ /\ part = "lifecycle" /\ LifeNext
        /\ UNCHANGED <<vars, pullVars, tableVars, aggVars, negVars, gwVars, psVars>>
  /\ UNCHANGED part

\* CfFair, TableFair of the connections that take part, AggFair, NegFair, GwFair,
\* PsFair and LifeFair, each for the behaviours of its part; and of the poll, whose
\* task goes on and which gets an answer again and again while clash is up.
BackendsFairness ==
  /\ WF_vars(part = "cloudflared" /\ GraceEnds) /\ WF_vars(part = "cloudflared" /\ MonitorTicks)
  /\ WF_vars(part = "cloudflared" /\ TickStep) /\ WF_vars(part = "cloudflared" /\ ScoringStep)
  /\ WF_vars(part = "cloudflared" /\ \E w \in Protocols \cup {None} : RescorerPicks(w))
  /\ WF_vars(part = "cloudflared" /\ WebLocks) /\ WF_vars(part = "cloudflared" /\ RescorerSwitches)
  /\ WF_vars(part = "cloudflared" /\ KillStep)
  /\ WF_pullVars(part = "pull" /\ PollStep) /\ WF_pullVars(part = "pull" /\ Fetches)
  /\ WF_tableVars(part \in {"count", "close"} /\ TaskStep(x))
  /\ WF_tableVars(part = "close" /\ TaskStep(y))
  /\ \A d \in Drainers : WF_tableVars(part \in {"count", "close"} /\ Drain(d))
  /\ WF_tableVars(part \in {"count", "close"} /\ HouseStep)
  /\ WF_aggVars(part = "aggregate" /\ AggHouse) /\ WF_aggVars(part = "aggregate" /\ AggView)
  /\ WF_aggVars(part = "aggregate" /\ ClearsJson)
  /\ WF_negVars(part = "failures" /\ (GcRetains \/ GcStores))
  /\ \A u \in Users : WF_negVars(part = "failures" /\ Counts(u))
  /\ \A d \in Dests : WF_negVars(part = "failures" /\ Expires(d))
  /\ \A s \in Scripts : WF_gwVars(part = "gateway" /\ ScriptStep(s))
  /\ WF_gwVars(part = "gateway" /\ LoopStep) /\ WF_gwVars(part = "gateway" /\ BoxStep)
  /\ WF_psVars(part = "ppsub" /\ GetSub /\ runs = 0) /\ WF_psVars(part = "ppsub" /\ RunStep)
  /\ WF_psVars(part = "ppsub" /\ TurnsHealthy)
  /\ \A f \in Fillers : WF_psVars(part = "ppsub" /\ FillStep(f))
  /\ WF_lifeVars(part = "lifecycle" /\ ProcStep) /\ WF_lifeVars(part = "lifecycle" /\ ReloadStep)
  /\ WF_lifeVars(part = "lifecycle" /\ HupHandler) /\ WF_lifeVars(part = "lifecycle" /\ TermHandler)
  /\ WF_lifeVars(part = "lifecycle" /\ LogWrites) /\ WF_lifeVars(part = "lifecycle" /\ IniWritten)
  /\ WF_lifeVars(part = "lifecycle" /\ SendsHup)

BackendsSpec == BackendsInit /\ [][BackendsNext]_backendsVars /\ BackendsFairness
-----------------------------------------------------------------------------
\* Converges, of the behaviours that are about cloudflared.
CloudflaredConverges == <>[](part = "cloudflared" => AsAskedFor)

\* PullSafe and MirrorSettles: bytes are counted for one node, and what is shown of
\* clash's connections comes to be what there is.
PullRuns == []PullSafe /\ MirrorSettles

\* AggregateExact and ShownInTheEnd: the rows are right, and in the end the text is.
AggregateRuns == []AggregateExact /\ ShownInTheEnd

\* Applied and ClashServed, of those that are about the boot script: the gateway runs
\* what is published, clash included.
ScriptSettles == <>[](part = "gateway" => RunsPublished) /\ <>[](part = "gateway" => ClashAsNeeded)

\* ConfigClosed, NewerUnlessOvertaken, and GapsFilled of those that are about
\* subscriptions: what is written makes sense and stays, and what was missing is filled in.
SubsCompleted == []ConfigClosed /\ NewerUnlessOvertaken /\ <>[](part = "ppsub" => Complete)

=============================================================================
