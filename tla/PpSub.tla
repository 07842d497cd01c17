-------------------------------- MODULE PpSub --------------------------------
(***************************************************************************)
(* The subscription engine: `ppgw -ppsub` merges the subscriptions it can  *)
(* download into one clash configuration, and `ppgw -ppsub-retry`, started *)
(* in the background when clash was not up yet, fills what was missing     *)
(* once clash serves.  Both are processes of their own that share files:   *)
(* the configuration, the retry state, the cached payloads and a lock.     *)
(*                                                                         *)
(* What a request gets is said by `reach`: a host answers directly, only   *)
(* through clash, or never, and may change.  Texts, node names and         *)
(* addresses are left out: a node is a subscription and the lookup its     *)
(* address came from.                                                      *)
(***************************************************************************)
EXTENDS Naturals, FiniteSets

CONSTANTS Subs,        \* the subscriptions of ppsub.json
          Forced,      \* those with isforced
          NodeGroups,  \* group |-> [subs, include, builtin, chained]
          RuleTarget,  \* rule |-> the group, or other target, it sends its connections to
          UrlRules,    \* rules that come from a downloaded list
          ForcedRules, \* those of a list without which there is no configuration
          CachePath,   \* subscription |-> its file in the cache directory
          DnsBurn,     \* dns_burn
          MaxRuns,     \* runs of -ppsub
          MaxSick,     \* times clash stops, fails its health check, or a host changes
          MaxDeaths,   \* gap-fills that are killed
          Absent

Lookups == {"burn", "own"}
Hosts == Subs \cup {"rules", "forced rules"} \cup Lookups
Fillers == 1..MaxRuns
GroupsOf == DOMAIN NodeGroups
DirectTarget == "DIRECT"

\* Targets that validate_rule accepts although no group has the name.
BuiltinTargets == {DirectTarget, "REJECT", "PROXY", "proxies"}

\* A node is of a subscription, from a payload, at an address.  A configuration has the
\* run that it continues, and the run that made its rules.
SubNodes == [sub : Subs, of : Subs, at : Lookups \cup {"server"}]
SubConfs == [run : Nat, by : Nat, nodes : SUBSET SubNodes, groups : SUBSET GroupsOf,
             rules : SUBSET DOMAIN RuleTarget, format : {"guess", "known"}]

ASSUME PpSubConstants ==
  /\ \A g \in GroupsOf : NodeGroups[g].builtin \in BOOLEAN /\ NodeGroups[g].chained \in BOOLEAN
  /\ Absent \notin SubConfs /\ ForcedRules \subseteq UrlRules

VARIABLES reach,   \* what answers: "direct", "proxy" (through clash) or "never"
          out,     \* /tmp/paopao_custom.yaml
          st,      \* ppsub_retry.json
          cache,   \* the cached payloads: the subscription each file holds
          fillLock,    \* ppsub_retry.lock: who created it, and whether its pid is in it
          merged,    \* /tmp/clash.yaml
          core,   \* the process: up, passing the health check, configuration
          run,     \* the -ppsub process with the script around it
          fill,    \* the -ppsub-retry processes
          runs, sick, deaths,
          had,        \* history: run |-> the subscriptions it got, and made its rules for
          overtaken   \* history: a run started while a gap-fill was past its wait

psHistory == <<had, overtaken>>
psVars == <<reach, out, st, cache, fillLock, merged, core, run, fill, runs, sick, deaths, psHistory>>

-----------------------------------------------------------------------------
(* What a run builds *)

ReachesDirectly(h) == reach[h] = "direct"

\* A download tries the addresses it can resolve, then the proxy of clash; the
\* best-effort downloads of rules and rule-sets do without the proxy.
Reaches(h) == ReachesDirectly(h) \/ (reach[h] = "proxy" /\ core.up /\ core.healthy)

\* A download ends with the payload or after three attempts without it.
Downloaded(wanted) == {s \in wanted : Reaches(s)}

\* The lookups of a subscription's domains that are answered.
Resolved(wanted) == IF DnsBurn THEN {k \in wanted : Reaches(k)} ELSE {}

\* The nodes of the downloaded payloads, and a copy for every address found.
BuildProxies(held, got) ==
  UNION {{[sub |-> s, of |-> held[s], at |-> k] : k \in got[s] \cup {"server"}} : s \in DOMAIN held}

FilteredNodes(g, nodes) ==
  {n \in nodes : NodeGroups[g].subs = {} \/ n.sub \in NodeGroups[g].subs}

\* A group whose subscriptions all failed is dropped, unless it has DIRECT.
SubDependencies(g, ok) ==
  NodeGroups[g].subs = {} \/ NodeGroups[g].subs \cap ok # {} \/ NodeGroups[g].builtin

ValidStep(V, g, nodes) ==
  \/ FilteredNodes(g, nodes) # {}
  \/ /\ ~NodeGroups[g].chained
     /\ NodeGroups[g].builtin \/ NodeGroups[g].include \cap V # {}

\* The groups that can be emitted: the least fixed point of the loop.
ProxyGroups(nodes, ok) ==
  LET potential == {g \in GroupsOf : SubDependencies(g, ok)}
      Closed(V) == \A g \in potential : ValidStep(V, g, nodes) => g \in V
  IN  {g \in potential : \A V \in SUBSET potential : Closed(V) => g \in V}

\* What a group offers: its nodes, the valid groups it includes, DIRECT.
Members(g, groups, nodes) ==
  FilteredNodes(g, nodes) \cup (IF NodeGroups[g].chained THEN {} ELSE
    (NodeGroups[g].include \cap groups) \cup (IF NodeGroups[g].builtin THEN {DirectTarget} ELSE {}))

\* A list that can not be downloaded is left out; without a forced one there are no
\* rules at all.  Rules that name a group that was not emitted are dropped.
ForcedRuleFailed == ForcedRules # {} /\ ~ReachesDirectly("forced rules")
ProcessRules(groups) ==
  {r \in DOMAIN RuleTarget : /\ r \in UrlRules \ ForcedRules => ReachesDirectly("rules")
                             /\ RuleTarget[r] \in groups \cup BuiltinTargets}

\* rulesOf: the rules to emit, made by the run by, for the groups that are emitted.
EmitConfig(n, by, held, got, rulesOf, format) ==
  LET nodes == BuildProxies(held, got)
      groups == ProxyGroups(nodes, DOMAIN held)
  IN  [run |-> n, by |-> by, nodes |-> nodes, groups |-> groups, rules |-> rulesOf[groups], format |-> format]

\* Reads the whole file, fetches what it has to, writes the whole file.
BackfillFormats(content) == [content EXCEPT !.format = "known"]

-----------------------------------------------------------------------------
(* The -ppsub process, run by get_conf *)

IdleRun == [at |-> "idle", n |-> 0, ok |-> {}, got |-> [s \in {} |-> {}], socks |-> FALSE, read |-> Absent]
NotStarted == [at |-> "none", s |-> Absent, read |-> Absent, prev |-> Absent, ok |-> Absent, fixed |-> FALSE, rebuild |-> FALSE]

\* The lookups of dns_burn and the best-effort downloads do not use clash.
WaysTo(h) == {"direct", "never"} \cup (IF h \in {"burn", "forced rules"} THEN {} ELSE {"proxy"})

PsInit == /\ reach \in [Hosts -> UNION {WaysTo(h) : h \in Hosts}] /\ \A h \in Hosts : reach[h] \in WaysTo(h)
          /\ out = Absent /\ st = Absent /\ fillLock = Absent /\ merged = Absent
          /\ cache = [s \in {} |-> Absent]
          /\ core = [up |-> FALSE, healthy |-> FALSE, cfg |-> Absent]
          /\ run = IdleRun
          /\ fill = [f \in Fillers |-> NotStarted]
          /\ runs = 0 /\ sick = 0 /\ deaths = 0
          /\ had = [n \in {} |-> {}] /\ overtaken = FALSE

LockPlaces == {"lock", "pid", "holder", "unlink", "retry"}
Working(f) == fill[f].at \notin {"none", "load", "wait", "ended"} \cup LockPlaces

\* get_conf removes the old result before it starts the engine.
GetSub == /\ run.at = "idle" /\ runs < MaxRuns
          /\ runs' = runs + 1
          /\ overtaken' = (overtaken \/ \E f \in Fillers : Working(f))
          /\ out' = Absent
          /\ run' = [IdleRun EXCEPT !.at = "down", !.n = runs + 1]
          /\ UNCHANGED <<reach, st, cache, fillLock, merged, core, fill, sick, deaths, had>>

DownloadSubs ==
  /\ run.at = "down"
  /\ LET ok == Downloaded(Subs)
     IN  IF ok = {} \/ ~(Forced \subseteq ok) THEN run' = IdleRun /\ UNCHANGED had
         ELSE /\ run' = [run EXCEPT !.at = "emit", !.ok = ok, !.socks = core.up,
                                    !.got = [s \in ok |-> Resolved(Lookups)]]
              /\ had' = [n \in DOMAIN had \cup {run.n} |-> IF n = run.n THEN ok ELSE had[n]]
  /\ UNCHANGED <<reach, out, st, cache, fillLock, merged, core, fill, runs, sick, deaths, overtaken>>

\* The run ends with an error, and the file stays away.
RulesFail ==
  /\ run.at = "emit" /\ ForcedRuleFailed
  /\ run' = IdleRun
  /\ UNCHANGED <<reach, out, st, cache, fillLock, merged, core, fill, runs, sick, deaths, psHistory>>

WriteOutput ==
  /\ run.at = "emit" /\ ~ForcedRuleFailed
  /\ out' = EmitConfig(run.n, run.n, [s \in run.ok |-> s], run.got,
                       [g \in SUBSET GroupsOf |-> ProcessRules(g)], "guess")
  /\ run' = [run EXCEPT !.at = "save"]
  /\ UNCHANGED <<reach, st, cache, fillLock, merged, core, fill, runs, sick, deaths, psHistory>>

\* The payloads go to the cache, what is missing to the retry state.
SaveRetryState ==
  /\ run.at = "save"
  /\ cache' = [p \in {CachePath[s] : s \in run.ok} \cup DOMAIN cache |->
                IF \E s \in run.ok : CachePath[s] = p THEN CHOOSE s \in run.ok : CachePath[s] = p ELSE cache[p]]
  /\ st' = [hash |-> out, n |-> run.n, ok |-> run.ok, got |-> run.got, socks |-> run.socks, formats |-> FALSE]
  /\ run' = [run EXCEPT !.at = "detect"]
  /\ UNCHANGED <<reach, out, fillLock, merged, core, fill, runs, sick, deaths, psHistory>>

\* predetect or, before clash is up, prefetch: read, ...
DetectFormats ==
  /\ run.at = "detect"
  /\ run' = [run EXCEPT !.at = IF core.up THEN "predetect" ELSE "prefetch", !.read = out]
  /\ UNCHANGED <<reach, out, st, cache, fillLock, merged, core, fill, runs, sick, deaths, psHistory>>

Guessed(content) == content # Absent /\ content.format = "guess"
Prefetches(content) == Guessed(content) /\ ReachesDirectly("rules")
Predetects(content) == Guessed(content) /\ Reaches("rules")

\* RetryState::pending: something is missing.
PendingSubs(s) == s.ok # Subs

Pending(s) == \/ s.ok # Subs
              \/ DnsBurn /\ \E x \in s.ok : s.got[x] # Lookups
              \/ s.formats

\* ... write what was detected, and adjust the retry state.
Backfilled ==
  /\ run.at \in {"predetect", "prefetch"}
  /\ LET found == IF run.at = "prefetch" THEN Prefetches(run.read) ELSE Predetects(run.read)
         now == IF found THEN BackfillFormats(run.read) ELSE out
         s == CASE run.at = "prefetch" -> [st EXCEPT !.hash = now, !.formats = ~found]
                [] run.at # "prefetch" /\ found -> [st EXCEPT !.hash = now]
                [] OTHER -> st
     IN  /\ out' = now
         /\ st' = s
         /\ fill' = IF run.at = "prefetch" /\ Pending(s) /\ ~s.socks      \* spawn_gap_fill
                    THEN [fill EXCEPT ![run.n].at = "load"] ELSE fill
  /\ run' = [run EXCEPT !.at = "copy", !.read = Absent]
  /\ UNCHANGED <<reach, cache, fillLock, merged, core, runs, sick, deaths, psHistory>>

\* The script takes over what it finds and starts clash or reloads it.
CopyAndLoad ==
  /\ run.at = "copy"
  /\ IF out = Absent THEN UNCHANGED <<merged, core>>
     ELSE merged' = out /\ core' = [core EXCEPT !.up = TRUE, !.cfg = out]
  /\ run' = IdleRun
  /\ UNCHANGED <<reach, out, st, cache, fillLock, fill, runs, sick, deaths, psHistory>>

-----------------------------------------------------------------------------
(* clash, and what answers *)

HostChanges == /\ sick < MaxSick
               /\ \E h \in Hosts : \E v \in WaysTo(h) \ {reach[h]} : reach' = [reach EXCEPT ![h] = v]
               /\ sick' = sick + 1
               /\ UNCHANGED <<out, st, cache, fillLock, merged, core, run, fill, runs, deaths, psHistory>>

TurnsHealthy == /\ core.up /\ ~core.healthy
                /\ core' = [core EXCEPT !.healthy = TRUE]
                /\ UNCHANGED <<reach, out, st, cache, fillLock, merged, run, fill, runs, sick, deaths, psHistory>>

TurnsSick == /\ core.healthy /\ sick < MaxSick
             /\ core' = [core EXCEPT !.healthy = FALSE]
             /\ sick' = sick + 1
             /\ UNCHANGED <<reach, out, st, cache, fillLock, merged, run, fill, runs, deaths, psHistory>>

\* clash is down until the script starts it again.
CoreStops == /\ core.up /\ sick < MaxSick
             /\ core' = [core EXCEPT !.up = FALSE, !.healthy = FALSE]
             /\ sick' = sick + 1
             /\ UNCHANGED <<reach, out, st, cache, fillLock, merged, run, fill, runs, deaths, psHistory>>

-----------------------------------------------------------------------------
(* The gap-fill *)

Moves(f, to) == fill' = [fill EXCEPT ![f].at = to]

Quits(f) == fill' = [fill EXCEPT ![f] = [NotStarted EXCEPT !.at = "ended"]]

\* Drop removes the lock file, whoever created it.
Ends(f) == Quits(f) /\ fillLock' = Absent

LoadState(f) ==
  /\ fill[f].at = "load"
  /\ IF st = Absent \/ ~Pending(st) \/ st.socks THEN Quits(f)
     ELSE fill' = [fill EXCEPT ![f].at = "lock", ![f].s = st]
  /\ UNCHANGED <<reach, out, st, cache, fillLock, merged, core, run, runs, sick, deaths, psHistory>>

\* create_new: the file is there, and empty, or it was there already.
Creates(f) == fillLock = Absent /\ fillLock' = [by |-> f, named |-> FALSE] /\ Moves(f, "pid")

TryLock(f) ==
  /\ fill[f].at = "lock"
  /\ Creates(f) \/ (fillLock # Absent /\ UNCHANGED fillLock /\ Moves(f, "holder"))
  /\ UNCHANGED <<reach, out, st, cache, merged, core, run, runs, sick, deaths, psHistory>>

\* The pid is written to the file that was created, which may be unlinked by now.
WritesPid(f) ==
  /\ fill[f].at = "pid"
  /\ fillLock' = IF fillLock # Absent /\ fillLock.by = f THEN [fillLock EXCEPT !.named = TRUE] ELSE fillLock
  /\ Moves(f, "wait")
  /\ UNCHANGED <<reach, out, st, cache, merged, core, run, runs, sick, deaths, psHistory>>

HolderAlive == fillLock # Absent /\ fillLock.named /\ fill[fillLock.by].at # "ended"

\* A living process whose pid is in the lock is honored; any other lock is removed,
\* and taken if nobody has created another in between.
CheckHolder(f) ==
  /\ fill[f].at = "holder"
  /\ IF HolderAlive THEN Quits(f) ELSE Moves(f, "unlink")
  /\ UNCHANGED <<reach, out, st, cache, fillLock, merged, core, run, runs, sick, deaths, psHistory>>

Unlinks(f) ==
  /\ fill[f].at = "unlink"
  /\ fillLock' = Absent /\ Moves(f, "retry")
  /\ UNCHANGED <<reach, out, st, cache, merged, core, run, runs, sick, deaths, psHistory>>

LocksAgain(f) ==
  /\ fill[f].at = "retry"
  /\ Creates(f) \/ (fillLock # Absent /\ UNCHANGED fillLock /\ Quits(f))
  /\ UNCHANGED <<reach, out, st, cache, merged, core, run, runs, sick, deaths, psHistory>>

TakenOver(f) == out # fill[f].s.hash

WaitReady(f) ==
  /\ fill[f].at = "wait" /\ core.up /\ core.healthy
  /\ IF TakenOver(f) THEN Ends(f) ELSE Moves(f, "formats") /\ UNCHANGED fillLock
  /\ UNCHANGED <<reach, out, st, cache, merged, core, run, runs, sick, deaths, psHistory>>

\* READY_TIMEOUT passes before clash is healthy.
GivesUp(f) ==
  /\ fill[f].at = "wait" /\ ~(core.up /\ core.healthy) /\ sick = MaxSick /\ MaxSick > 0
  /\ Ends(f)
  /\ UNCHANGED <<reach, out, st, cache, merged, core, run, runs, sick, deaths, psHistory>>

FillFormats(f) ==
  /\ fill[f].at = "formats"
  /\ fill' = IF fill[f].s.formats THEN [fill EXCEPT ![f].at = "backfill", ![f].read = out]
             ELSE [fill EXCEPT ![f].at = "subs"]
  /\ UNCHANGED <<reach, out, st, cache, fillLock, merged, core, run, runs, sick, deaths, psHistory>>

\* predetect writes what it read, and the hash follows what it wrote.
FillBackfilled(f) ==
  /\ fill[f].at = "backfill"
  /\ LET d == Predetects(fill[f].read)
         now == IF d THEN BackfillFormats(fill[f].read) ELSE out
     IN  /\ out' = now
         /\ fill' = [fill EXCEPT ![f] =
              [@ EXCEPT !.at = "subs", !.read = Absent, !.fixed = d,
                        !.s = [fill[f].s EXCEPT !.formats = FALSE, !.hash = IF d THEN now ELSE @]]]
  /\ UNCHANGED <<reach, st, cache, fillLock, merged, core, run, runs, sick, deaths, psHistory>>

\* Missing subscriptions are downloaded, unanswered lookups asked again.
FillSubs(f) ==
  /\ fill[f].at = "subs"
  /\ LET s == fill[f].s
         fresh == Downloaded(Subs \ s.ok)
         ok == s.ok \cup fresh
         got == [x \in ok |-> IF x \in fresh THEN Resolved(Lookups)
                              ELSE s.got[x] \cup Resolved(Lookups \ s.got[x])]
     IN  IF \E x \in s.ok : CachePath[x] \notin DOMAIN cache     \* the payload is gone
         THEN Ends(f) /\ UNCHANGED cache
         ELSE /\ cache' = [p \in {CachePath[x] : x \in fresh} \cup DOMAIN cache |->
                            IF \E x \in fresh : CachePath[x] = p THEN CHOOSE x \in fresh : CachePath[x] = p ELSE cache[p]]
              /\ fill' = [fill EXCEPT ![f] =
                   [@ EXCEPT !.at = "check", !.s = [s EXCEPT !.ok = ok, !.got = got],
                             !.ok = [x \in ok |-> IF x \in fresh THEN x ELSE cache[CachePath[x]]],
                             !.rebuild = fresh # {} \/ \E x \in s.ok : got[x] # s.got[x]]]
              /\ UNCHANGED fillLock
  /\ UNCHANGED <<reach, out, st, merged, core, run, runs, sick, deaths, psHistory>>

\* The file is compared once more and read: its rules are used again.
CheckAgain(f) ==
  /\ fill[f].at = "check"
  /\ CASE TakenOver(f) -> Ends(f) /\ UNCHANGED st
       [] ~TakenOver(f) /\ ~fill[f].rebuild /\ ~fill[f].fixed -> Ends(f) /\ st' = fill[f].s
       [] ~TakenOver(f) /\ ~fill[f].rebuild /\ fill[f].fixed -> Moves(f, "combine") /\ UNCHANGED <<st, fillLock>>
       [] ~TakenOver(f) /\ fill[f].rebuild /\ out = Absent -> Ends(f) /\ UNCHANGED st
       [] ~TakenOver(f) /\ fill[f].rebuild /\ out # Absent ->
            fill' = [fill EXCEPT ![f].at = "rebuild", ![f].prev = out] /\ UNCHANGED <<st, fillLock>>
  /\ UNCHANGED <<reach, out, cache, merged, core, run, runs, sick, deaths, psHistory>>

Rebuild(f) ==
  /\ fill[f].at = "rebuild"
  /\ LET Reused == [g \in SUBSET GroupsOf |-> fill[f].prev.rules]
         now == EmitConfig(fill[f].s.n, fill[f].prev.by, fill[f].ok, fill[f].s.got, Reused, fill[f].prev.format)
     IN  /\ out' = now
         /\ fill' = [fill EXCEPT ![f] =
              [@ EXCEPT !.at = "combine", !.prev = Absent, !.s = [fill[f].s EXCEPT !.hash = now]]]
  /\ UNCHANGED <<reach, st, cache, fillLock, merged, core, run, runs, sick, deaths, psHistory>>

\* /tmp/clash.yaml is made from what the file holds now; clash reloads it.
CombineAndReload(f) ==
  /\ fill[f].at = "combine"
  /\ IF out = Absent THEN Ends(f) /\ UNCHANGED <<merged, core>>
     ELSE /\ merged' = out
          /\ core' = IF core.up THEN [core EXCEPT !.cfg = out] ELSE core
          /\ IF core.up THEN Moves(f, "saving") /\ UNCHANGED fillLock ELSE Ends(f)
  /\ UNCHANGED <<reach, out, st, cache, run, runs, sick, deaths, psHistory>>

SaveState(f) ==
  /\ fill[f].at = "saving"
  /\ st' = fill[f].s
  /\ Ends(f)
  /\ UNCHANGED <<reach, out, cache, merged, core, run, runs, sick, deaths, psHistory>>

\* The process is killed; its lock file stays.
FillerDies(f) ==
  /\ fill[f].at \notin {"none", "ended"} /\ deaths < MaxDeaths
  /\ deaths' = deaths + 1
  /\ fill' = [fill EXCEPT ![f] = [NotStarted EXCEPT !.at = "ended"]]
  /\ UNCHANGED <<reach, out, st, cache, fillLock, merged, core, run, runs, sick, psHistory>>

-----------------------------------------------------------------------------
RunStep == DownloadSubs \/ RulesFail \/ WriteOutput \/ SaveRetryState \/ DetectFormats \/ Backfilled \/ CopyAndLoad

FillStep(f) == \/ LoadState(f) \/ TryLock(f) \/ WritesPid(f) \/ CheckHolder(f) \/ Unlinks(f)
               \/ LocksAgain(f) \/ WaitReady(f)
               \/ FillFormats(f) \/ FillBackfilled(f) \/ FillSubs(f) \/ CheckAgain(f)
               \/ Rebuild(f) \/ CombineAndReload(f) \/ SaveState(f)

PsNext == \/ GetSub \/ RunStep \/ TurnsHealthy \/ TurnsSick \/ CoreStops \/ HostChanges
          \/ \E f \in Fillers : FillStep(f) \/ GivesUp(f) \/ FillerDies(f)

PsFair == /\ WF_psVars(GetSub /\ runs = 0) /\ WF_psVars(RunStep) /\ WF_psVars(TurnsHealthy)
          /\ \A f \in Fillers : WF_psVars(FillStep(f))

PsSpec == PsInit /\ [][PsNext]_psVars /\ PsFair

-----------------------------------------------------------------------------
(* Properties *)

\* What clash is given makes sense, however runs and gap-fills overlap: every
\* group offers something; a node is from the payload in the cache file of its
\* subscription; and every rule names a group that is there or a target that
\* validate_rule lets pass, also after a gap-fill that took over the rules in
\* the file (reuse_rules) for the groups of a larger set of subscriptions.  Of
\* the rules that is so if they were made by the run that the gap-fill
\* completes: one that was overtaken can take those of the run after it,
\* which may have had other subscriptions.
ConfigClosed ==
  \A c \in {merged, core.cfg} \ {Absent} :
    /\ \A g \in c.groups : Members(g, c.groups, c.nodes) # {}
    /\ \A n \in c.nodes : CachePath[n.of] = CachePath[n.sub]
    /\ c.by = c.run => \A r \in c.rules : RuleTarget[r] \in c.groups \cup BuiltinTargets

\* Neither the configuration nor the retry state of a run is replaced by
\* that of an earlier one: a gap-fill that another run has taken over stops.
Newer == /\ out # Absent /\ out' # Absent => out'.run >= out.run
         /\ st # Absent /\ st' # Absent => st'.n >= st.n
NewerKept == [][Newer]_psVars

\* That is so as long as no run starts while a gap-fill is past its wait.
NewerUnlessOvertaken == [][~overtaken' => Newer]_psVars

Reachable(h) == reach[h] # "never"

\* The configuration of a run that found no clash yet is completed in the
\* background: unless another run, a kill or a clash that fails its health
\* check comes in between, clash ends up with every subscription, address
\* and format that can be had at all.
Complete ==
  \/ out = Absent \/ runs > 1 \/ deaths > 0 \/ sick > 0
  \/ /\ core.cfg # Absent
     /\ \A s \in Subs : Reachable(s) => \E n \in core.cfg.nodes : n.sub = s
     /\ DnsBurn => \A n \in core.cfg.nodes, k \in Lookups :
                     Reachable(k) => [n EXCEPT !.at = k] \in core.cfg.nodes
     /\ Reachable("rules") => core.cfg.format = "known"
GapsFilled == <>[]Complete
=============================================================================
