----------------------------- MODULE SmartRunners -----------------------------
(***************************************************************************)
(* Who tests the smart groups: supervise (sniffbox/smart_speed.rs) reads   *)
(* ppsub.json every 30 s, forgets what it knows of groups that are not in  *)
(* it, cancels the runners whose groups changed and starts new ones, one   *)
(* for each test url.  A cancelled runner ends its pass first, beside the  *)
(* new one.  The boot script replaces ppsub.json: it removes the file,     *)
(* resolves, downloads, and gives up when either fails.                    *)
(***************************************************************************)
EXTENDS Naturals, FiniteSets, SequencesExt

CONSTANTS Plans,       \* what the file may say: sequences of [name, url]
          DefaultUrl,  \* read_test_url
          TaskIds,     \* runner tasks at a time
          Missing,     \* no file
          MaxFetches, MaxKnown, MaxLocked

VARIABLES file,        \* ppsub.json
          fetch,       \* get_conf for it: whether it removed the file, how often it ran
          plan,        \* the plan written last
          sup,         \* supervise: its step and the file it read
          runners,     \* its runners: url -> task
          tasks,       \* the runner tasks: see NoTask
          states,      \* SharedStates: passes known of each group (0: no entry)
          scores,      \* SmartStats: the groups shown
          locks,       \* SmartFixed: the groups locked
          locked       \* how often the user locked

runVars == <<file, fetch, plan, sup, runners, tasks, states, scores, locks, locked>>

AllNames == UNION {{p[i].name : i \in 1..Len(p)} : p \in Plans}
NoTask == [url |-> DefaultUrl, groups |-> <<>>, cancel |-> FALSE, at |-> "free", i |-> 1, st |-> 0]
Free == {t \in TaskIds : tasks[t].at = "free"}

RunInit ==
  \E p \in Plans :
    /\ file = p /\ plan = p
    /\ fetch = [gone |-> FALSE, n |-> 0]
    /\ sup = [at |-> "tick", read |-> Missing]
    /\ runners = [u \in {} |-> 0] /\ tasks = [t \in TaskIds |-> NoTask]
    /\ states = [g \in AllNames |-> 0] /\ scores = {} /\ locks = {} /\ locked = 0

-----------------------------------------------------------------------------
(* supervise *)

NamesOf(groups) == {groups[i].name : i \in 1..Len(groups)}

\* bucket_by_url: a name counts once, an empty url is the default.
Once(groups) == FoldLeft(LAMBDA seen, g : IF g.name \in NamesOf(seen) THEN seen ELSE Append(seen, g), <<>>, groups)
Url(g) == IF g.url = "" THEN DefaultUrl ELSE g.url
Buckets(groups) ==
  LET once == Once(groups) IN
  [u \in {Url(once[i]) : i \in 1..Len(once)} |->
     LET own == SelectSeq(once, LAMBDA g : Url(g) = u) IN [i \in 1..Len(own) |-> own[i].name]]

\* parse_smart_groups; a file that cannot be read has no groups.
Groups(f) == IF f = Missing THEN <<>> ELSE f
Files == Plans \cup {Missing}
BucketsOf == [f \in Files |-> Buckets(Groups(f))]
NamesIn == [f \in Files |-> NamesOf(Groups(f))]

SupReads == /\ sup.at = "tick"
            /\ sup' = [at |-> "retain", read |-> file]
            /\ UNCHANGED <<file, fetch, plan, runners, tasks, states, scores, locks, locked>>

\* retain of the states, the scores and the locks
SupRetains == /\ sup.at = "retain" /\ sup' = [sup EXCEPT !.at = "stop"]
              /\ LET live == NamesIn[sup.read] IN
                 /\ states' = [g \in AllNames |-> IF g \in live THEN states[g] ELSE 0]
                 /\ scores' = scores \cap live /\ locks' = locks \cap live
              /\ UNCHANGED <<file, fetch, plan, runners, tasks, locked>>

Kept == {u \in DOMAIN runners : u \in DOMAIN BucketsOf[sup.read] /\ BucketsOf[sup.read][u] = tasks[runners[u]].groups}

SupStopsByUrl ==
  /\ sup.at = "stop" /\ sup' = [sup EXCEPT !.at = "start"]
  /\ LET keep == DOMAIN runners \cap DOMAIN BucketsOf[sup.read] IN
     /\ tasks' = [t \in TaskIds |-> IF t \in {runners[u] : u \in DOMAIN runners \ keep}
                                    THEN [tasks[t] EXCEPT !.cancel = TRUE] ELSE tasks[t]]
     /\ runners' = [u \in keep |-> runners[u]]
  /\ UNCHANGED <<file, fetch, plan, states, scores, locks, locked>>
SupStops ==
  /\ sup.at = "stop" /\ sup' = [sup EXCEPT !.at = "start"]
  /\ tasks' = [t \in TaskIds |-> IF t \in {runners[u] : u \in DOMAIN runners \ Kept}
                                 THEN [tasks[t] EXCEPT !.cancel = TRUE] ELSE tasks[t]]
  /\ runners' = [u \in Kept |-> runners[u]]
  /\ UNCHANGED <<file, fetch, plan, states, scores, locks, locked>>

\* One task for each bucket that has none, then 30 s of sleep.
SupStarts ==
  /\ sup.at = "start"
  /\ LET due == DOMAIN BucketsOf[sup.read] \ DOMAIN runners IN
     IF due = {} THEN sup' = [sup EXCEPT !.at = "tick"] /\ UNCHANGED <<runners, tasks>>
     ELSE \E u \in due :
            /\ Free # {}
            /\ LET t == CHOOSE t \in Free : TRUE IN
               /\ tasks' = [tasks EXCEPT ![t] = [NoTask EXCEPT !.url = u, !.at = "top", !.groups = BucketsOf[sup.read][u]]]
               /\ runners' = [v \in (DOMAIN runners) \cup {u} |-> IF v = u THEN t ELSE runners[v]]
            /\ UNCHANGED sup
  /\ UNCHANGED <<file, fetch, plan, states, scores, locks, locked>>

-----------------------------------------------------------------------------
(* runner *)

T(t) == tasks[t]
Group(t) == T(t).groups[T(t).i]
Keeps(t, task) == tasks' = [tasks EXCEPT ![t] = task]

\* The state of the group is taken out of the map for the length of its pass.
Takes(t) ==
  /\ T(t).at = "top"
  /\ IF T(t).cancel THEN Keeps(t, NoTask) /\ UNCHANGED states
     ELSE /\ Keeps(t, [T(t) EXCEPT !.at = "pass", !.st = states[Group(t)]])
          /\ states' = [states EXCEPT ![Group(t)] = 0]
  /\ UNCHANGED <<file, fetch, plan, sup, runners, scores, locks, locked>>

\* run_group_pass, as far as others see it: the scores are shown.  (What it
\* does with the group is SmartGroup.)  It fails if clash does.
Passes(t) ==
  /\ T(t).at = "pass"
  /\ \/ /\ scores' = scores \cup {Group(t)}
        /\ Keeps(t, [T(t) EXCEPT !.at = "put", !.st = IF @ < MaxKnown THEN @ + 1 ELSE @])
     \/ UNCHANGED scores /\ Keeps(t, [T(t) EXCEPT !.at = "put"])
  /\ UNCHANGED <<file, fetch, plan, sup, runners, states, locks, locked>>

\* Put back; then the next group, or the sleep until the next round (or until
\* an anchor fails), which a cancellation ends.
Puts(t) ==
  /\ T(t).at = "put"
  /\ states' = [states EXCEPT ![Group(t)] = T(t).st]
  /\ \/ T(t).i < Len(T(t).groups) /\ Keeps(t, [T(t) EXCEPT !.at = "top", !.i = @ + 1, !.st = 0])
     \/ Keeps(t, [T(t) EXCEPT !.at = "rest", !.i = 1, !.st = 0])
  /\ UNCHANGED <<file, fetch, plan, sup, runners, scores, locks, locked>>

Rests(t) ==
  /\ T(t).at = "rest"
  /\ IF T(t).cancel THEN Keeps(t, NoTask) ELSE Keeps(t, [T(t) EXCEPT !.at = "top"])
  /\ UNCHANGED <<file, fetch, plan, sup, runners, states, scores, locks, locked>>

-----------------------------------------------------------------------------
(* The boot script and the user *)

FetchRemoves == /\ ~fetch.gone /\ fetch.n < MaxFetches
                /\ fetch' = [gone |-> TRUE, n |-> fetch.n + 1] /\ file' = Missing
                /\ UNCHANGED <<plan, sup, runners, tasks, states, scores, locks, locked>>
FetchWrites == /\ fetch.gone /\ fetch' = [fetch EXCEPT !.gone = FALSE]
               /\ \E p \in Plans : file' = p /\ plan' = p
               /\ UNCHANGED <<sup, runners, tasks, states, scores, locks, locked>>
FetchFails == /\ fetch.gone /\ fetch' = [fetch EXCEPT !.gone = FALSE]
              /\ UNCHANGED <<file, plan, sup, runners, tasks, states, scores, locks, locked>>

\* smart_fix of a group that is shown
UserLocksGroup(g) == /\ g \in scores /\ g \notin locks /\ locked < MaxLocked /\ locked' = locked + 1
                     /\ locks' = locks \cup {g}
                     /\ UNCHANGED <<file, fetch, plan, sup, runners, tasks, states, scores>>

SupStep == SupReads \/ SupRetains \/ SupStops \/ SupStarts
TaskStep(t) == Takes(t) \/ Passes(t) \/ Puts(t) \/ Rests(t)

RunNext == \/ SupStep \/ FetchRemoves \/ FetchWrites \/ FetchFails
           \/ \E t \in TaskIds : TaskStep(t)
           \/ \E g \in AllNames : UserLocksGroup(g)

\* The supervisor's sleep and every pass end: the requests have timeouts.
RunFair == WF_runVars(SupStep) /\ \A t \in TaskIds : WF_runVars(TaskStep(t))

RunSpec == RunInit /\ [][RunNext]_runVars /\ RunFair

-----------------------------------------------------------------------------
(* Properties *)

Live == {t \in TaskIds : tasks[t].at # "free"}

\* Whenever the file is removed, comes back or changes, in the middle of any
\* pass, the runners end up the right ones: each group of the file is tested by
\* one task with its url, no cancelled task goes on, and a pass that outlived
\* its group has not put back its state or its scores for good.
RunnersRight ==
  /\ {<<tasks[t].url, tasks[t].groups>> : t \in Live} = {<<u, BucketsOf[file][u]>> : u \in DOMAIN BucketsOf[file]}
  /\ Cardinality(Live) = Cardinality(DOMAIN BucketsOf[file])
  /\ \A t \in Live : ~tasks[t].cancel
  /\ scores \cup {g \in AllNames : states[g] > 0} \subseteq NamesIn[file]
RunnersSettle == <>[]RunnersRight

\* The supervisor takes the lock off a group only when the configuration no
\* longer has that group.
LocksKept == [][\A g \in locks \ locks' : g \notin NamesIn[plan]]_runVars

=============================================================================
