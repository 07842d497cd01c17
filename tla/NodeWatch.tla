------------------------------ MODULE NodeWatch ------------------------------
(***************************************************************************)
(* The commands that watch clash and choose its nodes (sb-ppgw): the       *)
(* health check with the failover of groups (health.rs, cmd_healthcheck),  *)
(* and what load_clash of ppg.sh runs to start or reload clash: -clash-up, *)
(* -reload, -clash-ready, -fastnode, -spec_node and -testProxy.  Each is a *)
(* process of its own that asks clash over a socket, one request after the *)
(* other.  Clash may be gone, or be another clash, at the next request.    *)
(***************************************************************************)
EXTENDS Naturals, Sequences

CONSTANTS Outlets,      \* the nodes the commands may choose from
          Direct, Global, \* clash's own node, and the group of all nodes
          Watched,      \* the groups with failover, as the configuration lists them
          Tries,        \* retries of a group and of the monitor
          Rounds,       \* of -fastnode
          FallDirect,   \* fall_direct of ppgw.ini
          AbsentLooks, MaxLooks, \* when -clash-ready gives up, in rounds of its loop
          MaxShifts     \* bound: what happens to clash, its nodes and the machine

ASSUME NodeWatchAssumption ==
  /\ Outlets # {} /\ Direct \notin Outlets
  /\ Watched \in Seq(STRING) /\ \A i \in DOMAIN Watched : Watched[i] # Global
  /\ FallDirect \in BOOLEAN /\ Tries \in Nat /\ Rounds \in Nat \ {0}
  /\ AbsentLooks \in Nat \ {0} /\ MaxLooks \in Nat \ {0} /\ MaxShifts \in Nat

VARIABLES
  daemon,   \* clash: st, whether the file of its socket is there, and which of its
            \* process and the marker of its last load are younger than the grace
  answering,\* the nodes that answer a test in time
  busy,     \* ps takes longer than cpudelay
  chosen,   \* the node of each group
  check,    \* the health check
  load,     \* load_clash
  shifts

nwVars == <<daemon, answering, busy, chosen, check, load, shifts>>

GroupsOf == {Watched[i] : i \in DOMAIN Watched}
Up == daemon.st = "up"
Running == daemon.st # "gone"

\* i: the group it is at; seen, left, best: its node, tries left, what is better.  As
\* history: steady, the nodes that answered ever since it looked the group up; picked, what
\* the user chose for the group since; and fresh, whether clash has been running and young
\* ever since the check began.
NoCheck == [pc |-> "idle", i |-> 1, seen |-> Direct, left |-> 0, best |-> Direct, rc |-> "none",
            steady |-> {}, picked |-> {}, fresh |-> FALSE]
\* todo, got: nodes to test in this round and those that answered; steady, as history:
\* those that answered, with the machine idle, ever since the round began.
NoLoad == [pc |-> "idle", round |-> 1, todo |-> {}, got |-> {}, looks |-> 0, absent |-> 0,
           steady |-> {}]

NwInit == /\ daemon = [st |-> "gone", sock |-> FALSE, young |-> {}]
          /\ answering \in SUBSET Outlets /\ busy = FALSE
          /\ chosen \in [GroupsOf \cup {Global} -> Outlets]
          /\ check = NoCheck /\ load = NoLoad /\ shifts = 0

-----------------------------------------------------------------------------
(* ClashClient: what a request finds.  A socket that is refused, a request that times   *)
(* out and an answer that is no success are one.                                        *)

NowOf(g) == chosen[g]
NodeAnswers(n) == Up /\ n \in answering
GroupAnswers == {n \in Outlets : NodeAnswers(n)}

\* Not asked when the machine is busy
Pings(n) == ~busy /\ NodeAnswers(n)

-----------------------------------------------------------------------------
(* cmd_healthcheck and run_group_failover *)

OthersOfCheck == <<daemon, answering, busy, load, shifts>>
Checks(c) == check' = c /\ UNCHANGED <<OthersOfCheck, chosen>>
Ruled(rc) == Checks([NoCheck EXCEPT !.rc = rc, !.fresh = check.fresh])

\* A configuration that cannot be read ends it; the exit code is that of "sick".
CheckStarts ==
  /\ check.pc = "idle"
  /\ \/ Ruled("broken")
     \/ Checks([NoCheck EXCEPT !.pc = "reach", !.fresh = Running /\ "process" \in daemon.young])

\* is_up of a socket file: it is there, whether or not anyone listens.
Reaches == /\ check.pc = "reach"
           /\ Checks([check EXCEPT !.pc = IF daemon.sock THEN "lookup" ELSE "process"])

LooksForProcess == check.pc = "process" /\ Ruled(IF Running THEN "wait" ELSE "sick")

NextGroup == [NoCheck EXCEPT !.pc = "lookup", !.i = check.i + 1, !.fresh = check.fresh]

LooksUp ==
  /\ check.pc = "lookup"
  /\ Checks(IF check.i > Len(Watched) THEN [check EXCEPT !.pc = "monitor", !.left = Tries]
            ELSE IF ~Up THEN NextGroup
            ELSE [check EXCEPT !.pc = "test", !.seen = NowOf(Watched[check.i]),
                               !.left = Tries, !.steady = answering])

TestsNode ==
  /\ check.pc = "test"
  /\ Checks(IF NodeAnswers(check.seen) THEN NextGroup
            ELSE IF check.left > 0 THEN [check EXCEPT !.left = @ - 1]
            ELSE [check EXCEPT !.pc = "group"])

\* The fastest of the nodes that answer, which may be the node it was tested again.
TestsGroup ==
  /\ check.pc = "group"
  /\ \/ GroupAnswers = {} /\ Checks(NextGroup)
     \/ \E b \in GroupAnswers :
          Checks(IF b = check.seen THEN NextGroup ELSE [check EXCEPT !.pc = "switch", !.best = b])

Switches ==
  /\ check.pc = "switch"
  /\ check' = NextGroup
  /\ chosen' = IF Up THEN [chosen EXCEPT ![Watched[check.i]] = check.best] ELSE chosen
  /\ UNCHANGED OthersOfCheck

\* A page through the inbound for checks: what the proxies make of it is a choice.
MayPass == Up

Monitors ==
  /\ check.pc = "monitor"
  /\ \/ MayPass /\ Ruled("ok")
     \/ Checks(IF check.left > 0 THEN [check EXCEPT !.left = @ - 1] ELSE [check EXCEPT !.pc = "grace"])

\* readiness_age_secs: the younger of the marker and of the process
Young == "marker" \in daemon.young \/ (Running /\ "process" \in daemon.young)

\* Mutant: the age of the marker alone decides.
GracesByMarker == check.pc = "grace" /\ Ruled(IF "marker" \in daemon.young THEN "wait" ELSE "sick")
Graces == check.pc = "grace" /\ Ruled(IF Young THEN "wait" ELSE "sick")

CheckStep == Reaches \/ LooksForProcess \/ LooksUp \/ TestsNode \/ TestsGroup \/ Switches
             \/ Monitors \/ Graces

-----------------------------------------------------------------------------
(* load_clash and its commands *)

OthersOfLoad == <<answering, busy, check, shifts>>
Loads(l) == load' = l /\ UNCHANGED <<OthersOfLoad, daemon, chosen>>
LoadAt(pc) == [load EXCEPT !.pc = pc]

\* Clash that runs is reloaded, one that does not is started.
LoadStarts == /\ load.pc = "idle"
              /\ Loads([NoLoad EXCEPT !.pc = IF Running THEN "reload" ELSE "up"])

\* cmd_clash_up: sniffbox starts clash, or cannot be reached or refuses.
ClashUp ==
  /\ load.pc = "up"
  /\ \/ Loads(LoadAt("ready"))
     \/ /\ load' = LoadAt("mark")
        /\ daemon' = IF Running THEN daemon
                     ELSE [daemon EXCEPT !.st = "boot", !.young = @ \cup {"process"}]
        /\ UNCHANGED <<OthersOfLoad, chosen>>

\* cmd_reload: the marker is touched once clash has said yes.
Reloads == load.pc = "reload" /\ \/ Up /\ Loads(LoadAt("mark"))
                                 \/ Loads(LoadAt("ready"))

TouchesMarker == /\ load.pc = "mark"
         /\ load' = LoadAt("ready")
         /\ daemon' = [daemon EXCEPT !.young = @ \cup {"marker"}]
         /\ UNCHANGED <<OthersOfLoad, chosen>>

\* cmd_clash_ready returns, whatever it found; the script asks pidof only.
AfterReady == /\ load.pc = "after"
              /\ \/ Loads(NoLoad)
                 \/ Running /\ Loads([NoLoad EXCEPT !.pc = "list"])

AsksMode == /\ load.pc = "ready"
            /\ Loads(LoadAt(IF Up THEN "after" ELSE "look"))

\* It waits for an API that does not answer, and less for a process that is not there.
LooksForClash ==
  /\ load.pc = "look"
  /\ LET absent == IF Running THEN 0 ELSE load.absent + 1
     IN  Loads(IF absent >= AbsentLooks \/ load.looks + 1 >= MaxLooks THEN LoadAt("after")
               ELSE [load EXCEPT !.pc = "ready", !.absent = absent, !.looks = @ + 1])

RoundLost == IF load.round < Rounds
             THEN [load EXCEPT !.pc = "list", !.round = @ + 1, !.got = {}, !.todo = {}]
             ELSE IF FallDirect THEN [load EXCEPT !.pc = "mode", !.got = {Direct}, !.todo = {}]
             ELSE LoadAt("kill")

\* run_fast_node_once
ListsNodes ==
  /\ load.pc = "list"
  /\ Loads(IF Up THEN [load EXCEPT !.pc = "ping", !.todo = Outlets,
                                   !.steady = IF busy THEN {} ELSE answering]
           ELSE [RoundLost EXCEPT !.steady = {}])

PingsNode(n) ==
  /\ load.pc = "ping" /\ n \in load.todo
  /\ Loads([load EXCEPT !.todo = @ \ {n},
                        !.got = IF Pings(n) THEN @ \cup {n} ELSE @])

PingsDone ==
  /\ load.pc = "ping" /\ load.todo = {}
  /\ Loads(IF load.got = {} THEN RoundLost ELSE LoadAt("mode"))

\* select_node, in two requests; -fastnode begins another round when one fails, and what
\* -spec_node says of DIRECT, when all rounds are lost, is not looked at.
FellDirect == load.got = {Direct}

SetsMode ==
  /\ load.pc = "mode"
  /\ Loads(IF Up THEN LoadAt("select") ELSE IF FellDirect THEN LoadAt("proxy") ELSE RoundLost)

\* The fastest; delays are not kept.
Selects ==
  /\ load.pc = "select"
  /\ UNCHANGED <<OthersOfLoad, daemon>>
  /\ IF ~Up THEN load' = (IF FellDirect THEN LoadAt("proxy") ELSE RoundLost) /\ UNCHANGED chosen
     ELSE /\ \E n \in load.got : chosen' = [chosen EXCEPT ![Global] = n]
          /\ load' = IF FellDirect THEN LoadAt("proxy") ELSE NoLoad

\* cmd_testproxy: any answer is a success.
TestsProxy == /\ load.pc = "proxy"
              /\ \/ MayPass /\ Loads(NoLoad)
                 \/ Loads(LoadAt("kill"))

Kills == /\ load.pc = "kill"
         /\ load' = NoLoad
         /\ daemon' = [daemon EXCEPT !.st = "gone", !.young = @ \ {"process"}]
         /\ check' = [check EXCEPT !.steady = {}, !.fresh = FALSE]
         /\ UNCHANGED <<answering, busy, chosen, shifts>>

LoadStep == \/ ClashUp \/ Reloads \/ TouchesMarker \/ AfterReady \/ AsksMode \/ LooksForClash \/ ListsNodes
            \/ (\E n \in Outlets : PingsNode(n)) \/ PingsDone \/ SetsMode \/ Selects
            \/ TestsProxy \/ Kills

-----------------------------------------------------------------------------
(* Clash, its nodes, the machine and the user *)

Shift == shifts < MaxShifts /\ shifts' = shifts + 1

\* A socket file outlives the clash that made it.
Listens == /\ daemon.st = "boot"
           /\ daemon' = [daemon EXCEPT !.st = "up", !.sock = TRUE]
           /\ UNCHANGED <<answering, busy, chosen, check, load, shifts>>

ClashDies == /\ Running /\ Shift
             /\ daemon' = [daemon EXCEPT !.st = "gone", !.young = @ \ {"process"}]
             /\ check' = [check EXCEPT !.steady = {}, !.fresh = FALSE]
             /\ load' = [load EXCEPT !.steady = {}]
             /\ UNCHANGED <<answering, busy, chosen>>

Ages(what) == /\ what \in daemon.young
              /\ daemon' = [daemon EXCEPT !.young = @ \ {what}]
              /\ check' = [check EXCEPT !.fresh = @ /\ what # "process"]
              /\ UNCHANGED <<answering, busy, chosen, load, shifts>>

NodeShifts(n) ==
  /\ Shift
  /\ answering' = (answering \ {n}) \cup ({n} \ answering)
  /\ check' = [check EXCEPT !.steady = @ \cap answering']
  /\ load' = [load EXCEPT !.steady = @ \cap answering']
  /\ UNCHANGED <<daemon, busy, chosen>>

GetsBusy == /\ ~busy /\ Shift /\ busy' = TRUE
            /\ load' = [load EXCEPT !.steady = {}]
            /\ UNCHANGED <<daemon, answering, chosen, check>>

GetsIdle == /\ busy /\ busy' = FALSE
            /\ UNCHANGED <<daemon, answering, chosen, check, load, shifts>>

\* Through the web interface
Acting == check.pc \in {"test", "group", "switch"}
UserSelects(g, n) ==
  /\ Up /\ Shift
  /\ chosen' = [chosen EXCEPT ![g] = n]
  /\ check' = IF Acting /\ g = Watched[check.i] THEN [check EXCEPT !.picked = @ \cup {n}] ELSE check
  /\ UNCHANGED <<daemon, answering, busy, load>>

Shifts == \/ ClashDies \/ GetsBusy
          \/ \E n \in Outlets : NodeShifts(n) \/ \E g \in GroupsOf : UserSelects(g, n)

NwNext == \/ CheckStarts \/ CheckStep \/ LoadStarts \/ LoadStep
          \/ Listens \/ GetsIdle \/ Shifts \/ \E w \in {"process", "marker"} : Ages(w)

\* Commands run to their end, and the loop of the script checks again and again.
NwFair == /\ WF_nwVars(CheckStarts /\ check'.pc # "idle") /\ WF_nwVars(CheckStep)
          /\ WF_nwVars(LoadStep)

NwSpec == NwInit /\ [][NwNext]_nwVars /\ NwFair

-----------------------------------------------------------------------------
(* Properties *)

\* The group that a failover is about to switch, without looking at it again, is on a node
\* that did not answer all the time since the look-up, however tests and a load of clash
\* interleave; unless the user chose that node while the tests were on, which they overrule.
OnlyDeadLeft ==
  check.pc = "switch" => LET now == chosen[Watched[check.i]]
                         IN  now \in check.steady => now \in check.picked

\* Clash that is running and younger than the grace for all of a health check is not
\* torn down for it: neither a socket file left by an older clash, nor an API that is not
\* there yet, nor pages that fail lead to the exit code for it.
FreshSpared == check.rc = "sick" => ~check.fresh

\* load_clash kills clash only when none of its nodes answered, with the API there and the
\* machine idle, from the beginning of the last round of tests on.
KilledForCause == load.pc = "kill" => load.steady = {}

\* What the commands that watch clash promise: a failover leaves only dead nodes, or those it
\* has not seen chosen, and clash ends by their verdict only for a cause that lasted.
WatchSafe == OnlyDeadLeft /\ FreshSpared /\ KilledForCause

\* Once clash stays up and nodes and users keep quiet, every group with failover ends on a
\* node that answers, if there is one.
Followed == answering = {} \/ \A g \in GroupsOf : chosen[g] \in answering
GroupsFollow == []<>~Up \/ <>[]Followed

\* A load of clash ends, whatever clash does.
LoadsEnd == []<>(load.pc = "idle")
=============================================================================
