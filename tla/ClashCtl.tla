------------------------------ MODULE ClashCtl ------------------------------
(***************************************************************************)
(* The supervisor of the clash process (sniffbox/clash_ctl.rs).  A request *)
(* of the boot script asks for clash to be up, an update of geo data for a *)
(* cold restart; one mutex covers either from beginning to end.  Around    *)
(* it: the process ends by itself or is killed by the script (ppg.sh), and *)
(* the SOCKS5 pool keeps idle connections to whoever listens.              *)
(***************************************************************************)
EXTENDS Naturals, FiniteSets

CONSTANTS
  NoPid,     \* nothing known of a process
  MaxPids    \* bound: processes started

ClashPids == 1 .. MaxPids

ASSUME CtlConstants == MaxPids \in Nat \ {0} /\ NoPid \notin Nat

VARIABLES
  proc,      \* per pid: "none", "run", "dying" (SIGTERM was sent) or "gone"
  pidSlot,   \* ClashSupervisor.pid
  sup,       \* who holds the mutex: the step it is at
  idle,      \* processes that an idle connection of the pool leads to
  outlived,  \* history: processes that were still there when wait_gone gave up
  astray     \* history: whether a sniffbox adopted one of them instead of the clash that runs

clashVars == <<proc, pidSlot, sup, idle, outlived, astray>>
-----------------------------------------------------------------------------
\* proc_is_clash and find_clash_pid: /proc shows a process until it is gone.
IsClash(p) == p # NoPid /\ proc[p] \in {"run", "dying"}
FoundClash == {p \in ClashPids : IsClash(p)}
FreshPids == {p \in ClashPids : proc[p] = "none" /\ \A q \in 1 .. p - 1 : proc[q] # "none"}

ClashInit ==
  /\ \E up \in BOOLEAN :
       /\ proc = [p \in ClashPids |-> IF up /\ p = 1 THEN "run" ELSE "none"]
       /\ pidSlot = IF up THEN 1 ELSE NoPid
  /\ sup = "free"
  /\ idle = {}
  /\ outlived = {}
  /\ astray = FALSE

\* spawn_clash succeeds: the pid is stored and the pool is flushed before anything else.
Spawns ==
  /\ sup = "spawn"
  /\ \E p \in FreshPids :
       /\ proc' = [proc EXCEPT ![p] = "run"]
       /\ pidSlot' = p
  /\ sup' = "flush"
  /\ UNCHANGED <<idle, outlived, astray>>

SpawnFails ==
  /\ sup = "spawn"
  /\ sup' = "free"
  /\ UNCHANGED <<proc, pidSlot, idle, outlived, astray>>

\* flush_pool_for_new_clash
Flushes ==
  /\ sup = "flush"
  /\ idle' = {}
  /\ sup' = "free"
  /\ UNCHANGED <<proc, pidSlot, outlived, astray>>

\* ensure_up: the process it knows, else any it finds, else a new one.
EnsureUp ==
  /\ sup = "free" /\ ~IsClash(pidSlot)
  /\ IF FoundClash # {} THEN pidSlot' \in FoundClash /\ sup' = sup
                   ELSE pidSlot' = pidSlot /\ sup' = "spawn"
  /\ UNCHANGED <<proc, idle, outlived, astray>>

\* restart: SIGTERM to the process it knows or finds, if it is clash.
RestartTarget == IF pidSlot # NoPid THEN {pidSlot} ELSE IF FoundClash = {} THEN {NoPid} ELSE FoundClash

RestartBegins ==
  /\ sup = "free"
  /\ \E p \in RestartTarget :
       IF IsClash(p)
       THEN /\ proc' = [proc EXCEPT ![p] = "dying"]
            /\ pidSlot' = p
            /\ sup' = "wait"
       ELSE /\ pidSlot' = NoPid
            /\ sup' = "spawn"
            /\ UNCHANGED proc
  /\ UNCHANGED <<idle, outlived, astray>>

\* wait_gone returns, after five seconds at the latest.
WaitGone ==
  /\ sup = "wait"
  /\ outlived' = outlived \cup {p \in {pidSlot} : IsClash(p)}
  /\ pidSlot' = NoPid
  /\ sup' = "spawn"
  /\ UNCHANGED <<proc, idle, astray>>

SupStep == Spawns \/ SpawnFails \/ Flushes \/ WaitGone

\* sniffbox itself ends and another one adopts the first clash that it finds.
ClashAdopted ==
  /\ pidSlot' \in IF FoundClash = {} THEN {NoPid} ELSE FoundClash
  /\ astray' = (astray \/ (pidSlot' \in outlived /\ FoundClash \ outlived # {}))
  /\ sup' = "free"
  /\ idle' = {}
  /\ UNCHANGED <<proc, outlived>>

\* Around the supervisor.
ClashExits(p) ==
  /\ IsClash(p)
  /\ proc' = [proc EXCEPT ![p] = "gone"]
  /\ UNCHANGED <<pidSlot, sup, idle, outlived, astray>>

ScriptKills(p) ==
  /\ proc[p] = "run"
  /\ proc' = [proc EXCEPT ![p] = "dying"]
  /\ UNCHANGED <<pidSlot, sup, idle, outlived, astray>>

PoolConnects(p) ==
  /\ IsClash(p) /\ p \notin idle
  /\ idle' = idle \cup {p}
  /\ UNCHANGED <<proc, pidSlot, sup, outlived, astray>>

ClashSurroundings == \E p \in ClashPids : ClashExits(p) \/ ScriptKills(p) \/ PoolConnects(p)

ClashNext == RestartBegins \/ EnsureUp \/ SupStep \/ ClashAdopted \/ ClashSurroundings
-----------------------------------------------------------------------------
\* At most one clash is meant to run and the supervisor knows it, and once a request is
\* over the pool has no connection to a clash before the last one, but to one that was
\* still there when wait_gone gave up: also when restart goes on beside such a process,
\* unless a later sniffbox adopts it instead of the clash that runs.
OneClash ==
  ~astray =>
    /\ \A p, q \in ClashPids : proc[p] = "run" /\ proc[q] = "run" => p = q
    /\ sup = "free" => \A p \in ClashPids : proc[p] = "run" => pidSlot = p
    /\ sup = "free" => \A p \in idle \ outlived, q \in ClashPids : proc[q] # "none" => q <= p
=============================================================================
