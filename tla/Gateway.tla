------------------------------- MODULE Gateway -------------------------------
(***************************************************************************)
(* The script that runs the gateway (ppg.sh): its main loop fetches        *)
(* ppgw.ini every 30 seconds, compares it with what it applied, and        *)
(* restarts sniffbox, signals it or rewrites the nft rules; a forced       *)
(* reload is a second process of the same script over the same files.      *)
(* sniffbox reads ppgw.ini when it starts and on SIGHUP, and leaves a      *)
(* snapshot of what it started with for the script to compare against.     *)
(*                                                                         *)
(* A configuration is a record: mode, cold (what only a restart applies),  *)
(* hot (what SIGHUP applies) and nft (what the rules are made from).       *)
(***************************************************************************)
EXTENDS Naturals, Sequences

CONSTANTS Published,  \* the configurations the operator publishes, in turn
          Default,    \* what an empty ppgw.ini amounts to
          NoConf, Torn, \* no file, and ppgw.ini between the two halves of a write
          Overlap,    \* may a forced reload overlap a round of the loop?
          MaxSubs, MaxForced, MaxCrashes, MaxMisses, MaxIll

VARIABLES remote,  \* how many of them are published
          sub,     \* the version of the subscription published
          ini,     \* /tmp/ppgw.ini: a configuration, Torn or None
          snap,    \* /tmp/sniffbox_running.ini
          nft,     \* what the rules in the kernel were made from
          box,     \* sniffbox: [st, cfg, hup]
          clashYaml,    \* [down, custom, conf]: the three yaml files, 0 is no file
          clash,   \* the version clash runs, 0 when it is down
          sh,      \* the two processes of the script: [pc, old, ran, cur, got]
          mem,     \* the loop's [hash, yaml, streak]
          spent    \* faults and edits so far

gwVars == <<remote, sub, ini, snap, nft, box, clashYaml, clash, sh, mem, spent>>

Scripts == {"loop", "forced"}

Other(s) == CHOOSE t \in Scripts : t # s

Spend(what, max) == spent[what] < max /\ spent' = [spent EXCEPT ![what] = @ + 1]

\* Ini::read_lossy and ppgw -ini-export: a missing or empty file is defaults.
Read == IF ini \in {NoConf, Torn} THEN Default ELSE ini

Remote == Published[remote]

\* nft.sh makes the rules from the file itself.
NftRules == Read.nft

Engine(mode) == IF mode \in {"yaml", "suburl"} THEN "clash" ELSE mode

-----------------------------------------------------------------------------
(* sniffbox as the script sees it *)

\* pidof sniffbox also finds the helper (sniffbox ppgw -downURL ...) that the
\* other process of the script is running.
Helper(s) == sh[Other(s)].pc = "fetch"

\* load_box: the rules when there are none or force says so, sniffbox when
\* pidof finds none.
LoadBox(s, force) ==
    /\ nft' = IF ini = NoConf THEN nft ELSE IF nft = NoConf \/ force THEN NftRules ELSE nft
    /\ box' = IF ini # NoConf /\ box.st = "off" /\ ~Helper(s)
                THEN [box EXCEPT !.st = "load"] ELSE box

\* kill_box: sniffbox and every rule are gone when it returns.
KillBox == box' = [st |-> "off", cfg |-> NoConf, hup |-> FALSE] /\ nft' = NoConf

\* hot_reload_box: kill -HUP "$pid" names one process; with two pids in the
\* variable the signal is not sent, and before sniffbox has its handler the
\* signal ends it.
HotReload(s) ==
    IF box.st = "off" /\ ~Helper(s) THEN LoadBox(s, FALSE)
    ELSE /\ box' = IF box.st = "off" \/ Helper(s) THEN box
                   ELSE IF box.st = "up" THEN [box EXCEPT !.hup = TRUE]
                   ELSE [box EXCEPT !.st = "off"]
         /\ nft' = nft

\* build_production: every key is taken from the file or has its default.
BuildProduction == Read

\* cli_main loads the configuration, ...
BoxLoads ==
    /\ box.st = "load"
    /\ box' = [box EXCEPT !.st = "snap", !.cfg = BuildProduction]
    /\ UNCHANGED <<remote, sub, ini, snap, nft, clashYaml, clash, sh, mem, spent>>

\* ... reads the file again for the snapshot, and then serves and registers
\* its SIGHUP handler.
BoxServes ==
    /\ box.st = "snap"
    /\ box' = [box EXCEPT !.st = "up"]
    /\ snap' = Read
    /\ UNCHANGED <<remote, sub, ini, nft, clashYaml, clash, sh, mem, spent>>

\* SharedState::reload: what can change while it runs follows the file.
Reloaded(cfg) == [cfg EXCEPT !.hot = Read.hot]

\* run_reload_loop: one SIGHUP, one reload.
BoxReloads ==
    /\ box.st = "up" /\ box.hup
    /\ box' = [box EXCEPT !.hup = FALSE, !.cfg = Reloaded(@)]
    /\ UNCHANGED <<remote, sub, ini, snap, nft, clashYaml, clash, sh, mem, spent>>

BoxDies ==
    /\ box.st # "off"
    /\ Spend("crash", MaxCrashes)
    /\ box' = [st |-> "off", cfg |-> NoConf, hup |-> FALSE]
    /\ UNCHANGED <<remote, sub, ini, snap, nft, clashYaml, clash, sh, mem>>

-----------------------------------------------------------------------------
(* Clash *)

\* get_conf "$suburl": the new subscription, a failed download that leaves
\* the files, or a failed conversion that has already removed them.
GetConf ==
    \/ clashYaml' = [clashYaml EXCEPT !.down = sub, !.custom = sub] /\ spent' = spent
    \/ clashYaml' = clashYaml /\ Spend("miss", MaxMisses)
    \/ clashYaml' = [clashYaml EXCEPT !.down = 0, !.custom = 0] /\ Spend("miss", MaxMisses)

LoadedIfRunning(conf) == IF conf = 0 \/ clash = 0 THEN clash ELSE conf

\* load_clash: without clash.yaml nothing changes; a running clash reloads it,
\* and a stopped one is started through sniffbox, which has to be up.
ClashLoaded(conf) == IF conf = 0 THEN clash
                     ELSE IF clash # 0 \/ box.st = "up" THEN conf
                     ELSE 0

\* reload_gw, from the fetched files y: clash.yaml is rebuilt from the
\* converted file, the rules and sniffbox are seen to, and clash is loaded, or
\* stopped when the mode has no use for it.
ReloadGw(s, c, force) ==
    /\ LoadBox(s, force)
    /\ IF Engine(c.mode) = "clash"
         THEN /\ IF clashYaml.down # 0 THEN clashYaml' = [clashYaml EXCEPT !.conf = clashYaml.custom] /\ spent' = spent
                 ELSE \/ /\ clashYaml' = [down |-> sub, custom |-> sub, conf |-> sub]
                         /\ spent' = spent
                      \/ /\ clashYaml' = [clashYaml EXCEPT !.conf = clashYaml.custom]
                         /\ Spend("miss", MaxMisses)
              /\ clash' = ClashLoaded(clashYaml'.conf)
         ELSE clash' = 0 /\ clashYaml' = clashYaml /\ spent' = spent

-----------------------------------------------------------------------------
(* One round of the script, of the loop or of a forced reload *)

Goto(s, pc) == sh' = [sh EXCEPT ![s].pc = pc]

Round(s) == sh[s].pc # "rest" /\ (Overlap \/ s = "forced" \/ sh["forced"].pc = "rest")

\* sniffbox has started and has handled its signal long before the script,
\* which sleeps a second in every get_conf, reads its snapshot or writes the
\* file again.
BoxPrompt == box.st \notin {"load", "snap"} /\ ~box.hup

\* load_baseline: what ppgw.ini holds, and what sniffbox was started with.
Baseline(s) ==
    /\ sh[s].pc = "base" /\ Round(s) /\ BoxPrompt
    /\ sh' = [sh EXCEPT ![s].pc = "fetch", ![s].old = Read,
                        ![s].ran = IF snap = NoConf THEN Read ELSE snap]
    /\ UNCHANGED <<remote, sub, ini, snap, nft, box, clashYaml, clash, mem, spent>>

\* try_conf: some host has the file. cat ... > ppgw.ini empties it first.
Fetched(s) ==
    /\ sh[s].pc = "fetch" /\ Round(s) /\ BoxPrompt
    /\ ini' = Torn
    /\ sh' = [sh EXCEPT ![s].pc = "write", ![s].got = Remote]
    /\ UNCHANGED <<remote, sub, snap, nft, box, clashYaml, clash, mem, spent>>

Written(s) ==
    /\ sh[s].pc = "write" /\ Round(s)
    /\ ini' = sh[s].got
    /\ Goto(s, "decide")
    /\ UNCHANGED <<remote, sub, snap, nft, box, clashYaml, clash, mem, spent>>

\* try_conf: no host has it. The last if of the function takes no branch, so
\* its status is success and the round goes on with the file there is.
NotFetched(s) ==
    /\ sh[s].pc = "fetch" /\ Round(s)
    /\ Spend("miss", MaxMisses)
    /\ Goto(s, "decide")
    /\ UNCHANGED <<remote, sub, ini, snap, nft, box, clashYaml, clash, mem>>

\* What needs a restart: the mode's engine, and fake_cidr, udp_enable, net_rec,
\* pplog or the SOCKS5 upstream.
NeedsCold(ran, cur) == ran.cold # cur.cold \/ Engine(ran.mode) # Engine(cur.mode)

\* The loop acts when the hash differs from the last one applied; a forced
\* reload always does. With nothing new the loop still honours a hot change.
Decide(s) ==
    LET cur == Read
        new == s = "forced" \/ (ini # NoConf /\ mem.hash # cur)
    IN  /\ sh[s].pc = "decide" /\ Round(s)
        /\ IF new /\ NeedsCold(sh[s].ran, cur) THEN KillBox ELSE UNCHANGED <<box, nft>>
        /\ sh' = [sh EXCEPT ![s].cur = cur,
                    ![s].pc = IF new /\ NeedsCold(sh[s].ran, cur) THEN "start"
                              ELSE IF ini # NoConf /\ sh[s].old.hot # cur.hot
                                THEN IF new THEN "hot" ELSE "hot check"
                              ELSE IF new THEN "sub" ELSE "check"]
        /\ UNCHANGED <<remote, sub, ini, snap, clashYaml, clash, mem, spent>>

ColdStart(s) ==
    /\ sh[s].pc = "start" /\ Round(s)
    /\ LoadBox(s, FALSE)
    /\ Goto(s, "sub")
    /\ UNCHANGED <<remote, sub, ini, snap, clashYaml, clash, mem, spent>>

Hot(s) ==
    /\ sh[s].pc \in {"hot", "hot check"} /\ Round(s)
    /\ HotReload(s)
    /\ Goto(s, IF sh[s].pc = "hot" THEN "sub" ELSE "check")
    /\ UNCHANGED <<remote, sub, ini, snap, clashYaml, clash, mem, spent>>

Subscription(s) ==
    /\ sh[s].pc = "sub" /\ Round(s)
    /\ IF sh[s].cur.mode = "suburl" THEN GetConf ELSE UNCHANGED <<clashYaml, spent>>
    /\ Goto(s, "gw")
    /\ UNCHANGED <<remote, sub, ini, snap, nft, box, clash, mem>>

NftChanged(old, cur) == old.nft # cur.nft

\* The loop records the hash of the file as it is now, and of the yaml.
Gateway(s) ==
    /\ sh[s].pc = "gw" /\ Round(s)
    /\ ReloadGw(s, sh[s].cur, s = "forced" \/ NftChanged(sh[s].old, sh[s].cur))
    /\ mem' = IF s = "forced" THEN mem
              ELSE [mem EXCEPT !.hash = Read, !.yaml = IF clashYaml'.down # 0 THEN clashYaml'.down ELSE @]
    /\ Goto(s, IF s = "forced" THEN "rest" ELSE "base")
    /\ UNCHANGED <<remote, sub, ini, snap>>

\* The yaml differs from the one last loaded: reload the gateway with it.
CheckYaml ==
    /\ sh["loop"].pc = "check" /\ Round("loop")
    /\ IF Engine(sh["loop"].cur.mode) = "clash" /\ mem.yaml # clashYaml.down
         THEN /\ ReloadGw("loop", sh["loop"].cur, FALSE)
              /\ mem' = [mem EXCEPT !.yaml = IF clashYaml'.down # 0 THEN clashYaml'.down ELSE @]
              /\ Goto("loop", "base")
         ELSE UNCHANGED <<nft, box, clashYaml, clash, mem, spent>> /\ Goto("loop", "health")
    /\ UNCHANGED <<remote, sub, ini, snap>>

\* load_box, then the health check; a healthy round ends the streak.
ClashWell ==
    /\ sh["loop"].pc = "health" /\ Round("loop")
    /\ Engine(sh["loop"].cur.mode) = "clash" => clash # 0
    /\ LoadBox("loop", FALSE)
    /\ mem' = [mem EXCEPT !.streak = 0]
    /\ Goto("loop", "sleep")
    /\ UNCHANGED <<remote, sub, ini, snap, clashYaml, clash, spent>>

\* Unhealthy: fetch the subscription again, reload, and check once more.
Unhealthy ==
    /\ sh["loop"].pc = "health" /\ Round("loop")
    /\ Engine(sh["loop"].cur.mode) = "clash" /\ clash # 0
    /\ Spend("ill", MaxIll)
    /\ LoadBox("loop", FALSE)
    /\ \/ clashYaml' = [down |-> sub, custom |-> sub, conf |-> sub]
       \/ clashYaml' = [clashYaml EXCEPT !.conf = clashYaml.custom]
       \/ clashYaml' = [down |-> 0, custom |-> 0, conf |-> 0]
    /\ clash' = ClashLoaded(clashYaml'.conf)
    /\ Goto("loop", "recheck")
    /\ UNCHANGED <<remote, sub, ini, snap, mem>>

\* A second unhealthy round in a row restarts clash from clash.yaml.
Recheck ==
    /\ sh["loop"].pc = "recheck" /\ Round("loop")
    /\ \/ mem' = [mem EXCEPT !.streak = 0] /\ UNCHANGED <<clash, spent>>
       \/ /\ Spend("ill", MaxIll)
          /\ mem' = [mem EXCEPT !.streak = (@ + 1) % 2]
          /\ clash' = IF mem'.streak # 0 THEN clash
                      ELSE IF box.st = "up" THEN clashYaml.conf ELSE 0
    /\ Goto("loop", "sleep")
    /\ UNCHANGED <<remote, sub, ini, snap, nft, box, clashYaml>>

\* Clash is down: fetch again and load clash.yaml as it is.
RunAgain ==
    /\ sh["loop"].pc = "health" /\ Round("loop")
    /\ Engine(sh["loop"].cur.mode) = "clash" /\ clash = 0
    /\ LoadBox("loop", FALSE)
    /\ GetConf
    /\ clash' = ClashLoaded(clashYaml.conf)
    /\ Goto("loop", "sleep")
    /\ UNCHANGED <<remote, sub, ini, snap, mem>>

\* sleep 30 and the next round, ...
Sleeps ==
    /\ sh["loop"].pc = "sleep" /\ Round("loop")
    /\ Goto("loop", "base")
    /\ UNCHANGED <<remote, sub, ini, snap, nft, box, clashYaml, clash, mem, spent>>

\* ... or, when the subscription is due, fetch it and reload what changed.
SubDue ==
    /\ sh["loop"].pc = "sleep" /\ Round("loop")
    /\ sh["loop"].cur.mode = "suburl" /\ clashYaml.down # sub
    /\ clashYaml' = [down |-> sub, custom |-> sub, conf |-> sub]
    /\ LoadBox("loop", FALSE)
    /\ clash' = ClashLoaded(sub)
    /\ Goto("loop", "base")
    /\ UNCHANGED <<remote, sub, ini, snap, mem, spent>>

-----------------------------------------------------------------------------
(* Everyone else *)

\* The operator edits the published configuration or the subscription.
Edit ==
    /\ \/ remote < Len(Published) /\ remote' = remote + 1 /\ sub' = sub
       \/ sub < MaxSubs /\ sub' = sub + 1 /\ remote' = remote
    /\ UNCHANGED <<ini, snap, nft, box, clashYaml, clash, sh, mem, spent>>

\* reload on the console or in the web page: another process of the script.
ForceReload ==
    /\ sh["forced"].pc = "rest" /\ ini # NoConf
    /\ Overlap \/ sh["loop"].pc = "sleep"
    /\ Spend("forced", MaxForced)
    /\ Goto("forced", "base")
    /\ UNCHANGED <<remote, sub, ini, snap, nft, box, clashYaml, clash, mem>>

ClashDies ==
    /\ clash # 0
    /\ Spend("crash", MaxCrashes)
    /\ clash' = 0
    /\ UNCHANGED <<remote, sub, ini, snap, nft, box, clashYaml, sh, mem>>

GwInit ==
    /\ remote = 1 /\ sub = 1
    /\ ini = NoConf /\ snap = NoConf /\ nft = NoConf
    /\ box = [st |-> "off", cfg |-> NoConf, hup |-> FALSE]
    /\ clashYaml = [down |-> 0, custom |-> 0, conf |-> 0]
    /\ clash = 0
    /\ sh = [s \in Scripts |-> [pc |-> IF s = "loop" THEN "base" ELSE "rest",
                                old |-> Default, ran |-> Default, cur |-> Default,
                                got |-> Default]]
    /\ mem = [hash |-> NoConf, yaml |-> 0, streak |-> 0]
    /\ spent = [e \in {"forced", "crash", "miss", "ill"} |-> 0]

ScriptStep(s) ==
    \/ Baseline(s) \/ Fetched(s) \/ Written(s) \/ NotFetched(s) \/ Decide(s)
    \/ ColdStart(s) \/ Hot(s) \/ Subscription(s) \/ Gateway(s)

LoopStep == CheckYaml \/ ClashWell \/ Unhealthy \/ Recheck \/ RunAgain \/ Sleeps \/ SubDue

BoxStep == BoxLoads \/ BoxServes \/ BoxReloads

GwNext ==
    \/ \E s \in Scripts : ScriptStep(s)
    \/ LoopStep \/ BoxStep \/ BoxDies \/ ClashDies \/ Edit \/ ForceReload

\* The script's commands return, and sniffbox is scheduled.
GwFair ==
    /\ \A s \in Scripts : WF_gwVars(ScriptStep(s))
    /\ WF_gwVars(LoopStep) /\ WF_gwVars(BoxStep)

GwSpec == GwInit /\ [][GwNext]_gwVars /\ GwFair

-----------------------------------------------------------------------------
(* Once the operator has stopped editing and nothing fails any more, the   *)
(* gateway runs what is published: sniffbox with its cold and its hot      *)
(* part, the kernel with its rules. This takes the loop's comparisons, the *)
(* snapshot and SIGHUP together.                                           *)
RunsPublished ==
    /\ box.st = "up"
    /\ box.cfg.cold = Remote.cold /\ box.cfg.hot = Remote.hot
    /\ Engine(box.cfg.mode) = Engine(Remote.mode)
    /\ nft = Remote.nft
Applied == <>[]RunsPublished

(* Clash ends up running the yaml the script fetched when the mode needs   *)
(* it, whatever the order in which downloads, conversions, health checks   *)
(* and restarts failed before, and is stopped otherwise.                   *)
ClashAsNeeded == IF Engine(Remote.mode) = "clash" THEN clash = clashYaml.down /\ clash # 0 ELSE clash = 0
ClashServed == <>[]ClashAsNeeded
=============================================================================
