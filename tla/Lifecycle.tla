------------------------------ MODULE Lifecycle ------------------------------
(***************************************************************************)
(* The sniffbox process from its start to its end: cli_main loads the      *)
(* configuration, run starts the services in order and then waits for a    *)
(* signal; SIGHUP makes run_reload_loop load it again and SharedState      *)
(* store it field by field; the log goes through a bounded queue to a      *)
(* thread of its own.  A signal that meets no handler ends the process,    *)
(* and the boot script starts it again.                                    *)
(***************************************************************************)
EXTENDS Naturals, SequencesExt, FiniteSets

CONSTANTS Fields,      \* the settings reload stores, in its order
          Ovpn,        \* whether the outbound is openvpn
          LogCap,      \* LOG_QUEUE_CAP
          MaxIniWrites, MaxLines, MaxBindFails, HalfIni

VARIABLES iniFile,         \* ppgw.ini: its version, or Torn while it is written
          writer,      \* who changes it: what is left to do
          process,        \* where cli_main and run are; cfg: what was loaded
          hot,         \* SharedState's settings; Torn before they are stored
          hup,         \* SIGHUP: its handler, whether one is pending, the loop
          term,        \* SIGTERM: its handler, whether one is pending
          kids,        \* each supervisor's child: it may be its "own", or one that was
                       \* "left" when a process lastEnd
          lastEnd,     \* how the last process lastEnd: "orderly", or not
          sink,        \* LogSink: the queue and dropped.pending; the flush that was queued
          shown,       \* what stdout shows: lines, and drops reported
          unwritten,   \* lines, and drops to report, that processes took with them
          lines,       \* lines submitted; the n-th is n in the queue
          bindFaults

lifeVars == <<iniFile, writer, process, hot, hup, term, kids, lastEnd, sink, shown, unwritten, lines, bindFaults>>

NoHup == [on |-> FALSE, pending |-> FALSE, at |-> "wait", i |-> 1, new |-> HalfIni]
NoTerm == [on |-> FALSE, pending |-> FALSE]
FlushMark == 0
EmptySink == [queue |-> <<>>, pending |-> 0, asked |-> 0]
Kids == {"openvpn", "cloudflared"}
Unset == [f \in Range(Fields) |-> HalfIni]

LifeInit == /\ iniFile = 0 /\ writer = [at |-> "idle", n |-> 0]
            /\ process = [at |-> "down", cfg |-> HalfIni]
            /\ hot = Unset /\ hup = NoHup /\ term = NoTerm
            /\ kids = [k \in Kids |-> "none"] /\ lastEnd = "orderly"
            /\ sink = EmptySink /\ shown = [lines |-> 0, drops |-> 0] /\ unwritten = 0
            /\ lines = 0 /\ bindFaults = 0

logVars == <<sink, shown, unwritten, lines>>
ctlVars == <<iniFile, writer, kids, lastEnd, bindFaults>>
Alive == process.at # "down"
LinesQueued == {i \in DOMAIN sink.queue : sink.queue[i] # FlushMark}
Step(from, to) == process.at = from /\ process' = [process EXCEPT !.at = to]

-----------------------------------------------------------------------------
(* Start *)

\* ConfigSource::load: whatever the file holds, with defaults for the rest.
Loads == /\ process.at = "down"
         /\ process' = [at |-> "loaded", cfg |-> iniFile]
         /\ UNCHANGED <<hot, hup, term, ctlVars, logVars>>

\* SharedState::new
BuildsState == /\ Step("loaded", "built")
               /\ hot' = [f \in Range(Fields) |-> process.cfg]
               /\ UNCHANGED <<hup, term, ctlVars, logVars>>

\* The openvpn supervisor, if there is one, before the listeners.  A supervisor
\* adopts the child that runs, and starts one later if none does.
SupervisesOvpn == /\ Step("built", "listen")
                  /\ kids' = IF Ovpn THEN [kids EXCEPT !["openvpn"] = "own"] ELSE kids
                  /\ UNCHANGED <<hot, hup, term, iniFile, writer, lastEnd, bindFaults, logVars>>

\* The process is gone: its memory and its handlers are, and what the log had not
\* written.  Its children go on.
ProcessGone(how) ==
    /\ process' = [at |-> "down", cfg |-> HalfIni] /\ hot' = Unset
    /\ hup' = NoHup /\ term' = NoTerm /\ lastEnd' = how
    /\ kids' = [k \in Kids |-> IF kids[k] = "own" THEN "left" ELSE kids[k]]
    /\ unwritten' = unwritten + sink.pending + Cardinality(LinesQueued)
    /\ sink' = EmptySink /\ UNCHANGED <<shown, lines>>

\* submit: the next line
Submits == /\ lines' = lines + 1
           /\ sink' = IF Len(sink.queue) < LogCap THEN [sink EXCEPT !.queue = Append(@, lines + 1)]
                                                  ELSE [sink EXCEPT !.pending = @ + 1]

\* spawn_tcp_listeners: the first IPv4 one must bind, or run fails: it says so in
\* the log, which cli_main's error path does not flush, and kills no child.
ListenersBind == /\ Step("listen", "cf")
                 /\ UNCHANGED <<hot, hup, term, ctlVars, logVars>>
ListenersFail == /\ Step("listen", "failed")
                 /\ bindFaults < MaxBindFails /\ bindFaults' = bindFaults + 1 /\ Submits
                 /\ UNCHANGED <<hot, hup, term, iniFile, writer, kids, lastEnd, shown, unwritten>>
Fails == process.at = "failed" /\ ProcessGone("failed") /\ UNCHANGED <<iniFile, writer, bindFaults>>

SupervisesCf == /\ Step("cf", "serve")
                /\ kids' = [kids EXCEPT !["cloudflared"] = "own"]
                /\ UNCHANGED <<hot, hup, term, iniFile, writer, lastEnd, bindFaults, logVars>>

\* run_reload_loop is spawned, and registers its handler when it runs.
HupHandler == /\ process.at \in {"serve", "up"} /\ ~hup.on
              /\ hup' = [hup EXCEPT !.on = TRUE]
              /\ UNCHANGED <<process, hot, term, ctlVars, logVars>>

\* clash_pull, smart_speed, the DNS server, the web server, the inbound
\* proxies and the UDP engines, none of which stops the start when it fails
ServicesStart == Step("serve", "up") /\ UNCHANGED <<hot, hup, term, ctlVars, logVars>>

\* install_signals
TermHandler == /\ process.at = "up" /\ ~term.on
               /\ term' = [term EXCEPT !.on = TRUE]
               /\ UNCHANGED <<process, hot, hup, ctlVars, logVars>>

-----------------------------------------------------------------------------
(* Reload *)

\* Signals that come before the last was received are one.
ReloadReceives == /\ hup.at = "wait" /\ hup.pending
                  /\ hup' = [hup EXCEPT !.pending = FALSE, !.at = "load"]
                  /\ UNCHANGED <<process, hot, term, ctlVars, logVars>>

ReloadLoads == /\ hup.at = "load"
               /\ hup' = [hup EXCEPT !.at = "store", !.new = iniFile, !.i = 1]
               /\ UNCHANGED <<process, hot, term, ctlVars, logVars>>


\* SharedState::reload: one store after the other
ReloadStores ==
  /\ hup.at = "store"
  /\ hot' = [hot EXCEPT ![Fields[hup.i]] = hup.new]
  /\ hup' = IF hup.i = Len(Fields) THEN [NoHup EXCEPT !.on = TRUE, !.pending = hup.pending]
                                   ELSE [hup EXCEPT !.i = @ + 1]
  /\ UNCHANGED <<process, term, ctlVars, logVars>>

-----------------------------------------------------------------------------
(* Shutdown *)

\* run goes on when install_signals has seen a signal: the supervisors' children
\* are killed, 200 ms pass, and the log is flushed.
ShutsDown == /\ Step("up", "kill") /\ term.pending
             /\ UNCHANGED <<hot, hup, term, ctlVars, logVars>>
KillsChildren == /\ Step("kill", "flush")
                 /\ kids' = [k \in Kids |-> IF kids[k] = "own" THEN "none" ELSE kids[k]]
                 /\ UNCHANGED <<hot, hup, term, iniFile, writer, lastEnd, bindFaults, logVars>>

\* flush: nothing when the queue is full; else an answer or 300 ms
LogFlushes == /\ Step("flush", "wait")
              /\ sink' = IF Len(sink.queue) < LogCap
                         THEN [sink EXCEPT !.queue = Append(@, FlushMark), !.asked = lines] ELSE sink
              /\ UNCHANGED <<hot, hup, term, ctlVars, shown, unwritten, lines>>
Exits == process.at = "wait" /\ ProcessGone("orderly") /\ UNCHANGED <<iniFile, writer, bindFaults>>

-----------------------------------------------------------------------------
(* The log *)

LogLine == /\ Alive /\ lines < MaxLines /\ Submits
           /\ UNCHANGED <<process, hot, hup, term, ctlVars, shown, unwritten>>

\* The thread sniffbox-log: the drops are reported before the next line.
LogWrites ==
  /\ sink.queue # <<>>
  /\ IF Head(sink.queue) = FlushMark
     THEN sink' = [sink EXCEPT !.queue = Tail(@)] /\ UNCHANGED shown
     ELSE /\ sink' = [sink EXCEPT !.queue = Tail(@), !.pending = 0]
          /\ shown' = [lines |-> shown.lines + 1, drops |-> shown.drops + sink.pending]
  /\ UNCHANGED <<process, hot, hup, term, ctlVars, unwritten, lines>>

-----------------------------------------------------------------------------
(* The boot script *)

\* ppgw.ini is written with cat >, and then the process is told.
WritesIni == /\ writer.at = "idle" /\ writer.n < MaxIniWrites
             /\ iniFile' = HalfIni /\ writer' = [at |-> "writing", n |-> writer.n + 1]
             /\ UNCHANGED <<process, hot, hup, term, kids, lastEnd, bindFaults, logVars>>
IniWritten == /\ writer.at = "writing"
              /\ iniFile' = writer.n /\ writer' = [writer EXCEPT !.at = "signal"]
              /\ UNCHANGED <<process, hot, hup, term, kids, lastEnd, bindFaults, logVars>>
SendsHup == /\ writer.at = "signal" /\ writer' = [writer EXCEPT !.at = "idle"]
            /\ CASE ~Alive -> UNCHANGED <<process, hot, hup, term, kids, lastEnd, logVars>>
                 [] Alive /\ ~hup.on -> ProcessGone("killed")
                 [] Alive /\ hup.on -> /\ hup' = [hup EXCEPT !.pending = TRUE]
                                      /\ UNCHANGED <<process, hot, term, kids, lastEnd, logVars>>
            /\ UNCHANGED <<iniFile, bindFaults>>

\* The script stops the process to start it anew.
SendsTerm == /\ Alive /\ bindFaults < MaxBindFails /\ bindFaults' = bindFaults + 1
             /\ IF term.on THEN /\ term' = [term EXCEPT !.pending = TRUE]
                                /\ UNCHANGED <<process, hot, hup, kids, lastEnd, logVars>>
                           ELSE ProcessGone("killed")
             /\ UNCHANGED <<iniFile, writer>>

\* safe_kill does not wait for ever.
ForceKills == /\ term.pending /\ ProcessGone("killed")
              /\ UNCHANGED <<iniFile, writer, bindFaults>>

ProcStep == \/ Loads \/ BuildsState \/ SupervisesOvpn \/ ListenersBind \/ SupervisesCf \/ ServicesStart
            \/ ShutsDown \/ KillsChildren \/ LogFlushes \/ Exits \/ Fails
ReloadStep == ReloadReceives \/ ReloadLoads \/ ReloadStores

LifeNext == \/ ProcStep \/ ListenersFail \/ HupHandler \/ TermHandler \/ ReloadStep
            \/ LogLine \/ LogWrites \/ WritesIni \/ IniWritten \/ SendsHup
            \/ SendsTerm \/ ForceKills

LifeFair == /\ WF_lifeVars(ProcStep) /\ WF_lifeVars(ReloadStep) /\ WF_lifeVars(HupHandler) /\ WF_lifeVars(TermHandler)
            /\ WF_lifeVars(LogWrites) /\ WF_lifeVars(IniWritten) /\ WF_lifeVars(SendsHup)

LifeSpec == LifeInit /\ [][LifeNext]_lifeVars /\ LifeFair

-----------------------------------------------------------------------------
(* Properties *)

\* Whenever the last change of ppgw.ini and its SIGHUP come - during the start,
\* before the handler is there, in the middle of another reload - the process
\* comes to run with that configuration in every setting, and never stays with
\* a file it read half written.
Current == Alive /\ \A f \in Range(Fields) : hot[f] = iniFile /\ iniFile = writer.n
SettingsSettle == <>[]Current

\* No line of the log is lost without account, however the queue fills and
\* drains around the flush and however processes end: each line is shown, waits in
\* the queue, was reported as dropped, is in the count that the next line written
\* reports, or went with a process.
EachLineSomewhere ==
    lines = shown.lines + shown.drops + sink.pending + Cardinality(LinesQueued) + unwritten

\* What the flush at the end is for: a line older than it waits only while the flush
\* itself waits behind it, so an end after its answer takes only younger ones.
FlushComesLast ==
    \A i \in LinesQueued : sink.queue[i] <= sink.asked =>
        \E j \in DOMAIN sink.queue : j > i /\ sink.queue[j] = FlushMark
LogAccounted == EachLineSomewhere /\ FlushComesLast

\* A child that was left by a process that failed or was killed before its handler
\* is adopted by the next; after an orderly end none runs.
OrderlyLeavesNone == ~Alive /\ lastEnd = "orderly" => \A k \in Kids : kids[k] = "none"
AllAdopted == \A k \in Kids : kids[k] # "left"

=============================================================================
