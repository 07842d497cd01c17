------------------------------ MODULE ClashPull ------------------------------
(***************************************************************************)
(* The poll of clash's /connections (sniffbox/clash_pull.rs) and what it   *)
(* feeds: the bytes of each node (sb-stats/nodes.rs), the records that     *)
(* mirror the connections of clash's own listeners in the connection       *)
(* table, and the list kept for the web interface.                         *)
(*                                                                         *)
(* Around the poll: clash, whose connections come, relay and go; the       *)
(* engine, which registers the local port of a connection it made through  *)
(* clash's SOCKS port; the writer of clash.yaml; the web interface, which  *)
(* clears statistics; housekeeping, which sweeps stale records.  A         *)
(* connection's node is its own, so bytes of a node are bytes of it.       *)
(***************************************************************************)
EXTENDS Naturals, FiniteSets

CONSTANTS
  Direct,     \* connections of a declared kind of listener, from the LAN
  Own,        \* connections that the engine made, from loopback
  Unseen,     \* no counter of this connection in `last`
  MaxUp,      \* bound: bytes of a connection
  MaxYamlWrites,  \* bound: writes of clash.yaml
  MaxWipes    \* bound: clears of statistics, sweeps and answers that do not parse

ClashConns == Direct \cup Own

ASSUME PullConstants ==
  /\ Direct \cap Own = {} /\ Unseen \notin Nat
  /\ MaxUp \in Nat /\ MaxYamlWrites \in Nat /\ MaxWipes \in Nat

VARIABLES
  flow,      \* clash's connections: st, up
  indexed,   \* socks_src_index: the connections whose local port is in it
  yaml,      \* clash.yaml: mtime (0: no such file), whether it declares the listeners
  listeners,      \* ListenersGate
  poll,      \* the task: pc, the answer it works on, the mtime it has read
  last,      \* counters at the last poll
  nodes,     \* NodeDist.nodes
  wiped,     \* history: bytes of each node that were cleared
  forgotten, \* history: what was counted of a connection when an answer lacked it, alive
  shownNodes, \* NodeDist.json
  mirror,    \* connections with a record
  mirrored,  \* those records that are open in the connection table
  logged,    \* history: records written to the log as open and not yet as closed
  conns,     \* clash_conns_cache
  wipes

pullVars == <<flow, indexed, yaml, listeners, poll, last, nodes, wiped, forgotten, shownNodes, mirror,
              mirrored, logged, conns, wipes>>
-----------------------------------------------------------------------------
NoBytes == [c \in ClashConns |-> 0]
NoAnswer == [c \in ClashConns |-> Unseen]
Resting == [pc |-> "rest", answer |-> NoAnswer, mtime |-> 0, render |-> NoBytes]

PullInit ==
  /\ flow = [c \in ClashConns |-> [st |-> "none", up |-> 0]]
  /\ indexed = {}
  /\ yaml = [mtime |-> 0, declares |-> FALSE]
  /\ listeners = [checked |-> FALSE, mtime |-> 0, types |-> FALSE]
  /\ poll = Resting
  /\ last = NoAnswer
  /\ nodes = NoBytes /\ wiped = NoBytes /\ forgotten = NoBytes /\ shownNodes = NoBytes
  /\ mirror = {} /\ mirrored = {} /\ logged = {}
  /\ conns = {}
  /\ wipes = 0

PollAt(pc) == poll.pc = pc
PollGoes(pc) == poll' = [poll EXCEPT !.pc = pc]
Kept == <<flow, indexed, yaml, wipes, forgotten>>
-----------------------------------------------------------------------------
(* The poll. *)

\* fetch_connections: connect, ask, read to the end, undo the chunks.  The answer
\* holds the counters of the connections at one moment.
Fetches ==
  /\ PollAt("rest")
  /\ poll' = [poll EXCEPT !.pc = "count",
                          !.answer = [c \in ClashConns |->
                             IF flow[c].st = "live" THEN flow[c].up ELSE Unseen]]
  /\ UNCHANGED <<Kept, listeners, last, nodes, wiped, shownNodes, mirror, mirrored, logged, conns>>

\* A refused connection, or no answer within FETCH_TIMEOUT: nothing but a debug line.
FetchFails == PollAt("rest") /\ UNCHANGED pullVars

\* An answer that is cut short, too long or no list of connections, such as an error of
\* clash, whose status is not looked at, reads as one without connections.
AnswerIsCut ==
  /\ PollAt("rest") /\ PollGoes("count")
  /\ wipes < MaxWipes /\ wipes' = wipes + 1
  /\ UNCHANGED <<flow, indexed, yaml, forgotten, listeners, last, nodes, wiped, shownNodes, mirror, mirrored, logged, conns>>

Monus(a, b) == IF a > b THEN a - b ELSE 0
Before(c) == IF last[c] = Unseen THEN 0 ELSE last[c]
Answered == {c \in ClashConns : poll.answer[c] # Unseen}

\* accumulate: the growth of each counter since the last poll goes to its node, and what is
\* not in the answer is dropped from `last`.
Growth(c) == IF c \in Answered THEN Monus(poll.answer[c], Before(c)) ELSE 0

Accumulates ==
  /\ PollAt("count") /\ PollGoes("render")
  /\ nodes' = [c \in ClashConns |-> nodes[c] + Growth(c)]
  /\ last' = poll.answer
  /\ forgotten' = [c \in ClashConns |-> IF flow[c].st = "live" /\ c \notin Answered
                                         THEN forgotten[c] + Before(c) ELSE forgotten[c]]
  /\ UNCHANGED <<flow, indexed, yaml, wipes, listeners, wiped, shownNodes, mirror, mirrored, logged, conns>>

\* NodeDist::rebuild renders under the lock ...
Renders ==
  /\ PollAt("render")
  /\ poll' = [poll EXCEPT !.pc = "publish", !.render = nodes]
  /\ UNCHANGED <<Kept, listeners, last, nodes, wiped, shownNodes, mirror, mirrored, logged, conns>>

\* ... and stores the text after it.
Publishes ==
  /\ PollAt("publish")
  /\ shownNodes' = poll.render
  /\ poll' = [poll EXCEPT !.pc = "stat", !.render = NoBytes]
  /\ UNCHANGED <<Kept, listeners, last, nodes, wiped, mirror, mirrored, logged, conns>>

\* ListenersGate::check asks for the mtime of clash.yaml ...
Stats ==
  /\ PollAt("stat")
  /\ poll' = [poll EXCEPT !.pc = "gate", !.mtime = yaml.mtime]
  /\ UNCHANGED <<Kept, listeners, last, nodes, wiped, shownNodes, mirror, mirrored, logged, conns>>

\* ... and reads the file when it is another than last time; unreadable is empty.
ReadsYaml ==
  /\ PollAt("gate") /\ PollGoes("mirror")
  /\ listeners' = IF listeners.checked /\ poll.mtime = listeners.mtime THEN listeners
             ELSE [checked |-> TRUE, mtime |-> poll.mtime,
                   types |-> poll.mtime # 0 /\ yaml.declares]
  /\ UNCHANGED <<Kept, last, nodes, wiped, shownNodes, mirror, mirrored, logged, conns>>

\* clash_inbound_label and the gate: the connections worth a record.
Wanted == IF listeners.types THEN Answered \cap Direct ELSE {}

\* Without declared listeners there is nothing to do.
MirrorsWhenActive ==
  /\ PollAt("mirror") /\ PollGoes("restore")
  /\ mirror' = IF listeners.types THEN Wanted ELSE mirror
  /\ mirrored' = IF listeners.types THEN Wanted ELSE mirrored
  /\ logged' = IF listeners.types THEN (logged \cup Wanted) \ (mirror \ Wanted) ELSE logged
  /\ UNCHANGED <<Kept, listeners, last, nodes, wiped, shownNodes, conns>>

\* mirror_direct_inbounds: a record for each new one, back into the table if it was
\* cleared or swept from there; the records of the others are closed.
Mirrors ==
  /\ PollAt("mirror") /\ PollGoes("restore")
  /\ mirror' = Wanted
  /\ mirrored' = Wanted
  /\ logged' = (logged \cup Wanted) \ (mirror \ Wanted)
  /\ UNCHANGED <<Kept, listeners, last, nodes, wiped, shownNodes, conns>>

\* restore_sources, when the web interface asked for the list lately: a connection
\* from loopback gets the client that the index names, or is left out.
Restores ==
  /\ PollAt("restore")
  /\ \/ conns' = {c \in Answered : c \in Own => c \in indexed}
     \/ conns' = conns
  /\ poll' = Resting
  /\ UNCHANGED <<Kept, listeners, last, nodes, wiped, shownNodes, mirror, mirrored, logged>>

PollStep == Accumulates \/ Renders \/ Publishes \/ Stats \/ ReadsYaml \/ Mirrors \/ Restores
-----------------------------------------------------------------------------
(* Around it. *)

Polling == <<listeners, poll, last, nodes, wiped, forgotten, shownNodes, mirror, mirrored, logged, conns, wipes>>

FlowOpens(c) ==
  /\ flow[c].st = "none"
  /\ flow' = [flow EXCEPT ![c].st = "live"]
  /\ UNCHANGED <<indexed, yaml, Polling>>

FlowRelays(c) ==
  /\ flow[c].st = "live" /\ flow[c].up < MaxUp
  /\ flow' = [flow EXCEPT ![c].up = @ + 1]
  /\ UNCHANGED <<indexed, yaml, Polling>>

FlowEnds(c) ==
  /\ flow[c].st = "live"
  /\ flow' = [flow EXCEPT ![c].st = "gone"]
  /\ UNCHANGED <<indexed, yaml, Polling>>

\* run_proxy and the end of serve_established, of a connection through clash.
PortIndexed(c) ==
  /\ c \in Own /\ flow[c].st = "live" /\ c \notin indexed
  /\ indexed' = indexed \cup {c}
  /\ UNCHANGED <<flow, yaml, Polling>>

PortUnindexed(c) ==
  /\ c \in indexed /\ flow[c].st = "gone"
  /\ indexed' = indexed \ {c}
  /\ UNCHANGED <<flow, yaml, Polling>>

\* clash.yaml is written anew; mtime tells two writes apart.
YamlWritten(declares) ==
  /\ yaml.mtime < MaxYamlWrites
  /\ yaml' = [mtime |-> yaml.mtime + 1, declares |-> declares]
  /\ UNCHANGED <<flow, indexed, Polling>>

\* NodeDist::clear, from the web interface.
ClearsNodes ==
  /\ wipes < MaxWipes /\ wipes' = wipes + 1
  /\ wiped' = [c \in ClashConns |-> wiped[c] + nodes[c]]
  /\ nodes' = NoBytes
  /\ shownNodes' = NoBytes
  /\ UNCHANGED <<flow, indexed, yaml, forgotten, listeners, poll, last, mirror, mirrored, logged,
                 conns>>

\* ConnTable::clear, and sweep_recency, which takes a record nobody touched.
SweptFlows(c) ==
  /\ c \in mirrored /\ wipes < MaxWipes /\ wipes' = wipes + 1
  /\ mirrored' = mirrored \ {c}
  /\ UNCHANGED <<flow, indexed, yaml, forgotten, listeners, poll, last, nodes, wiped, shownNodes,
                 mirror, logged, conns>>

PullNext ==
  \/ Fetches \/ FetchFails \/ AnswerIsCut \/ PollStep
  \/ \E c \in ClashConns : FlowOpens(c) \/ FlowRelays(c) \/ FlowEnds(c) \/ SweptFlows(c)
                           \/ PortIndexed(c) \/ PortUnindexed(c)
  \/ \E d \in BOOLEAN : YamlWritten(d)
  \/ ClearsNodes
-----------------------------------------------------------------------------
\* The bytes of a connection are counted for its node once, and once more for each answer
\* that lacked it while it was alive, up to what was counted by then: what the node has and
\* what a clear took from it is the counter the last poll saw, and what was forgotten.  The
\* log closes what it opened.
NodesCountedOnce ==
  /\ \A c \in ClashConns :
       /\ nodes[c] + wiped[c] <= flow[c].up + forgotten[c]
       /\ last[c] # Unseen => nodes[c] + wiped[c] = last[c] + forgotten[c]
  /\ logged = mirror /\ mirrored \subseteq mirror

\* The listeners the mirror goes by are those of clash.yaml, unless the file was
\* written since it was last looked at.
GateFresh ==
  listeners.checked /\ listeners.mtime = yaml.mtime => listeners.types = yaml.declares

\* As long as clash answers, the table comes to show the connections of declared listeners
\* that are alive, whatever swept them or went wrong with an answer, and no other: neither
\* those that ended nor those whose listener is no longer declared.  Nor does the page of
\* nodes keep what was cleared.
MirrorRight ==
  /\ mirrored = IF yaml.declares THEN {c \in Direct : flow[c].st = "live"} ELSE {}
  /\ \A c \in ClashConns : shownNodes[c] <= nodes[c]
MirrorSettles == []<>MirrorRight

\* A connection's bytes are counted at one node only, and the gate decides by the
\* configuration clash has.
PullSafe == NodesCountedOnce /\ GateFresh

=============================================================================
