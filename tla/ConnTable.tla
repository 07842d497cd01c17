------------------------------ MODULE ConnTable ------------------------------
(***************************************************************************)
(* The life of a served TCP connection and the counting of its bytes: the  *)
(* second half of serve_established and run_proxy (sniffbox/engine.rs),    *)
(* the connection table and its records (sb-stats), the housekeeping loop  *)
(* (sniffbox/tasks.rs), and what the web interface does to them            *)
(* (sniffbox/runtime.rs): closing connections, clearing the statistics,    *)
(* showing totals.                                                         *)
(*                                                                         *)
(* A connection's task and the housekeeping loop both move bytes from the  *)
(* record to the totals, with no lock between them.  One counter stands    *)
(* for upload and download, which are handled alike.                       *)
(***************************************************************************)
EXTENDS Naturals, FiniteSets

CONSTANTS
  Served,     \* connections that are dialled
  SrcPorts,   \* local ports of the upstream sockets
  Nobody,     \* no connection, no port
  MaxBytes    \* bound: bytes relayed

House == "housekeeping"

ASSUME TableConstants ==
  /\ Nobody \notin Served \cup SrcPorts
  /\ Served \cap {House, "idle", "totals", "next", "shown"} = {}
  /\ IsFiniteSet(Served)
  /\ MaxBytes \in Nat

VARIABLES
  life,      \* per connection: where its task is, the port of its upstream socket
  bytes,     \* ConnRecord.upload
  taken,     \* ConnRecord.last_drained_up
  ended,     \* ConnRecord.closed_ms # 0
  table,     \* ConnTable: the connections with a record in it
  registry,  \* close_registry: the connections that can be told to close
  srcIndex,  \* socks_src_index: whose connection has each local port
  drainer,   \* per task that counts, and housekeeping: where it is in drain_delta
  house,     \* housekeeping: where it is in flush_once, the records still to visit
  totals,    \* TrafficCache
  cleared,   \* history: bytes that were counted and then cleared
  viewer,    \* a request that shows the totals
  clearing   \* whether a clear has emptied the table and not yet the totals

tableVars == <<life, bytes, taken, ended, table, registry, srcIndex, drainer, house,
               totals, cleared, viewer, clearing>>
-----------------------------------------------------------------------------
Drainers == Served \cup {House}

\* drain_delta of a record: prev is the last value seen of last_drained, now the
\* value read of the counter, delta what is to be added to the totals.
Idle == [pc |-> "idle", of |-> Nobody, prev |-> 0, now |-> 0, delta |-> 0]
Draining(c) == [Idle EXCEPT !.pc = "last", !.of = c]

Unviewed == [pc |-> "idle", left |-> {}, cur |-> 0, shown |-> 0, base |-> 0]

TableInit ==
  /\ life = [c \in Served |-> [pc |-> "away", port |-> Nobody]]
  /\ bytes = [c \in Served |-> 0]
  /\ taken = [c \in Served |-> 0]
  /\ ended = [c \in Served |-> FALSE]
  /\ table = {}
  /\ registry = {}
  /\ srcIndex = [p \in SrcPorts |-> Nobody]
  /\ drainer = [d \in Drainers |-> Idle]
  /\ house = [pc |-> "rest", left |-> {}]
  /\ totals = 0
  /\ cleared = 0
  /\ viewer = Unviewed
  /\ clearing = FALSE

Counters == <<bytes, taken, ended, totals, cleared>>
Others == <<drainer, house, viewer, clearing>>
-----------------------------------------------------------------------------
(* The task of a connection. *)

\* Each byte is the pair of its record and its number there.
ByteSet(f) == {b \in (DOMAIN f) \X (1 .. MaxBytes) : b[2] <= f[b[1]]}
Total(f) == Cardinality(ByteSet(f))

InStage(c, pc) == life[c].pc = pc
Goes(c, pc) == life' = [life EXCEPT ![c].pc = pc]

\* conn_table.insert
Lists(c) ==
  /\ InStage(c, "away") /\ Goes(c, "listed")
  /\ table' = table \cup {c}
  /\ UNCHANGED <<Counters, registry, srcIndex, Others>>

\* close_registry.insert
Registers(c) ==
  /\ InStage(c, "listed") /\ Goes(c, "dial")
  /\ registry' = registry \cup {c}
  /\ UNCHANGED <<Counters, table, srcIndex, Others>>

\* The ports that a socket may get: no open socket has them.
FreePorts == SrcPorts \ {life[c].port : c \in {x \in Served : InStage(x, "opened") \/ InStage(x, "relay")}}

\* connect_tcp returns a stream, whose port is not yet in the index.
Connects(c) ==
  /\ InStage(c, "dial")
  /\ \E p \in FreePorts : life' = [life EXCEPT ![c] = [pc |-> "opened", port |-> p]]
  /\ UNCHANGED <<Counters, table, registry, srcIndex, Others>>

\* socks_src_index.insert, whatever was there before.
Indexes(c) ==
  /\ InStage(c, "opened") /\ Goes(c, "relay")
  /\ srcIndex' = [srcIndex EXCEPT ![life[c].port] = c]
  /\ UNCHANGED <<Counters, table, registry, Others>>

DialFails(c) ==
  /\ InStage(c, "dial") /\ Goes(c, "unregister")
  /\ UNCHANGED <<Counters, table, registry, srcIndex, Others>>

\* The copying of either direction adds to the record's counter.
Relays(c) ==
  /\ InStage(c, "relay") /\ Total(bytes) < MaxBytes
  /\ bytes' = [bytes EXCEPT ![c] = @ + 1]
  /\ UNCHANGED <<life, taken, ended, totals, cleared, table, registry, srcIndex, Others>>

\* run_proxy returns, its sockets are closed and the port is free again.
RelayEnds(c) ==
  /\ InStage(c, "relay") /\ Goes(c, "unregister")
  /\ UNCHANGED <<Counters, table, registry, srcIndex, Others>>

\* The other branch of the select: the sender in the registry was dropped, the
\* future of run_proxy is dropped at the await it had reached.
CancelledWhileDialling(c) ==
  /\ InStage(c, "dial") /\ c \notin registry
  /\ Goes(c, "unregister")
  /\ UNCHANGED <<Counters, table, registry, srcIndex, Others>>

Cancelled(c) ==
  /\ InStage(c, "dial") \/ InStage(c, "relay")
  /\ c \notin registry
  /\ Goes(c, "unregister")
  /\ UNCHANGED <<Counters, table, registry, srcIndex, Others>>

Unregisters(c) ==
  /\ InStage(c, "unregister") /\ Goes(c, "unindex")
  /\ registry' = registry \ {c}
  /\ UNCHANGED <<Counters, table, srcIndex, Others>>

\* The entry of the port goes, whosever it is by now; then the last drain begins.
UnindexesIfUsed(c) ==
  /\ InStage(c, "unindex") /\ Goes(c, "drain")
  /\ srcIndex' = [p \in SrcPorts |->
       IF p = life[c].port /\ bytes[c] > taken[c] THEN Nobody ELSE srcIndex[p]]
  /\ drainer' = [drainer EXCEPT ![c] = Draining(c)]
  /\ UNCHANGED <<Counters, table, registry, house, viewer, clearing>>

Unindexes(c) ==
  /\ InStage(c, "unindex") /\ Goes(c, "drain")
  /\ srcIndex' = [p \in SrcPorts |-> IF p = life[c].port THEN Nobody ELSE srcIndex[p]]
  /\ drainer' = [drainer EXCEPT ![c] = Draining(c)]
  /\ UNCHANGED <<Counters, table, registry, house, viewer, clearing>>

\* conn_table.close, if the record is still there.
Closes(c) ==
  /\ InStage(c, "drain") /\ drainer[c].pc = "idle" /\ Goes(c, "gone")
  /\ ended' = [ended EXCEPT ![c] = @ \/ c \in table]
  /\ UNCHANGED <<bytes, taken, totals, cleared, table, registry, srcIndex, Others>>
-----------------------------------------------------------------------------
(* drain_delta and account_delta, by a connection's task or by housekeeping.  *)

NotDraining == <<life, bytes, ended, table, registry, srcIndex, house, viewer, clearing>>

\* drain_one reads last_drained,
LoadLast(d) ==
  /\ drainer[d].pc = "last"
  /\ drainer' = [drainer EXCEPT ![d].pc = "cur", ![d].prev = taken[drainer[d].of]]
  /\ UNCHANGED <<taken, totals, cleared, NotDraining>>

\* then the counter, and is done if there is nothing new,
LoadCur(d) ==
  /\ drainer[d].pc = "cur"
  /\ LET now == bytes[drainer[d].of] IN
     drainer' = [drainer EXCEPT ![d] =
       IF now <= @.prev THEN Idle ELSE [@ EXCEPT !.pc = "cas", !.now = now]]
  /\ UNCHANGED <<taken, totals, cleared, NotDraining>>

\* then exchanges last_drained if it is as it was read, and starts over with the
\* value it met if not.
StoreLast(d) ==
  /\ drainer[d].pc = "cas"
  /\ taken' = [taken EXCEPT ![drainer[d].of] = drainer[d].now]
  /\ drainer' = [drainer EXCEPT ![d].pc = "account", ![d].delta = drainer[d].now - drainer[d].prev]
  /\ UNCHANGED <<totals, cleared, NotDraining>>

CasLast(d) ==
  /\ drainer[d].pc = "cas"
  /\ LET c == drainer[d].of IN
     IF taken[c] = drainer[d].prev
     THEN /\ taken' = [taken EXCEPT ![c] = drainer[d].now]
          /\ drainer' = [drainer EXCEPT ![d].pc = "account", ![d].delta = drainer[d].now - drainer[d].prev]
     ELSE /\ drainer' = [drainer EXCEPT ![d].pc = "cur", ![d].prev = taken[c]]
          /\ UNCHANGED taken
  /\ UNCHANGED <<totals, cleared, NotDraining>>

\* account_delta
Accounts(d) ==
  /\ drainer[d].pc = "account"
  /\ totals' = totals + drainer[d].delta
  /\ drainer' = [drainer EXCEPT ![d] = Idle]
  /\ UNCHANGED <<taken, cleared, NotDraining>>
-----------------------------------------------------------------------------
(* run_housekeeping: flush_once every three seconds.  The time-window          *)
(* aggregate it also feeds (agg.rs) is left out.                              *)

HouseAt(pc) == house.pc = pc /\ drainer[House].pc = "idle"
NotHousekeeping ==
  <<life, bytes, taken, ended, registry, srcIndex, totals, cleared, viewer, clearing>>

\* drain_local takes a snapshot of the table,
HouseStarts ==
  /\ HouseAt("rest")
  /\ house' = [pc |-> "drain", left |-> table]
  /\ UNCHANGED <<drainer, table, NotHousekeeping>>

\* and drains its records one by one.
HouseVisits(c) ==
  /\ HouseAt("drain") /\ c \in house.left
  /\ house' = [house EXCEPT !.left = @ \ {c}]
  /\ drainer' = [drainer EXCEPT ![House] = Draining(c)]
  /\ UNCHANGED <<table, NotHousekeeping>>

\* sweep_recency: closed records go, and those not seen for a day.
Swept(stale) == stale \cup {c \in table : ended[c]}

HouseSweeps ==
  /\ HouseAt("drain") /\ house.left = {}
  /\ \E stale \in SUBSET {c \in table : ~ended[c]} : table' = table \ Swept(stale)
  /\ house' = [house EXCEPT !.pc = "rest"]
  /\ UNCHANGED <<drainer, NotHousekeeping>>
-----------------------------------------------------------------------------
(* The web interface. *)

NotWeb == <<life, bytes, taken, ended, srcIndex, drainer, house>>

\* close_one and close_all drop the senders; the records stay.
CloseOne(c) ==
  /\ c \in registry /\ registry' = registry \ {c}
  /\ UNCHANGED <<table, totals, cleared, viewer, clearing, NotWeb>>

CloseAll ==
  /\ registry # {} /\ registry' = {}
  /\ UNCHANGED <<table, totals, cleared, viewer, clearing, NotWeb>>

\* WebTraffic::clear, and maybe_clean once a month: the table, then the totals.
ClearsTable ==
  /\ ~clearing /\ clearing' = TRUE
  /\ table' = {}
  /\ UNCHANGED <<registry, totals, cleared, viewer, NotWeb>>

ClearsTotals ==
  /\ clearing /\ clearing' = FALSE
  /\ totals' = 0
  /\ cleared' = cleared + totals
  /\ UNCHANGED <<registry, table, viewer, NotWeb>>

\* connections_snapshot: the table, then live_totals: the totals, and for each
\* record what it holds beyond them.
NotViewing == <<registry, table, totals, cleared, clearing, NotWeb>>

ViewStarts ==
  /\ viewer.pc = "idle"
  /\ viewer' = [viewer EXCEPT !.pc = "totals", !.left = table]
  /\ UNCHANGED NotViewing

ViewTotals ==
  /\ viewer.pc = "totals"
  /\ viewer' = [viewer EXCEPT !.pc = "next", !.shown = totals, !.base = cleared]
  /\ UNCHANGED NotViewing

\* The counter is read first, what is drained of it second.
ViewLoads(c) ==
  /\ viewer.pc = "next" /\ c \in viewer.left
  /\ viewer' = [viewer EXCEPT !.pc = c, !.cur = bytes[c], !.left = @ \ {c}]
  /\ UNCHANGED NotViewing

ViewAdds(c) ==
  /\ viewer.pc = c
  /\ viewer' = [viewer EXCEPT !.pc = "next", !.cur = 0,
       !.shown = IF viewer.cur > taken[c] THEN @ + viewer.cur - taken[c] ELSE @]
  /\ UNCHANGED NotViewing

ViewEnds ==
  /\ viewer.pc = "next" /\ viewer.left = {}
  /\ viewer' = [viewer EXCEPT !.pc = "shown"]
  /\ UNCHANGED NotViewing

ViewIsGone ==
  /\ viewer.pc = "shown"
  /\ viewer' = Unviewed
  /\ UNCHANGED NotViewing
-----------------------------------------------------------------------------
Drain(d) == LoadLast(d) \/ LoadCur(d) \/ CasLast(d) \/ Accounts(d)

\* What a task does by itself; a client may keep its connection for ever.
TaskStep(c) ==
  \/ Lists(c) \/ Registers(c) \/ Connects(c) \/ Indexes(c) \/ DialFails(c)
  \/ Cancelled(c) \/ Unregisters(c) \/ Unindexes(c) \/ Closes(c)

HouseStep == HouseStarts \/ HouseSweeps \/ \E c \in Served : HouseVisits(c)

View == ViewStarts \/ ViewTotals \/ ViewEnds \/ ViewIsGone \/ \E c \in Served : ViewLoads(c) \/ ViewAdds(c)

TableNext ==
  \/ \E c \in Served : TaskStep(c) \/ Relays(c) \/ RelayEnds(c) \/ CloseOne(c)
  \/ \E d \in Drainers : Drain(d)
  \/ HouseStep
  \/ CloseAll \/ ClearsTable \/ ClearsTotals
  \/ View

TableFair ==
  /\ \A c \in Served : WF_tableVars(TaskStep(c))
  /\ \A d \in Drainers : WF_tableVars(Drain(d))
  /\ WF_tableVars(HouseStep)

TableSpec == TableInit /\ [][TableNext]_tableVars /\ TableFair
-----------------------------------------------------------------------------
\* Types; and a task is in drain_delta only at its end.
TableTypeOK ==
  /\ life \in [Served ->
       [pc : {"away", "listed", "dial", "opened", "relay", "unregister", "unindex", "drain", "gone"},
        port : SrcPorts \cup {Nobody}]]
  /\ bytes \in [Served -> 0 .. MaxBytes]
  /\ taken \in [Served -> 0 .. MaxBytes]
  /\ ended \in [Served -> BOOLEAN]
  /\ table \subseteq Served
  /\ registry \subseteq Served
  /\ srcIndex \in [SrcPorts -> Served \cup {Nobody}]
  /\ drainer \in [Drainers ->
       [pc : {"idle", "last", "cur", "cas", "account"}, of : Served \cup {Nobody},
        prev : 0 .. MaxBytes, now : 0 .. MaxBytes, delta : 0 .. MaxBytes]]
  /\ house \in [pc : {"rest", "drain"}, left : SUBSET Served]
  /\ totals \in Nat /\ cleared \in Nat
  /\ viewer.pc \in {"idle", "totals", "next", "shown"} \cup Served
  /\ clearing \in BOOLEAN
  /\ \A c \in Served : drainer[c].pc # "idle" => InStage(c, "drain")

\* However the last drain of a connection's task and the visits of housekeeping
\* interleave in drain_one, every byte taken from a record is in the totals, or
\* was cleared with them, or is on its way there, exactly once.
CountedOnce ==
  totals + cleared + Total([d \in Drainers |-> drainer[d].delta]) = Total(taken)

\* A connection that is over has been counted to its last byte, also when it was
\* closed from the web interface, or its record had left the table before.
CountedToTheEnd == \A c \in Served : InStage(c, "gone") => taken[c] = bytes[c]

\* While a connection relays, the index that clash_pull uses to name the client
\* behind a local port says it is this connection or says nothing: never the
\* previous owner of the port, though that one removes its entry late.
PortNamesOwner ==
  \A c \in Served : InStage(c, "relay") => srcIndex[life[c].port] \in {c, Nobody}

\* A connection that is over has left neither a sender in the close registry nor
\* an entry in the index of ports, however it ended.
NothingLeft ==
  \A c \in Served : InStage(c, "gone") => c \notin registry /\ \A p \in SrcPorts : srcIndex[p] # c

\* The totals the web interface shows, read while bytes move from records to
\* totals, never exceed what was relayed and not cleared.
NeverOvercounts == viewer.pc = "shown" => viewer.shown + viewer.base <= Total(bytes)

\* A connection closed from the web interface ends, whatever its client does.
Closed(c) == c \in registry \/ life[c].pc \in {"away", "listed", "gone"}
CloseEnds == \A c \in Served : []<>Closed(c)

\* A connection that is over was counted to its last byte, and nothing that names
\* it is left: no sender, and no entry of a port that another one may have by now.
TableSafe == CountedToTheEnd /\ PortNamesOwner /\ NothingLeft

\* No byte is counted twice, neither in the totals nor in what a viewer adds up from
\* totals, counters and drained parts that it reads one after the other.
TableCounts == TableTypeOK /\ CountedOnce /\ NeverOvercounts
=============================================================================
