----------------------------- MODULE UdpEngine -----------------------------
(***************************************************************************)
(* The transparent UDP engines of sniffbox (udp_engine.rs) and the session *)
(* and flow budgets they share (udp_budget.rs).                            *)
(*                                                                         *)
(* A datagram of a LAN peer is dispatched by one of the receive workers to *)
(* a flow (peer, original destination), the flow to a slot: one per flow   *)
(* for symmetric flows, one per peer for full-cone ones.  A slot starts    *)
(* Pending while a spawned opener sets up the upstream relay, queues the   *)
(* datagrams that arrive meanwhile, and becomes Ready when the opener      *)
(* installs the session.  Each session has a reader task that relays the   *)
(* replies and tears the slot down when the upstream goes away; a sweeper  *)
(* reclaims what has been idle.                                            *)
(*                                                                         *)
(* Each action is a stretch of code between two points where another       *)
(* thread of the multi-threaded runtime can step in: a table lock released,*)
(* or an await.  A budget token or permit is a Rust value that gives its   *)
(* unit back when its last owner drops it, so what a budget has in use is  *)
(* the number of live owners, and which tasks own one is spelled out in    *)
(* HoldsPermit.                                                            *)
(***************************************************************************)
EXTENDS Naturals, FiniteSets, Sequences

CONSTANTS
  Peers,        \* LAN socket addresses, each as seen by one engine
  EngineOf,     \* the engine (v4, v6, cloudflared) a peer talks to
  IpOf,         \* the peer's IP address: the client the budgets count
  Internal,     \* the engines whose traffic is the gateway's own
  Dsts,         \* original destinations
  FakeDsts,     \* those inside the FakeIP range
  AnyDst,       \* stands for the destination in a full-cone slot's key
  Workers,      \* receive workers
  WorkerOf,     \* SO_REUSEPORT hashes a flow to one worker
  Opens,        \* names for the session incarnations (opener + session)
  NoOpen,       \* no incarnation
  MaxPkts,      \* bound: datagrams received
  PendingCap,   \* PENDING_QUEUE_CAP
  SessionLimit, \* udp_max_sessions / udp_reserved_sessions, by class
  FlowLimit,    \* 16 times those
  MaxSessionsPerClient,
  MaxFlowsPerClient

Classes == {"user", "internal"}
Kinds == {"Symmetric", "Fullcone"}
Flows == Peers \X Dsts
Keys == [peer : Peers, dst : Dsts \cup {AnyDst}]

ASSUME UdpConstants ==
  /\ Peers # {}
  /\ FakeDsts \subseteq Dsts
  /\ AnyDst \notin Dsts
  /\ NoOpen \notin Opens
  /\ WorkerOf \in [Flows -> Workers]
  /\ MaxPkts \in Nat
  /\ PendingCap \in Nat \ {0}
  /\ SessionLimit \in [Classes -> Nat]
  /\ FlowLimit \in [Classes -> Nat]
  /\ MaxSessionsPerClient \in Nat
  /\ MaxFlowsPerClient \in Nat
  /\ IsFiniteSet(Opens)

VARIABLES
  flow,       \* flow_path: the kind each flow was classified as, or "none"
  slotOwner,  \* the incarnation whose Budgeted{..} sits in the slot table
  slotSess,   \* the session of a Ready slot; NoOpen while it is Pending
  open,       \* the opener task of each incarnation: phase, key, host, direct
  queue,      \* its Pending queue
  queueUp,    \* incarnations whose Pending queue still accepts (is Some)
  flush,      \* the datagrams the opener took out of the queue
  reader,     \* the reader task of each session
  rec,        \* the connection record of each session
  worker,     \* what each receive worker is doing
  sweep,      \* the sweeper task
  pkts,       \* history: the flow of each datagram received
  fwd,        \* history: datagrams handed to an upstream, and how
  robbed      \* history: sessions whose slot another session's reader removed

tables == <<flow, slotOwner, slotSess>>
udpVars == <<tables, open, queue, queueUp, flush, reader, rec, worker, sweep, pkts, fwd, robbed>>
-----------------------------------------------------------------------------
ClassOf(p) == IF EngineOf[p] \in Internal THEN "internal" ELSE "user"

\* ClientBudget is per engine and IP, the shared Budget per IP and class.
SameClient(p, q) == EngineOf[p] = EngineOf[q] /\ IpOf[p] = IpOf[q]
SameSharedClient(p, q) == ClassOf(p) = ClassOf(q) /\ IpOf[p] = IpOf[q]

KeyOf(p, d, kind) == [peer |-> p, dst |-> IF kind = "Symmetric" THEN d ELSE AnyDst]
IsSym(k) == k.dst # AnyDst

SymmetricKeys == {k \in Keys : IsSym(k)}
FullconeKeys == {k \in Keys : ~IsSym(k)}

OpenerLive == {"opening", "failed", "opened", "superseded", "installed", "flushing"}
SessionBuilt == {"opened", "superseded", "installed", "flushing"}

\* Arc<SymmetricSession> / Arc<FullconeSession>: who keeps a session alive.
SessionHeld(o) ==
  \/ \E k \in Keys : slotSess[k] = o
  \/ open[o].phase \in SessionBuilt
  \/ \E w \in Workers : worker[w].pc = "forward" /\ worker[w].open = o

HoldsPermitSlotOnly(o) == \E k \in Keys : slotOwner[k] = o

\* Arc<Permit>: the slot's token, the opener, the session and the reader each
\* own a clone, and the budget unit is returned when the last one is dropped.
HoldsPermit(o) ==
  \/ \E k \in Keys : slotOwner[k] = o
  \/ open[o].phase \in OpenerLive
  \/ SessionHeld(o)
  \/ reader[o] \notin {"none", "gone"}

SessionsUsed(c) == Cardinality({o \in Opens : HoldsPermit(o) /\ ClassOf(open[o].key.peer) = c})
SharedClientSessions(p) ==
  Cardinality({o \in Opens : HoldsPermit(o) /\ SameSharedClient(open[o].key.peer, p)})
ClientSessions(p) == Cardinality({k \in Keys : slotOwner[k] # NoOpen /\ SameClient(k.peer, p)})

FlowsUsed(c) == Cardinality({f \in Flows : flow[f] # "none" /\ ClassOf(f[1]) = c})
SharedClientFlows(p) == Cardinality({f \in Flows : flow[f] # "none" /\ SameSharedClient(f[1], p)})
ClientFlows(p) == Cardinality({f \in Flows : flow[f] # "none" /\ SameClient(f[1], p)})

Minus(a, b) == IF a >= b THEN a - b ELSE 0   \* saturating_sub

\* Budget::acquire_with_headroom for a flow of peer p: a full-cone flow leaves
\* room for as many symmetric flows as there can be sessions.
FlowGranted(p, kind) ==
  LET fc == kind = "Fullcone"
  IN  /\ ClientFlows(p) < IF fc THEN Minus(MaxFlowsPerClient, MaxSessionsPerClient)
                          ELSE MaxFlowsPerClient
      /\ FlowsUsed(ClassOf(p)) < Minus(FlowLimit[ClassOf(p)],
                                       IF fc THEN SessionLimit[ClassOf(p)] ELSE 0)
      /\ SharedClientFlows(p) < Minus(MaxFlowsPerClient,
                                      IF fc THEN MaxSessionsPerClient ELSE 0)

\* session_budget.try_acquire and sessions.acquire.
SessionGranted(p) ==
  /\ ClientSessions(p) < MaxSessionsPerClient
  /\ SessionsUsed(ClassOf(p)) < SessionLimit[ClassOf(p)]
  /\ SharedClientSessions(p) < MaxSessionsPerClient

\* Dropping the last Arc of a session aborts its reader; rd is what the action
\* itself does to the readers.
Settle(rd) ==
  reader' = [o \in Opens |-> IF rd[o] = "running" /\ ~SessionHeld(o)' THEN "aborted" ELSE rd[o]]

Idle == [pc |-> "idle", pkt |-> 0, key |-> [peer |-> CHOOSE p \in Peers : TRUE, dst |-> AnyDst],
         open |-> NoOpen]
NotOpened == [phase |-> "free", key |-> Idle.key, host |-> FALSE, direct |-> FALSE]

UdpInit ==
  /\ flow = [f \in Flows |-> "none"]
  /\ slotOwner = [k \in Keys |-> NoOpen]
  /\ slotSess = [k \in Keys |-> NoOpen]
  /\ open = [o \in Opens |-> NotOpened]
  /\ queue = [o \in Opens |-> <<>>]
  /\ queueUp = {}
  /\ flush = [o \in Opens |-> <<>>]
  /\ reader = [o \in Opens |-> "none"]
  /\ rec = [o \in Opens |-> "none"]
  /\ worker = [w \in Workers |-> Idle]
  /\ sweep = [pc |-> "idle", slots |-> {}, flows |-> {}]
  /\ pkts = <<>>
  /\ fwd = {}
  /\ robbed = {}
-----------------------------------------------------------------------------
(***************************************************************************)
(* The receive workers.                                                    *)
(***************************************************************************)

\* decide_flow_kind: a known flow keeps its kind and is touched; a new one is
\* classified by its destination and first payload, and recorded if the flow
\* budgets allow.  A full-cone flow that gets no budget is served unrecorded.
FlowKind(p, d, quic) ==
  IF flow[<<p, d>>] # "none" THEN flow[<<p, d>>]
  ELSE IF d \in FakeDsts \/ quic THEN "Symmetric" ELSE "Fullcone"

\* dispatch_packet.  A datagram refused by proxy_cidr, block_quic or a tunnel
\* that is not up changes nothing, so refusals are not actions.
Dispatch(w, p, d, quic) ==
  LET f == <<p, d>>
      kind == FlowKind(p, d, quic)
      granted == flow[f] # "none" \/ FlowGranted(p, kind)
  IN  /\ worker[w].pc = "idle"
      /\ WorkerOf[f] = w
      /\ Len(pkts) < MaxPkts
      /\ pkts' = Append(pkts, f)
      /\ flow' = IF granted THEN [flow EXCEPT ![f] = kind] ELSE flow
      /\ sweep' = IF sweep.pc = "flows" THEN [sweep EXCEPT !.flows = @ \ {f}] ELSE sweep
      /\ worker' = IF granted \/ kind = "Fullcone"
                   THEN [worker EXCEPT ![w] = [pc |-> "slot", pkt |-> Len(pkts) + 1,
                                               key |-> KeyOf(p, d, kind), open |-> NoOpen]]
                   ELSE worker
      /\ UNCHANGED <<slotOwner, slotSess, open, queue, queueUp, flush, reader, rec, fwd, robbed>>

\* The shared body of handle_symmetric and handle_fullcone: the slot is Ready
\* (touch it and forward), Pending (queue), or vacant (take a session budget,
\* insert a Pending slot and spawn the opener, or drop the datagram).
ReadySlot(w) ==
  LET k == worker[w].key
  IN  /\ slotSess[k] # NoOpen
      /\ worker' = [worker EXCEPT ![w].pc = "forward", ![w].open = slotSess[k]]
      /\ UNCHANGED <<slotOwner, slotSess, open, queue, queueUp>>

PendingSlot(w) ==
  LET k == worker[w].key
  IN  /\ slotOwner[k] # NoOpen /\ slotSess[k] = NoOpen
      /\ worker' = [worker EXCEPT ![w].pc = "push", ![w].open = slotOwner[k]]
      /\ UNCHANGED <<slotOwner, slotSess, open, queue, queueUp>>

VacantSlot(w) ==
  LET k == worker[w].key
  IN  /\ slotOwner[k] = NoOpen
      /\ worker' = [worker EXCEPT ![w] = Idle]
      /\ UNCHANGED slotSess
      /\ IF SessionGranted(k.peer)
         THEN \E o \in Opens, host \in BOOLEAN :
                /\ open[o].phase = "free"
                /\ host => k.dst \in FakeDsts       \* resolve_fakeip
                /\ slotOwner' = [slotOwner EXCEPT ![k] = o]
                /\ open' = [open EXCEPT ![o] = [phase |-> "opening", key |-> k,
                                                host |-> host, direct |-> FALSE]]
                /\ queue' = [queue EXCEPT ![o] = <<worker[w].pkt>>]
                /\ queueUp' = queueUp \cup {o}
         ELSE UNCHANGED <<slotOwner, open, queue, queueUp>>

FindSlot(w) ==
  /\ worker[w].pc = "slot"
  /\ ReadySlot(w) \/ PendingSlot(w) \/ VacantSlot(w)
  /\ UNCHANGED <<flow, flush, reader, rec, sweep, pkts, fwd, robbed>>

HandleSymmetric(w) == IsSym(worker[w].key) /\ FindSlot(w)
HandleFullcone(w) == ~IsSym(worker[w].key) /\ FindSlot(w)

QueueHasRoom(o) == o \in queueUp /\ Len(queue[o]) < PendingCap

\* Pending::push, on the queue of the slot found Pending: a no-op once the
\* opener has taken or closed the queue.  The byte cap may refuse a datagram
\* before the packet cap does.
Push(w) ==
  LET o == worker[w].open
  IN  /\ worker[w].pc = "push"
      /\ \/ /\ QueueHasRoom(o)
            /\ queue' = [queue EXCEPT ![o] = Append(@, worker[w].pkt)]
         \/ UNCHANGED queue
      /\ worker' = [worker EXCEPT ![w] = Idle]
      /\ UNCHANGED <<tables, open, queueUp, flush, reader, rec, sweep, pkts, fwd, robbed>>

\* forward_symmetric: a direct session sends on a relay connected to the real
\* destination; a socks one by name if it knows one (the QUIC sniffer may learn
\* it now), by address if the destination is real, and otherwise not at all.
ForwardSymmetric(o, n, host) ==
  CASE open[o].direct -> {[pkt |-> n, how |-> "connected"]}
    [] ~open[o].direct /\ host -> {[pkt |-> n, how |-> "domain"]}
    [] ~open[o].direct /\ ~host /\ pkts[n][2] \notin FakeDsts -> {[pkt |-> n, how |-> "address"]}
    [] OTHER -> {}

\* forward_fullcone: always by address.
ForwardFullcone(n) == {[pkt |-> n, how |-> "address"]}

\* One datagram handed to session o.  A symmetric socks session may learn its
\* host from it, whether or not the send then fails.  For a real destination
\* the name or the address reaches the same place, so only the names of fake
\* ones are kept.
LearnHost(o) ==
  \E host \in BOOLEAN :
    /\ open[o].host => host
    /\ open[o].direct \/ open[o].key.dst \notin FakeDsts => host = open[o].host
    /\ open' = [open EXCEPT ![o].host = host]

ForwardOk(o, n) ==
  /\ LearnHost(o)
  /\ fwd' = fwd \cup (IF IsSym(open[o].key) THEN ForwardSymmetric(o, n, open'[o].host)
                      ELSE ForwardFullcone(n))

ForwardErr(o) == LearnHost(o) /\ UNCHANGED fwd

WorkerForward(w) ==
  /\ worker[w].pc = "forward"
  /\ worker' = [worker EXCEPT ![w] = Idle]
  /\ ForwardOk(worker[w].open, worker[w].pkt) \/ ForwardErr(worker[w].open)
  /\ UNCHANGED <<tables, queue, queueUp, flush, rec, sweep, pkts, robbed>>
  /\ Settle(reader)
-----------------------------------------------------------------------------
(***************************************************************************)
(* The opener spawned for a vacant slot.                                   *)
(***************************************************************************)

\* The session is built: its record registered, its reader spawned.
Opened(o, direct) ==
  /\ open[o].phase = "opening"
  /\ open' = [open EXCEPT ![o].phase = "opened", ![o].direct = direct]
  /\ rec' = [rec EXCEPT ![o] = "open"]
  /\ reader' = [reader EXCEPT ![o] = "running"]
  /\ UNCHANGED <<tables, queue, queueUp, flush, worker, sweep, pkts, fwd, robbed>>

OpenSymmetricSession(o) == IsSym(open[o].key) /\ Opened(o, FALSE)

\* A fake destination needs a name to resolve; without one the open fails.
OpenDirectSymmetricSession(o) ==
  /\ IsSym(open[o].key)
  /\ open[o].key.dst \in FakeDsts => open[o].host
  /\ Opened(o, TRUE)

\* Both full-cone relays send by address: which one it is need not be kept.
OpenFullconeSession(o) == ~IsSym(open[o].key) /\ Opened(o, FALSE)
OpenDirectFullconeSession(o) == ~IsSym(open[o].key) /\ Opened(o, FALSE)

\* The upstream refused, timed out, or the spoof socket could not be bound:
\* the queue is closed, then the slot removed if it is still this Pending.
OpenFails(o) ==
  /\ open[o].phase = "opening"
  /\ open' = [open EXCEPT ![o].phase = "failed"]
  /\ queue' = [queue EXCEPT ![o] = <<>>]
  /\ queueUp' = queueUp \ {o}
  /\ UNCHANGED <<tables, flush, reader, rec, worker, sweep, pkts, fwd, robbed>>

StillPendingAnyOwner(o) == slotOwner[open[o].key] # NoOpen /\ slotSess[open[o].key] = NoOpen
\* Arc::ptr_eq: the slot still holds this opener's own Pending.
StillPending(o) == slotOwner[open[o].key] = o /\ slotSess[open[o].key] = NoOpen

RemoveFailed(o) ==
  LET k == open[o].key
      mine == StillPending(o)
  IN  /\ open[o].phase = "failed"
      /\ open' = [open EXCEPT ![o].phase = "ended"]
      /\ slotOwner' = IF mine THEN [slotOwner EXCEPT ![k] = NoOpen] ELSE slotOwner
      /\ UNCHANGED <<flow, slotSess, queue, queueUp, flush, reader, rec, worker,
                     sweep, pkts, fwd, robbed>>

\* The slot becomes Ready only if it still holds this very Pending.
Install(o) ==
  LET k == open[o].key
      mine == StillPending(o)
  IN  /\ open[o].phase = "opened"
      /\ open' = [open EXCEPT ![o].phase = IF mine THEN "installed" ELSE "superseded"]
      /\ slotSess' = IF mine THEN [slotSess EXCEPT ![k] = o] ELSE slotSess
      /\ UNCHANGED <<flow, slotOwner, queue, queueUp, flush, reader, rec,
                     worker, sweep, pkts, fwd, robbed>>

\* A superseded session closes its record and is dropped with its queue.
Superseded(o) ==
  /\ open[o].phase = "superseded"
  /\ open' = [open EXCEPT ![o].phase = "ended"]
  /\ rec' = [rec EXCEPT ![o] = "closed"]
  /\ queue' = [queue EXCEPT ![o] = <<>>]
  /\ queueUp' = queueUp \ {o}
  /\ UNCHANGED <<tables, flush, worker, sweep, pkts, fwd, robbed>>
  /\ Settle(reader)

\* Pending::take.
TakeQueue(o) ==
  /\ open[o].phase = "installed"
  /\ open' = [open EXCEPT ![o].phase = "flushing"]
  /\ flush' = [flush EXCEPT ![o] = queue[o]]
  /\ queue' = [queue EXCEPT ![o] = <<>>]
  /\ queueUp' = queueUp \ {o}
  /\ UNCHANGED <<tables, reader, rec, worker, sweep, pkts, fwd, robbed>>

FlushQueuedKeepsHead(o) ==
  /\ open[o].phase = "flushing" /\ flush[o] # <<>>
  /\ ForwardOk(o, Head(flush[o]))
  /\ UNCHANGED <<tables, queue, queueUp, flush, reader, rec, worker, sweep, pkts, robbed>>

\* The queued datagrams are forwarded in order; a failed send gives up the rest.
FlushQueued(o) ==
  /\ open[o].phase = "flushing" /\ flush[o] # <<>>
  /\ \/ ForwardOk(o, Head(flush[o])) /\ flush' = [flush EXCEPT ![o] = Tail(@)]
     \/ ForwardErr(o) /\ flush' = [flush EXCEPT ![o] = <<>>]
  /\ UNCHANGED <<tables, queue, queueUp, reader, rec, worker, sweep, pkts, robbed>>

OpenerEnds(o) ==
  /\ open[o].phase = "flushing" /\ flush[o] = <<>>
  /\ open' = [open EXCEPT ![o].phase = "ended"]
  /\ UNCHANGED <<tables, queue, queueUp, flush, rec, worker, sweep, pkts, fwd, robbed>>
  /\ Settle(reader)
-----------------------------------------------------------------------------
(***************************************************************************)
(* The reader of a session.  Its tail removes whatever is in its slot.     *)
(***************************************************************************)

\* The relay socket failed or the SOCKS5 control connection was closed.
ReaderBreaks(o) ==
  /\ reader[o] = "running"
  /\ reader' = [reader EXCEPT ![o] = "tailSlot"]
  /\ UNCHANGED <<tables, open, queue, queueUp, flush, rec, worker, sweep, pkts, fwd, robbed>>

\* Removing slot k drops its token and, if Ready, its Arc of the session.
RemoveSlot(k) ==
  /\ slotOwner' = [slotOwner EXCEPT ![k] = NoOpen]
  /\ slotSess' = [slotSess EXCEPT ![k] = NoOpen]

ReaderRemovesSlot(o) ==
  LET k == open[o].key
  IN  /\ reader[o] = "tailSlot"
      /\ RemoveSlot(k)
      /\ robbed' = robbed \cup ({slotSess[k]} \ {o, NoOpen})
      /\ UNCHANGED <<flow, open, queue, queueUp, flush, rec, worker, sweep, pkts, fwd>>
      /\ Settle([reader EXCEPT ![o] = "tailFlow"])

ReaderRemovesFlows(o) ==
  LET k == open[o].key
      gone == IF IsSym(k) THEN {<<k.peer, k.dst>>}
              ELSE {f \in Flows : f[1] = k.peer /\ flow[f] = "Fullcone"}
  IN  /\ reader[o] = "tailFlow"
      /\ flow' = [f \in Flows |-> IF f \in gone THEN "none" ELSE flow[f]]
      /\ reader' = [reader EXCEPT ![o] = "tailRec"]
      /\ UNCHANGED <<slotOwner, slotSess, open, queue, queueUp, flush, rec, worker,
                     sweep, pkts, fwd, robbed>>

ReaderClosesRecord(o) ==
  /\ reader[o] = "tailRec"
  /\ rec' = [rec EXCEPT ![o] = "closed"]
  /\ reader' = [reader EXCEPT ![o] = "gone"]
  /\ UNCHANGED <<tables, open, queue, queueUp, flush, worker, sweep, pkts, fwd, robbed>>

\* JoinHandle::abort takes effect when the runtime next polls the task.
ReaderDropped(o) ==
  /\ reader[o] = "aborted"
  /\ reader' = [reader EXCEPT ![o] = "gone"]
  /\ UNCHANGED <<tables, open, queue, queueUp, flush, rec, worker, sweep, pkts, fwd, robbed>>
-----------------------------------------------------------------------------
(***************************************************************************)
(* The sweeper (sweep_idle) lists the idle symmetric slots and removes     *)
(* them one by one with their flow entry, then the idle full-cone slots,   *)
(* then the idle flow entries.  An idle slot is removed even if it was     *)
(* touched after the listing; a flow entry is checked again, and Dispatch  *)
(* takes the one it touches off the list.  Which entries have been idle    *)
(* for as long as their class allows is the sweep's nondeterminism.        *)
(***************************************************************************)
SlotsIn(keys) == {k \in keys : slotOwner[k] # NoOpen}
FlowsIn == {f \in Flows : flow[f] # "none"}

SweepLists(pc, next, slots, flows) ==
  /\ sweep.pc = pc /\ sweep.slots = {} /\ sweep.flows = {}
  /\ sweep' = [pc |-> next, slots |-> slots, flows |-> flows]
  /\ UNCHANGED <<tables, open, queue, queueUp, flush, reader, rec, worker, pkts, fwd, robbed>>

SweepBegins(idle) == SweepLists("idle", "symmetric", idle, {})
SweepListsFullcone(idle) == SweepLists("symmetric", "fullcone", idle, {})
SweepListsFlows(idle) == SweepLists("fullcone", "flows", {}, idle)
SweepEnds == SweepLists("flows", "idle", {}, {})

\* The slot goes, its session's record is closed; a symmetric slot's flow
\* entry is removed next.
SweepSlot(k) ==
  /\ sweep.pc \in {"symmetric", "fullcone"} /\ k \in sweep.slots /\ sweep.flows = {}
  /\ RemoveSlot(k)
  /\ rec' = IF slotSess[k] = NoOpen THEN rec ELSE [rec EXCEPT ![slotSess[k]] = "closed"]
  /\ sweep' = [sweep EXCEPT !.slots = @ \ {k},
                            !.flows = IF IsSym(k) THEN {<<k.peer, k.dst>>} ELSE {}]
  /\ UNCHANGED <<flow, open, queue, queueUp, flush, worker, pkts, fwd, robbed>>
  /\ Settle(reader)

SweepFlow(f) ==
  /\ f \in sweep.flows
  /\ flow' = [flow EXCEPT ![f] = "none"]
  /\ sweep' = [sweep EXCEPT !.flows = @ \ {f}]
  /\ UNCHANGED <<slotOwner, slotSess, open, queue, queueUp, flush, reader, rec,
                 worker, pkts, fwd, robbed>>
-----------------------------------------------------------------------------
WorkerStep(w) == HandleSymmetric(w) \/ HandleFullcone(w) \/ Push(w) \/ WorkerForward(w)

OpenerStep(o) ==
  \/ OpenSymmetricSession(o) \/ OpenDirectSymmetricSession(o)
  \/ OpenFullconeSession(o) \/ OpenDirectFullconeSession(o)
  \/ OpenFails(o) \/ RemoveFailed(o)
  \/ Install(o) \/ Superseded(o) \/ TakeQueue(o) \/ FlushQueued(o) \/ OpenerEnds(o)

ReaderTail(o) ==
  ReaderRemovesSlot(o) \/ ReaderRemovesFlows(o) \/ ReaderClosesRecord(o) \/ ReaderDropped(o)

SweepStep ==
  \/ \E idle \in SUBSET SlotsIn(SymmetricKeys) : SweepBegins(idle)
  \/ \E idle \in SUBSET SlotsIn(FullconeKeys) : SweepListsFullcone(idle)
  \/ \E idle \in SUBSET FlowsIn : SweepListsFlows(idle)
  \/ SweepEnds
  \/ \E k \in Keys : SweepSlot(k)
  \/ \E f \in Flows : SweepFlow(f)

UdpNext ==
  \/ \E w \in Workers, p \in Peers, d \in Dsts, quic \in BOOLEAN : Dispatch(w, p, d, quic)
  \/ \E w \in Workers : WorkerStep(w)
  \/ \E o \in Opens : OpenerStep(o) \/ ReaderBreaks(o) \/ ReaderTail(o)
  \/ SweepStep

UdpSpec == UdpInit /\ [][UdpNext]_udpVars

(***************************************************************************)
(* Fairness: spawned tasks are polled until they end and every upstream    *)
(* open ends by itself (ASSOCIATE_TIMEOUT); the sweeper ticks every five   *)
(* seconds, and what is never touched ages, so again and again a listing   *)
(* finds everything idle.  Clients owe nothing, and an upstream need never *)
(* hang up.                                                                *)
(***************************************************************************)
UdpFair ==
  /\ \A w \in Workers : WF_udpVars(WorkerStep(w))
  /\ \A o \in Opens : WF_udpVars(OpenerStep(o)) /\ WF_udpVars(ReaderTail(o))
  /\ WF_udpVars(SweepStep)
  /\ SF_udpVars(SweepBegins(SlotsIn(SymmetricKeys)))
  /\ SF_udpVars(SweepListsFullcone(SlotsIn(FullconeKeys)))
  /\ SF_udpVars(SweepListsFlows(FlowsIn))

UdpFairSpec == UdpSpec /\ UdpFair
-----------------------------------------------------------------------------
(***************************************************************************)
(* Properties.                                                             *)
(***************************************************************************)
\* Types of the tables and tasks; a Pending queue never exceeds its cap.
UdpTypeOK ==
  /\ flow \in [Flows -> Kinds \cup {"none"}]
  /\ slotOwner \in [Keys -> Opens \cup {NoOpen}]
  /\ slotSess \in [Keys -> Opens \cup {NoOpen}]
  /\ open \in [Opens -> [phase : OpenerLive \cup {"free", "ended"}, key : Keys,
                         host : BOOLEAN, direct : BOOLEAN]]
  /\ queue \in [Opens -> Seq(1 .. MaxPkts)] /\ \A o \in Opens : Len(queue[o]) <= PendingCap
  /\ queueUp \subseteq Opens
  /\ flush \in [Opens -> Seq(1 .. MaxPkts)]
  /\ reader \in [Opens -> {"none", "running", "aborted", "tailSlot", "tailFlow", "tailRec", "gone"}]
  /\ rec \in [Opens -> {"none", "open", "closed"}]
  /\ worker \in [Workers -> [pc : {"idle", "slot", "push", "forward"}, pkt : 0 .. MaxPkts,
                             key : Keys, open : Opens \cup {NoOpen}]]
  /\ sweep \in [pc : {"idle", "symmetric", "fullcone", "flows"},
                slots : SUBSET Keys, flows : SUBSET Flows]
  /\ pkts \in Seq(Flows) /\ Len(pkts) <= MaxPkts
  /\ fwd \subseteq [pkt : 1 .. MaxPkts, how : {"connected", "domain", "address"}]
  /\ robbed \subseteq Opens

\* Incarnation o owns, or is setting up, upstream sockets.
HasSocket(o) ==
  \/ open[o].phase \in SessionBuilt \cup {"opening"}
  \/ SessionHeld(o)
  \/ reader[o] \in {"running", "aborted", "tailSlot", "tailFlow", "tailRec"}

\* However fast slots are swept, torn down and opened again, the upstream
\* sockets of each class (handshakes in progress and readers not yet dropped
\* included) stay within the shared session quota: users can never eat the
\* room reserved for the gateway's own traffic, nor one client exceed its share.
SocketsWithinQuota ==
  /\ \A c \in Classes :
       Cardinality({o \in Opens : HasSocket(o) /\ ClassOf(open[o].key.peer) = c}) <= SessionLimit[c]
  /\ \A p \in Peers :
       Cardinality({o \in Opens : HasSocket(o) /\ SameSharedClient(open[o].key.peer, p)})
         <= MaxSessionsPerClient

\* A late opener never installs its session over another incarnation's Pending
\* slot, whose budget token it would then hold.
InstalledByOwner == \A k \in Keys : slotSess[k] # NoOpen => slotSess[k] = slotOwner[k]

\* A datagram parked in a Pending queue always has an opener that will still
\* take, close or drop that queue: none is left behind by a push that comes
\* after the opener is done with it.
NoStuckPackets ==
  \A o \in Opens : queue[o] # <<>> => open[o].phase \in {"opening", "opened", "installed", "superseded"}

\* Where datagram n is: with a worker, at a position of a queue, or sent.
Places(n) ==
  {<<"worker", w, 0>> : w \in {w \in Workers : worker[w].pc # "idle" /\ worker[w].pkt = n}}
    \cup {<<"queue", x[1], x[2]>> : x \in {x \in Opens \X (1 .. MaxPkts) :
                                             x[2] <= Len(queue[x[1]]) /\ queue[x[1]][x[2]] = n}}
    \cup {<<"flush", x[1], x[2]>> : x \in {x \in Opens \X (1 .. MaxPkts) :
                                             x[2] <= Len(flush[x[1]]) /\ flush[x[1]][x[2]] = n}}
    \cup {<<"fwd", x.how, 0>> : x \in {x \in fwd : x.pkt = n}}

\* A datagram is never in two places: queued and forwarded, queued twice, or
\* sent twice, whatever the worker, the opener and the sweeper interleave.
OnePlacePerPacket == \A n \in 1 .. MaxPkts : Cardinality(Places(n)) <= 1

\* The fake address of a FakeIP destination is never sent to an upstream: such
\* a datagram travels by name, on a relay connected to the resolved address, or
\* is dropped; in particular its flow is never served by a full-cone session.
NoFakeAddressUpstream ==
  \A x \in fwd : x.how = "address" => pkts[x.pkt][2] \notin FakeDsts

\* A record that is still open always has someone left to close it (the table
\* entry the sweeper or the reader will take out, an opener that finds itself
\* superseded, or the reader's tail) except in one case: another session's
\* reader removed the slot, because its tail does not check whose slot it is.
RecordHasCloser ==
  \A o \in Opens : rec[o] = "open" =>
    \/ \E k \in Keys : slotSess[k] = o
    \/ open[o].phase \in {"opened", "superseded"}
    \/ reader[o] \in {"tailSlot", "tailFlow", "tailRec"}
    \/ o \in robbed

\* When clients fall silent everything is given back: all slots and flow
\* entries are reclaimed and every session permit is returned.
AllReturned ==
  /\ \A k \in Keys : slotOwner[k] = NoOpen
  /\ \A f \in Flows : flow[f] = "none"
  /\ \A c \in Classes : SessionsUsed(c) = 0
Drained == <>[]AllReturned

\* Slots, sessions and records belong together: a session is only in the slot its
\* own opener made, and an open record has someone left to close it.
SlotsOwned == UdpTypeOK /\ InstalledByOwner /\ RecordHasCloser

\* A datagram is in one place, with someone who will take it from there, and never
\* leaves under a fake address.
PacketsSafe == NoStuckPackets /\ OnePlacePerPacket /\ NoFakeAddressUpstream

=============================================================================
