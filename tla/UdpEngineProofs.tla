--------------------------- MODULE UdpEngineProofs ---------------------------
(***************************************************************************)
(* For any peers, destinations, workers, incarnations and limits: slots,   *)
(* sessions and records belong together; a datagram is in one place, with  *)
(* someone who will take it from there, and never leaves under a fake      *)
(* address; and the upstream sockets stay within the session quota.        *)
(*                                                                         *)
(* The invariant has four parts: types, who points to whom, what the       *)
(* datagrams are, and where they are.  That each part is kept is a lemma   *)
(* of its own, which may use all of them.                                  *)
(***************************************************************************)
EXTENDS UdpEngine, FiniteSetTheorems, TLAPS

\* The types of UdpTypeOK.
Phases == OpenerLive \cup {"free", "ended"}
Incarnations == [phase : Phases, key : Keys, host : BOOLEAN, direct : BOOLEAN]
ReaderStates == {"none", "running", "aborted", "tailSlot", "tailFlow", "tailRec", "gone"}
Chores == [pc : {"idle", "slot", "push", "forward"}, pkt : 0 .. MaxPkts,
           key : Keys, open : Opens \cup {NoOpen}]
Sweeps == [pc : {"idle", "symmetric", "fullcone", "flows"}, slots : SUBSET Keys, flows : SUBSET Flows]
Sendings == [pkt : 1 .. MaxPkts, how : {"connected", "domain", "address"}]

TablesTyped ==
  /\ flow \in [Flows -> Kinds \cup {"none"}]
  /\ slotOwner \in [Keys -> Opens \cup {NoOpen}] /\ slotSess \in [Keys -> Opens \cup {NoOpen}]
QueuesTyped ==
  /\ queue \in [Opens -> Seq(1 .. MaxPkts)] /\ \A o \in Opens : Len(queue[o]) <= PendingCap
  /\ queueUp \subseteq Opens
  /\ flush \in [Opens -> Seq(1 .. MaxPkts)]
ReadersTyped == reader \in [Opens -> ReaderStates] /\ rec \in [Opens -> {"none", "open", "closed"}]
HistoryTyped == pkts \in Seq(Flows) /\ Len(pkts) <= MaxPkts /\ fwd \subseteq Sendings /\ robbed \subseteq Opens

\* A busy worker has a datagram that was received.
Typed == UdpTypeOK /\ \A w \in Workers : worker[w].pc # "idle" => worker[w].pkt \in 1 .. Len(pkts)

\* The tables and the workers name incarnations that have begun, under their own key.
Known(o, k) == o \in Opens /\ open[o].phase # "free" /\ open[o].key = k
SlotLinks == \A k \in Keys : slotOwner[k] # NoOpen => Known(slotOwner[k], k)
WorkerLinks ==
  \A w \in Workers : worker[w].pc \in {"push", "forward"} => Known(worker[w].open, worker[w].key)

\* Only an opener that is not done has a queue that accepts, or datagrams to flush.
Accepting == {"opening", "opened", "installed", "superseded"}
QueueLinks ==
  /\ \A o \in Opens : queue[o] # <<>> => o \in queueUp
  /\ \A o \in queueUp : open[o].phase \in Accepting
  /\ \A o \in Opens : flush[o] # <<>> => open[o].phase = "flushing"

Linked == InstalledByOwner /\ SlotLinks /\ WorkerLinks /\ QueueLinks

\* Datagram n was received, and a full-cone key never carries one to a fake address.
Fits(n, k) == n \in 1 .. Len(pkts) /\ (~IsSym(k) => pkts[n][2] \notin FakeDsts)
FlowsFit == \A f \in Flows : flow[f] = "Fullcone" => f[2] \notin FakeDsts
WorkersFit == \A w \in Workers : worker[w].pc # "idle" => Fits(worker[w].pkt, worker[w].key)
QueuesFit == \A o \in Opens : \A i \in 1 .. Len(queue[o]) : Fits(queue[o][i], open[o].key)
FlushesFit == \A o \in Opens : \A i \in 1 .. Len(flush[o]) : Fits(flush[o][i], open[o].key)
SentFit == \A x \in fwd : x.pkt \in 1 .. Len(pkts) /\ (x.how = "address" => pkts[x.pkt][2] \notin FakeDsts)
AllFit == FlowsFit /\ WorkersFit /\ QueuesFit /\ FlushesFit /\ SentFit

\* Where datagram n is: Places, without the bound on the positions.
WorkerSpots(n) == {<<"worker", w, 0>> : w \in {w \in Workers : worker[w].pc # "idle" /\ worker[w].pkt = n}}
QueueSpots(n) ==
  UNION {{<<"queue", o, i>> : i \in {i \in 1 .. Len(queue[o]) : queue[o][i] = n}} : o \in Opens}
FlushSpots(n) ==
  UNION {{<<"flush", o, i>> : i \in {i \in 1 .. Len(flush[o]) : flush[o][i] = n}} : o \in Opens}
SentSpots(n) == {<<"fwd", x.how, 0>> : x \in {x \in fwd : x.pkt = n}}
Spots(n) == WorkerSpots(n) \cup QueueSpots(n) \cup FlushSpots(n) \cup SentSpots(n)

\* Two places of a datagram are the same place.
OneSpot(n) == \A a, b \in Spots(n) : a = b
Apart == \A n \in 1 .. MaxPkts : OneSpot(n)
-----------------------------------------------------------------------------
(***************************************************************************)
(* The steps, and what several of them share.                              *)
(***************************************************************************)

\* Every step of the engine is one of these.
LEMMA UdpSteps ==
  ASSUME UdpNext
  PROVE  \/ \E w \in Workers, p \in Peers, d \in Dsts, quic \in BOOLEAN : Dispatch(w, p, d, quic)
         \/ \E w \in Workers : FindSlot(w) \/ Push(w) \/ WorkerForward(w)
         \/ \E o \in Opens : \/ Opened(o, TRUE) \/ Opened(o, FALSE)
                             \/ OpenFails(o) \/ RemoveFailed(o) \/ Install(o) \/ Superseded(o)
                             \/ TakeQueue(o) \/ FlushQueued(o) \/ OpenerEnds(o)
                             \/ ReaderBreaks(o) \/ ReaderRemovesSlot(o) \/ ReaderRemovesFlows(o)
                             \/ ReaderClosesRecord(o) \/ ReaderDropped(o)
         \/ \E idle \in SUBSET Keys : \/ SweepLists("idle", "symmetric", idle, {})
                                      \/ SweepLists("symmetric", "fullcone", idle, {})
         \/ \E idle \in SUBSET Flows : SweepLists("fullcone", "flows", {}, idle)
         \/ SweepLists("flows", "idle", {}, {})
         \/ \E k \in Keys : SweepSlot(k)
         \/ \E f \in Flows : SweepFlow(f)
<1>1. CASE \E w \in Workers, p \in Peers, d \in Dsts, quic \in BOOLEAN : Dispatch(w, p, d, quic)
  BY <1>1
<1>2. CASE \E w \in Workers : WorkerStep(w)
  BY <1>2, Zenon DEF WorkerStep, HandleSymmetric, HandleFullcone
<1>3. CASE \E o \in Opens : OpenerStep(o) \/ ReaderBreaks(o) \/ ReaderTail(o)
  <2>1. PICK o \in Opens : OpenerStep(o) \/ ReaderBreaks(o) \/ ReaderTail(o)
    BY <1>3
  <2>2. CASE OpenerStep(o)
    BY <2>2, Zenon DEF OpenerStep, OpenSymmetricSession, OpenDirectSymmetricSession,
                       OpenFullconeSession, OpenDirectFullconeSession
  <2>3. CASE ReaderBreaks(o)
    BY <2>3
  <2>4. CASE ReaderTail(o)
    BY <2>4, Zenon DEF ReaderTail
  <2>5. QED
    BY <2>1, <2>2, <2>3, <2>4
<1>4. CASE SweepStep
  <2>1. SlotsIn(SymmetricKeys) \subseteq Keys /\ SlotsIn(FullconeKeys) \subseteq Keys /\ FlowsIn \subseteq Flows
    BY DEF SlotsIn, SymmetricKeys, FullconeKeys, FlowsIn
  <2>2. QED
    BY <1>4, <2>1, Zenon DEF SweepStep, SweepBegins, SweepListsFullcone, SweepListsFlows, SweepEnds
<1>5. QED
  BY <1>1, <1>2, <1>3, <1>4 DEF UdpNext

\* What dropping sessions does to the readers: a running one may be aborted.
LEMMA SettleAborts ==
  ASSUME NEW rd, Settle(rd)
  PROVE  /\ DOMAIN reader' = Opens /\ reader' = [o \in Opens |-> reader'[o]]
         /\ \A o \in Opens : reader'[o] = rd[o] \/ (rd[o] = "running" /\ reader'[o] = "aborted")
BY DEF Settle

\* The type invariant by its parts.
LEMMA TypeParts ==
  UdpTypeOK <=> /\ TablesTyped /\ QueuesTyped /\ ReadersTyped /\ HistoryTyped
                /\ open \in [Opens -> Incarnations]
                /\ worker \in [Workers -> Chores]
                /\ sweep \in Sweeps
BY DEF UdpTypeOK, TablesTyped, QueuesTyped, ReadersTyped, HistoryTyped, Incarnations, Phases,
       Chores, Sweeps, ReaderStates, Sendings

\* An opener goes on to another phase.
LEMMA PhaseOnly ==
  ASSUME UdpTypeOK, NEW o \in Opens, NEW ph \in Phases, open' = [open EXCEPT ![o].phase = ph]
  PROVE  /\ open' \in [Opens -> Incarnations]
         /\ \A p \in Opens : /\ open'[p].phase = IF p = o THEN ph ELSE open[p].phase
                             /\ open'[p].key = open[p].key
<1>1. open \in [Opens -> Incarnations]
  BY TypeParts
<1> DEFINE moved == [open[o] EXCEPT !.phase = ph]
<1>2. moved \in Incarnations /\ moved.phase = ph /\ moved.key = open[o].key
  BY <1>1 DEF Incarnations
<1>3. open' = [open EXCEPT ![o] = moved]
  BY <1>1
<1> HIDE DEF moved
<1>4. open' \in [Opens -> Incarnations] /\ \A p \in Opens : open'[p] = IF p = o THEN moved ELSE open[p]
  BY <1>1, <1>2, <1>3
<1>5. QED
  BY <1>2, <1>4

\* The session is built.
LEMMA OpenedOnly ==
  ASSUME UdpTypeOK, NEW o \in Opens, NEW direct \in BOOLEAN, Opened(o, direct)
  PROVE  /\ open' \in [Opens -> Incarnations]
         /\ \A p \in Opens : /\ open'[p].phase = IF p = o THEN "opened" ELSE open[p].phase
                             /\ open'[p].key = open[p].key
<1>1. open \in [Opens -> Incarnations]
  BY TypeParts
<1> DEFINE moved == [open[o] EXCEPT !.phase = "opened", !.direct = direct]
<1>2. moved \in Incarnations /\ moved.phase = "opened" /\ moved.key = open[o].key
  BY <1>1 DEF Incarnations, Phases, OpenerLive
<1>3. open' = [open EXCEPT ![o] = moved]
  BY <1>1 DEF Opened
<1> HIDE DEF moved
<1>4. open' \in [Opens -> Incarnations] /\ \A p \in Opens : open'[p] = IF p = o THEN moved ELSE open[p]
  BY <1>1, <1>2, <1>3
<1>5. QED
  BY <1>2, <1>4

\* Forwarding changes at most the host of the session.
LEMMA LearnHostOnly ==
  ASSUME UdpTypeOK, NEW o \in Opens, LearnHost(o)
  PROVE  /\ open' \in [Opens -> Incarnations]
         /\ \A p \in Opens : open'[p].phase = open[p].phase /\ open'[p].key = open[p].key
<1>1. open \in [Opens -> Incarnations]
  BY TypeParts
<1>2. PICK host \in BOOLEAN : open' = [open EXCEPT ![o].host = host]
  BY DEF LearnHost
<1> DEFINE learnt == [open[o] EXCEPT !.host = host]
<1>3. learnt \in Incarnations /\ learnt.phase = open[o].phase /\ learnt.key = open[o].key
  BY <1>1 DEF Incarnations
<1>4. open' = [open EXCEPT ![o] = learnt]
  BY <1>1, <1>2
<1> HIDE DEF learnt
<1>5. open' \in [Opens -> Incarnations] /\ \A p \in Opens : open'[p] = IF p = o THEN learnt ELSE open[p]
  BY <1>1, <1>3, <1>4
<1>6. QED
  BY <1>3, <1>5

\* Forwarding datagram n sends at most that datagram, by address only if that is real.
LEMMA ForwardSends ==
  ASSUME NEW o, NEW n, ForwardOk(o, n) \/ ForwardErr(o)
  PROVE  /\ LearnHost(o)
         /\ \/ fwd' = fwd
            \/ \E how \in {"connected", "domain", "address"} :
                 /\ fwd' = fwd \cup {[pkt |-> n, how |-> how]}
                 /\ how = "address" => ~IsSym(open[o].key) \/ pkts[n][2] \notin FakeDsts
<1>1. CASE ForwardErr(o)
  BY <1>1 DEF ForwardErr
<1>2. CASE ForwardOk(o, n)
  <2>1. CASE IsSym(open[o].key)
    BY <1>2, <2>1 DEF ForwardOk, ForwardSymmetric
  <2>2. CASE ~IsSym(open[o].key)
    BY <1>2, <2>2 DEF ForwardOk, ForwardFullcone
  <2>3. QED
    BY <2>1, <2>2
<1>3. QED
  BY <1>1, <1>2

\* Forwarding keeps the history of what was sent typed.
LEMMA ForwardTyped ==
  ASSUME NEW o, NEW n \in 1 .. MaxPkts, ForwardOk(o, n) \/ ForwardErr(o), fwd \subseteq Sendings
  PROVE  LearnHost(o) /\ fwd' \subseteq Sendings
<1>1. \A how \in {"connected", "domain", "address"} : [pkt |-> n, how |-> how] \in Sendings
  BY DEF Sendings
<1>2. QED
  BY <1>1, ForwardSends

\* What is taken from the front of a list of datagrams, and what is left.
LEMMA FirstAndRest ==
  ASSUME NEW S, NEW s \in Seq(S), s # <<>>
  PROVE  /\ Head(s) \in S /\ Tail(s) \in Seq(S)
         /\ Len(s) \in Nat \ {0} /\ Head(s) = s[1]
         /\ Len(Tail(s)) = Len(s) - 1 /\ \A i \in 1 .. Len(Tail(s)) : Tail(s)[i] = s[i + 1]
OBVIOUS

\* What is appended comes last.
LEMMA LastAdded ==
  ASSUME NEW S, NEW s \in Seq(S), NEW n \in S
  PROVE  \A i \in 1 .. Len(Append(s, n)) :
           \/ i \in 1 .. Len(s) /\ Append(s, n)[i] = s[i]
           \/ i = Len(Append(s, n)) /\ Append(s, n)[i] = n
OBVIOUS

\* A key of a received datagram's flow is a key, full-cone only for a real destination.
LEMMA KeyFits ==
  ASSUME UdpTypeOK, FlowsFit, NEW p \in Peers, NEW d \in Dsts, NEW quic \in BOOLEAN
  PROVE  /\ FlowKind(p, d, quic) \in Kinds
         /\ KeyOf(p, d, FlowKind(p, d, quic)) \in Keys
         /\ FlowKind(p, d, quic) = "Fullcone" => d \notin FakeDsts
         /\ ~IsSym(KeyOf(p, d, FlowKind(p, d, quic))) => d \notin FakeDsts
<1>1. <<p, d>> \in Flows
  BY DEF Flows
<1>2. FlowKind(p, d, quic) \in Kinds
  BY <1>1 DEF FlowKind, UdpTypeOK, Kinds
<1>3. FlowKind(p, d, quic) = "Fullcone" => d \notin FakeDsts
  BY <1>1 DEF FlowKind, FlowsFit
<1>4. QED
  BY <1>2, <1>3, UdpConstants DEF KeyOf, Keys, IsSym, Kinds
-----------------------------------------------------------------------------
(***************************************************************************)
(* Types.                                                                  *)
(***************************************************************************)

\* The engine starts typed.
LEMMA InitTyped == UdpInit => Typed
<1>1. ASSUME UdpInit PROVE Typed
  <2>1. Idle.key \in Keys /\ Idle.pc = "idle"
    BY UdpConstants DEF Idle, Keys
  <2>2. Idle \in Chores
    BY <2>1, UdpConstants DEF Idle, Chores
  <2>3. NotOpened \in Incarnations
    BY <2>1 DEF NotOpened, Incarnations, Phases
  <2>4. sweep \in Sweeps
    BY <1>1 DEF UdpInit, Sweeps
  <2>5. TablesTyped /\ QueuesTyped
    BY <1>1, UdpConstants DEF UdpInit, TablesTyped, QueuesTyped
  <2>6. ReadersTyped /\ HistoryTyped
    BY <1>1, UdpConstants DEF UdpInit, ReadersTyped, ReaderStates, HistoryTyped
  <2>7. open \in [Opens -> Incarnations] /\ worker \in [Workers -> Chores]
    BY <1>1, <2>2, <2>3 DEF UdpInit
  <2>8. \A w \in Workers : worker[w].pc = "idle"
    BY <1>1, <2>1 DEF UdpInit
  <2>9. QED
    BY <2>4, <2>5, <2>6, <2>7, <2>8, TypeParts DEF Typed
<1>2. QED
  BY <1>1

\* A worker's next chore carries a datagram that was received.
Busy(c) == c.pc # "idle" => c.pkt \in 1 .. Len(pkts)
WorkersTyped == worker \in [Workers -> Chores] /\ \A w \in Workers : Busy(worker[w])

\* Typed, by the parts that steps change one or two of.
LEMMA TypedParts ==
  Typed <=> /\ TablesTyped /\ QueuesTyped /\ ReadersTyped /\ HistoryTyped /\ WorkersTyped
            /\ open \in [Opens -> Incarnations]
            /\ sweep \in Sweeps
BY TypeParts DEF Typed, WorkersTyped, Busy

\* The same after the step.
LEMMA TypedPartsNext ==
  ASSUME TablesTyped', QueuesTyped', ReadersTyped', HistoryTyped', WorkersTyped',
         open' \in [Opens -> Incarnations], sweep' \in Sweeps
  PROVE  Typed'
BY DEF UdpTypeOK, TablesTyped, QueuesTyped, ReadersTyped, HistoryTyped, Incarnations, Phases,
       Chores, Sweeps, ReaderStates, Sendings, Typed, WorkersTyped, Busy

\* A worker that takes a well-formed chore, or becomes idle, leaves the workers typed.
LEMMA ChoreTyped ==
  ASSUME WorkersTyped, NEW w \in Workers, NEW c \in Chores, Busy(c),
         worker' = [worker EXCEPT ![w] = c], UNCHANGED pkts
  PROVE  WorkersTyped'
<1>1. /\ worker' \in [Workers -> Chores]
      /\ \A v \in Workers : worker'[v] = IF v = w THEN c ELSE worker[v]
  BY DEF WorkersTyped
<1>2. \A v \in Workers : Busy(worker[v])
  BY DEF WorkersTyped
<1>3. ASSUME NEW v \in Workers PROVE Busy(worker[v])'
  <2>1. CASE v = w
    BY <1>1, <2>1 DEF Busy
  <2>2. CASE v # w
    BY <1>1, <1>2, <2>2 DEF Busy
  <2>3. QED
    BY <2>1, <2>2
<1>4. QED
  BY <1>1, <1>3 DEF WorkersTyped

\* Becoming idle is such a chore.
LEMMA IdleTyped ==
  ASSUME WorkersTyped, NEW w \in Workers, worker' = [worker EXCEPT ![w] = Idle], UNCHANGED pkts
  PROVE  WorkersTyped'
<1>1. Idle.key \in Keys /\ Idle.pc = "idle"
  BY UdpConstants DEF Idle, Keys
<1>2. Idle \in Chores /\ Busy(Idle)
  BY <1>1, UdpConstants DEF Idle, Chores, Busy
<1>3. QED
  BY <1>2, ChoreTyped

\* Aborting readers keeps them typed.
LEMMA SettleTyped ==
  ASSUME NEW rd \in [Opens -> ReaderStates], Settle(rd)
  PROVE  reader' \in [Opens -> ReaderStates]
<1>1. "aborted" \in ReaderStates
  BY DEF ReaderStates
<1>2. QED
  BY <1>1, SettleAborts

\* The steps keep the types: a datagram is dispatched,
LEMMA DispatchTyped ==
  ASSUME Typed, FlowsFit, NEW w \in Workers, NEW p \in Peers, NEW d \in Dsts, NEW quic \in BOOLEAN,
         Dispatch(w, p, d, quic)
  PROVE  Typed'
<1> DEFINE kind == FlowKind(p, d, quic)
           f == <<p, d>>
           n == Len(pkts) + 1
           c == [pc |-> "slot", pkt |-> n, key |-> KeyOf(p, d, kind), open |-> NoOpen]
<1>1. kind \in Kinds /\ KeyOf(p, d, kind) \in Keys /\ f \in Flows
  BY KeyFits DEF Typed, Flows
<1>2. /\ pkts' = Append(pkts, f) /\ Len(pkts) < MaxPkts
      /\ flow' = flow \/ flow' = [flow EXCEPT ![f] = kind]
      /\ sweep' = sweep \/ sweep' = [sweep EXCEPT !.flows = @ \ {f}]
      /\ worker' = worker \/ worker' = [worker EXCEPT ![w] = c]
      /\ UNCHANGED <<slotOwner, slotSess, open, queue, queueUp, flush, reader, rec, fwd, robbed>>
  BY DEF Dispatch
<1> HIDE DEF kind
<1>3. TablesTyped' /\ QueuesTyped' /\ ReadersTyped'
  BY <1>1, <1>2, TypedParts DEF TablesTyped, QueuesTyped, ReadersTyped
<1>4. /\ HistoryTyped' /\ Len(pkts') = n /\ Len(pkts) \in Nat
  BY <1>1, <1>2, TypedParts, UdpConstants DEF HistoryTyped
<1>5. sweep' \in Sweeps
  BY <1>2, TypedParts DEF Sweeps
<1>6. c \in Chores /\ c.pkt = n
  BY <1>1, <1>2, <1>4, UdpConstants DEF Chores
<1> HIDE DEF c
<1>7. worker' \in [Workers -> Chores] /\ \A v \in Workers : worker'[v] = worker[v] \/ worker'[v] = c
  BY <1>2, <1>6, TypedParts DEF WorkersTyped
<1>8. WorkersTyped'
  BY <1>4, <1>6, <1>7, TypedParts DEF WorkersTyped, Busy
<1>9. QED
  BY <1>2, <1>3, <1>4, <1>5, <1>8, TypedParts, TypedPartsNext

\* a worker looks at its datagram's slot (handle_symmetric, handle_fullcone),
LEMMA FindSlotTyped ==
  ASSUME Typed, NEW w \in Workers, FindSlot(w)
  PROVE  Typed'
<1> DEFINE k == worker[w].key
           n == worker[w].pkt
<1>1. /\ worker[w].pc = "slot" /\ worker[w] \in Chores /\ k \in Keys /\ n \in 1 .. MaxPkts /\ n \in 1 .. Len(pkts)
      /\ UNCHANGED <<flow, flush, reader, rec, sweep, pkts, fwd, robbed>>
  BY TypedParts, UdpConstants DEF FindSlot, WorkersTyped, Busy, Chores, HistoryTyped
<1>2. ASSUME NEW pc \in {"push", "forward"}, NEW o \in Opens,
             worker' = [worker EXCEPT ![w].pc = pc, ![w].open = o],
             UNCHANGED <<slotOwner, slotSess, open, queue, queueUp>>
      PROVE  Typed'
  <2> DEFINE c == [worker[w] EXCEPT !.pc = pc, !.open = o]
  <2>1. c \in Chores /\ Busy(c)
    BY <1>1 DEF Chores, Busy
  <2>2. worker' = [worker EXCEPT ![w] = c]
    BY <1>2, TypedParts DEF WorkersTyped
  <2> HIDE DEF c
  <2>3. WorkersTyped'
    BY <1>1, <2>1, <2>2, ChoreTyped, TypedParts
  <2>4. QED
    BY <1>1, <1>2, <2>3, TypedParts, TypedPartsNext
       DEF TablesTyped, QueuesTyped, ReadersTyped, HistoryTyped
<1>3. CASE ReadySlot(w)
  <2>1. slotSess[k] \in Opens
    BY <1>1, <1>3, TypedParts DEF ReadySlot, TablesTyped
  <2>2. QED
    BY <1>2, <1>3, <2>1 DEF ReadySlot
<1>4. CASE PendingSlot(w)
  <2>1. slotOwner[k] \in Opens
    BY <1>1, <1>4, TypedParts DEF PendingSlot, TablesTyped
  <2>2. QED
    BY <1>2, <1>4, <2>1 DEF PendingSlot
<1>5. CASE VacantSlot(w)
  <2>1. worker' = [worker EXCEPT ![w] = Idle] /\ UNCHANGED slotSess
    BY <1>5 DEF VacantSlot
  <2>2. WorkersTyped'
    BY <1>1, <2>1, IdleTyped, TypedParts
  <2>3. CASE UNCHANGED <<slotOwner, open, queue, queueUp>>
    BY <1>1, <2>1, <2>2, <2>3, TypedParts, TypedPartsNext
       DEF TablesTyped, QueuesTyped, ReadersTyped, HistoryTyped
  <2>4. ASSUME NEW o \in Opens, NEW host \in BOOLEAN,
               slotOwner' = [slotOwner EXCEPT ![k] = o],
               open' = [open EXCEPT ![o] = [phase |-> "opening", key |-> k,
                                            host |-> host, direct |-> FALSE]],
               queue' = [queue EXCEPT ![o] = <<n>>],
               queueUp' = queueUp \cup {o}
        PROVE  Typed'
    <3> DEFINE begun == [phase |-> "opening", key |-> k, host |-> host, direct |-> FALSE]
    <3>1. begun \in Incarnations
      BY <1>1 DEF Incarnations, Phases, OpenerLive
    <3> HIDE DEF k, n, begun
    <3>2. open' = [open EXCEPT ![o] = begun]
      BY <2>4 DEF begun
    <3>3. open' \in [Opens -> Incarnations]
      BY <3>1, <3>2, TypedParts
    <3>4. TablesTyped'
      BY <1>1, <2>1, <2>4, TypedParts DEF TablesTyped
    <3>5. <<n>> \in Seq(1 .. MaxPkts) /\ Len(<<n>>) <= PendingCap
      BY <1>1, UdpConstants
    <3>6. QueuesTyped'
      BY <1>1, <2>4, <3>5, TypedParts DEF QueuesTyped
    <3>7. QED
      BY <1>1, <2>2, <3>3, <3>4, <3>6, TypedParts, TypedPartsNext DEF ReadersTyped, HistoryTyped
  <2>5. QED
    BY <1>5, <2>3, <2>4 DEF VacantSlot
<1>6. QED
  BY <1>3, <1>4, <1>5 DEF FindSlot

\* a worker pushes on a Pending queue, never beyond its cap,
LEMMA PushTyped ==
  ASSUME Typed, NEW w \in Workers, Push(w)
  PROVE  Typed'
<1>1. WorkersTyped'
  BY IdleTyped, TypedParts DEF Push
<1>2. worker[w].pkt \in 1 .. MaxPkts
  BY TypedParts, UdpConstants DEF Push, WorkersTyped, Busy, HistoryTyped
<1>3. QueuesTyped'
  <2> DEFINE o == worker[w].open
             n == worker[w].pkt
  <2>1. CASE UNCHANGED queue
    BY <2>1, TypedParts DEF Push, QueuesTyped
  <2>2. CASE QueueHasRoom(o) /\ queue' = [queue EXCEPT ![o] = Append(@, n)]
    <3> HIDE DEF n, o
    <3>1. o \in Opens /\ queue[o] \in Seq(1 .. MaxPkts) /\ Len(queue[o]) < PendingCap
      BY <2>2, TypedParts DEF QueueHasRoom, QueuesTyped
    <3>2. Append(queue[o], n) \in Seq(1 .. MaxPkts) /\ Len(Append(queue[o], n)) = Len(queue[o]) + 1 /\ Len(queue[o]) \in Nat
      BY <1>2, <3>1 DEF n
    <3> DEFINE longer == Append(queue[o], n)
    <3>3. longer \in Seq(1 .. MaxPkts) /\ Len(longer) <= PendingCap
      BY <3>1, <3>2, UdpConstants
    <3>4. queue' = [queue EXCEPT ![o] = longer] /\ UNCHANGED <<queueUp, flush>>
      BY <2>2 DEF Push
    <3> HIDE DEF longer
    <3>5. QED
      BY <3>1, <3>3, <3>4, TypedParts DEF QueuesTyped
  <2>3. QED
    BY <2>1, <2>2 DEF Push
<1>4. QED
  BY <1>1, <1>3, TypedParts, TypedPartsNext DEF Push, tables, TablesTyped, ReadersTyped, HistoryTyped

\* a worker forwards on a Ready session,
LEMMA WorkerForwardTyped ==
  ASSUME Typed, WorkerLinks, NEW w \in Workers, WorkerForward(w)
  PROVE  Typed'
<1> DEFINE o == worker[w].open
           n == worker[w].pkt
<1>1. o \in Opens /\ n \in 1 .. MaxPkts
  BY TypedParts, UdpConstants DEF WorkerForward, WorkerLinks, Known, WorkersTyped, Busy, HistoryTyped
<1>2. worker' = [worker EXCEPT ![w] = Idle] /\ (ForwardOk(o, n) \/ ForwardErr(o)) /\ Settle(reader)
      /\ UNCHANGED <<flow, slotOwner, slotSess, queue, queueUp, flush, rec, sweep, pkts, robbed>>
  BY DEF WorkerForward, tables
<1> HIDE DEF o, n
<1>3. WorkersTyped'
  BY <1>2, IdleTyped, TypedParts
<1>4. LearnHost(o) /\ fwd' \subseteq Sendings
  BY <1>1, <1>2, ForwardTyped, TypedParts DEF HistoryTyped
<1>5. open' \in [Opens -> Incarnations]
  BY <1>1, <1>4, LearnHostOnly DEF Typed
<1>6. ReadersTyped'
  BY <1>2, SettleTyped, TypedParts DEF ReadersTyped
<1>7. QED
  BY <1>2, <1>3, <1>4, <1>5, <1>6, TypedParts, TypedPartsNext DEF TablesTyped, QueuesTyped, HistoryTyped

\* an opener goes on, to the end of its flush,
LEMMA OpenerTyped ==
  ASSUME Typed, NEW o \in Opens,
         \/ \E direct \in BOOLEAN : Opened(o, direct)
         \/ OpenFails(o) \/ RemoveFailed(o) \/ Install(o) \/ Superseded(o)
         \/ TakeQueue(o) \/ FlushQueued(o) \/ OpenerEnds(o)
  PROVE  Typed'
<1> USE TypedParts, TypedPartsNext
<1> DEFINE Rest == UNCHANGED <<worker, sweep, pkts, robbed>>
<1>1. /\ open[o].key \in Keys
      /\ queue[o] \in Seq(1 .. MaxPkts) /\ flush[o] \in Seq(1 .. MaxPkts)
      /\ <<>> \in Seq(1 .. MaxPkts) /\ Len(<<>>) <= PendingCap
  BY UdpConstants DEF Incarnations, QueuesTyped
<1>2. ASSUME UNCHANGED <<worker, sweep, pkts, robbed>>, fwd' \subseteq Sendings,
             TablesTyped', QueuesTyped', ReadersTyped', open' \in [Opens -> Incarnations]
      PROVE  Typed'
  BY <1>2 DEF WorkersTyped, Busy, HistoryTyped
<1>3. ASSUME NEW ph \in Phases, open' = [open EXCEPT ![o].phase = ph]
      PROVE  open' \in [Opens -> Incarnations]
  BY <1>3, PhaseOnly DEF Typed
<1>4. {"opened", "failed", "ended", "installed", "superseded", "flushing"} \subseteq Phases
  BY DEF Phases, OpenerLive
<1>5. ASSUME NEW direct \in BOOLEAN, Opened(o, direct) PROVE Typed'
  <2>1. open' \in [Opens -> Incarnations]
    BY <1>5, OpenedOnly DEF Typed
  <2>2. ReadersTyped'
    BY <1>5 DEF Opened, ReadersTyped, ReaderStates
  <2>3. QED
    BY <1>2, <1>5, <2>1, <2>2 DEF Opened, tables, TablesTyped, QueuesTyped, HistoryTyped
<1>6. CASE OpenFails(o)
  <2>1. QueuesTyped'
    BY <1>1, <1>6 DEF OpenFails, QueuesTyped
  <2>2. QED
    BY <1>2, <1>3, <1>4, <1>6, <2>1 DEF OpenFails, tables, TablesTyped, ReadersTyped, HistoryTyped
<1>7. CASE RemoveFailed(o)
  <2>1. TablesTyped'
    BY <1>1, <1>7 DEF RemoveFailed, TablesTyped
  <2>2. QED
    BY <1>2, <1>3, <1>4, <1>7, <2>1 DEF RemoveFailed, QueuesTyped, ReadersTyped, HistoryTyped
<1>8. CASE Install(o)
  <2>1. TablesTyped'
    BY <1>1, <1>8 DEF Install, TablesTyped
  <2>2. QED
    BY <1>2, <1>3, <1>4, <1>8, <2>1 DEF Install, QueuesTyped, ReadersTyped, HistoryTyped
<1>9. CASE Superseded(o)
  <2>1. QueuesTyped'
    BY <1>1, <1>9 DEF Superseded, QueuesTyped
  <2>2. reader' \in [Opens -> ReaderStates]
    BY <1>9, SettleTyped DEF Superseded, ReadersTyped
  <2>3. QED
    BY <1>2, <1>3, <1>4, <1>9, <2>1, <2>2 DEF Superseded, tables, TablesTyped, ReadersTyped, HistoryTyped
<1>10. CASE TakeQueue(o)
  <2>1. QueuesTyped'
    BY <1>1, <1>10 DEF TakeQueue, QueuesTyped
  <2>2. QED
    BY <1>2, <1>3, <1>4, <1>10, <2>1 DEF TakeQueue, tables, TablesTyped, ReadersTyped, HistoryTyped
<1>11. CASE FlushQueued(o)
  <2>1. Head(flush[o]) \in 1 .. MaxPkts /\ Tail(flush[o]) \in Seq(1 .. MaxPkts)
    BY <1>1, <1>11, FirstAndRest DEF FlushQueued
  <2>2. LearnHost(o) /\ fwd' \subseteq Sendings
    BY <1>11, <2>1, ForwardTyped DEF FlushQueued, HistoryTyped
  <2>3. open' \in [Opens -> Incarnations]
    BY <2>2, LearnHostOnly DEF Typed
  <2>4. QueuesTyped'
    BY <1>1, <1>11, <2>1 DEF FlushQueued, QueuesTyped
  <2>5. QED
    BY <1>2, <1>11, <2>2, <2>3, <2>4 DEF FlushQueued, tables, TablesTyped, ReadersTyped
<1>12. CASE OpenerEnds(o)
  <2>1. reader' \in [Opens -> ReaderStates]
    BY <1>12, SettleTyped DEF OpenerEnds, ReadersTyped
  <2>2. QED
    BY <1>2, <1>3, <1>4, <1>12, <2>1 DEF OpenerEnds, tables, TablesTyped, QueuesTyped, ReadersTyped, HistoryTyped
<1>13. QED
  BY <1>5, <1>6, <1>7, <1>8, <1>9, <1>10, <1>11, <1>12

\* a reader breaks and tears its slot down, or the sweeper removes an entry,
LEMMA ReaderSweepTyped ==
  ASSUME Typed,
         \/ \E o \in Opens : \/ ReaderBreaks(o) \/ ReaderRemovesSlot(o) \/ ReaderRemovesFlows(o)
                             \/ ReaderClosesRecord(o) \/ ReaderDropped(o)
         \/ \E k \in Keys : SweepSlot(k)
         \/ \E f \in Flows : SweepFlow(f)
  PROVE  Typed'
<1> USE TypedParts, TypedPartsNext
<1>1. ASSUME UNCHANGED <<open, queue, queueUp, flush, worker, pkts, fwd>>,
             TablesTyped', ReadersTyped', sweep' \in Sweeps, robbed' \subseteq Opens
      PROVE  Typed'
  BY <1>1 DEF QueuesTyped, WorkersTyped, Busy, HistoryTyped
<1>2. sweep \in Sweeps /\ robbed \subseteq Opens
  BY DEF HistoryTyped
<1>3. ASSUME NEW o \in Opens, ReaderBreaks(o) \/ ReaderClosesRecord(o) \/ ReaderDropped(o) PROVE Typed'
  <2>1. ReadersTyped'
    BY <1>3 DEF ReaderBreaks, ReaderClosesRecord, ReaderDropped, ReadersTyped, ReaderStates
  <2>2. QED
    BY <1>1, <1>2, <1>3, <2>1 DEF ReaderBreaks, ReaderClosesRecord, ReaderDropped, tables, TablesTyped
<1>4. ASSUME NEW o \in Opens, ReaderRemovesSlot(o) PROVE Typed'
  <2> DEFINE rd == [reader EXCEPT ![o] = "tailFlow"]
  <2>1. Settle(rd) /\ rd \in [Opens -> ReaderStates]
    BY <1>4 DEF ReaderRemovesSlot, ReadersTyped, ReaderStates
  <2> HIDE DEF rd
  <2>2. ReadersTyped'
    BY <1>4, <2>1, SettleTyped DEF ReaderRemovesSlot, ReadersTyped
  <2>3. open[o].key \in Keys
    BY DEF Incarnations
  <2>4. robbed' \subseteq Opens
    BY <1>2, <1>4, <2>3 DEF ReaderRemovesSlot, TablesTyped
  <2>5. TablesTyped'
    BY <1>4, <2>3 DEF ReaderRemovesSlot, RemoveSlot, TablesTyped
  <2>6. QED
    BY <1>1, <1>2, <1>4, <2>2, <2>4, <2>5 DEF ReaderRemovesSlot
<1>5. ASSUME NEW o \in Opens, ReaderRemovesFlows(o) PROVE Typed'
  <2>1. TablesTyped'
    BY <1>5 DEF ReaderRemovesFlows, TablesTyped
  <2>2. ReadersTyped'
    BY <1>5 DEF ReaderRemovesFlows, ReadersTyped, ReaderStates
  <2>3. QED
    BY <1>1, <1>2, <1>5, <2>1, <2>2 DEF ReaderRemovesFlows
<1>6. ASSUME NEW k \in Keys, SweepSlot(k) PROVE Typed'
  <2>1. reader' \in [Opens -> ReaderStates]
    BY <1>6, SettleTyped DEF SweepSlot, ReadersTyped
  <2>2. ReadersTyped'
    BY <1>6, <2>1 DEF SweepSlot, ReadersTyped
  <2>3. IsSym(k) => <<k.peer, k.dst>> \in Flows
    BY DEF IsSym, Keys, Flows
  <2> DEFINE then == IF IsSym(k) THEN {<<k.peer, k.dst>>} ELSE {}
  <2>4. then \in SUBSET Flows
    BY <2>3
  <2> HIDE DEF then
  <2>5. sweep' = [sweep EXCEPT !.slots = @ \ {k}, !.flows = then]
    BY <1>6 DEF SweepSlot, then
  <2>6. sweep' \in Sweeps
    BY <1>2, <2>4, <2>5 DEF Sweeps
  <2>7. TablesTyped'
    BY <1>6 DEF SweepSlot, RemoveSlot, TablesTyped
  <2>8. QED
    BY <1>1, <1>2, <1>6, <2>2, <2>6, <2>7 DEF SweepSlot
<1>7. ASSUME NEW f \in Flows, SweepFlow(f) PROVE Typed'
  <2>1. sweep' \in Sweeps
    BY <1>2, <1>7 DEF SweepFlow, Sweeps
  <2>2. QED
    BY <1>1, <1>2, <1>7, <2>1 DEF SweepFlow, TablesTyped, ReadersTyped
<1>8. QED
  BY <1>3, <1>4, <1>5, <1>6, <1>7

\* the sweeper makes a list.
LEMMA SweepListsTyped ==
  ASSUME Typed, NEW pc, NEW next \in {"idle", "symmetric", "fullcone", "flows"},
         NEW slots \in SUBSET Keys, NEW flows \in SUBSET Flows, SweepLists(pc, next, slots, flows)
  PROVE  Typed'
<1>1. sweep' \in Sweeps
  BY DEF SweepLists, Sweeps
<1>2. QED
  BY <1>1, TypedParts, TypedPartsNext
     DEF SweepLists, tables, TablesTyped, QueuesTyped, ReadersTyped, HistoryTyped, WorkersTyped, Busy

\* So every step keeps the types.
LEMMA TypedStep ==
  ASSUME Typed, WorkerLinks, FlowsFit, [UdpNext]_udpVars
  PROVE  Typed'
<1>1. CASE UNCHANGED udpVars
  BY <1>1, TypedParts, TypedPartsNext DEF udpVars, tables, TablesTyped, QueuesTyped, ReadersTyped,
                                          HistoryTyped, WorkersTyped, Busy
<1>2. CASE UdpNext
  <2>1. CASE \E idle \in SUBSET Keys : \/ SweepLists("idle", "symmetric", idle, {})
                                       \/ SweepLists("symmetric", "fullcone", idle, {})
    BY <2>1, SweepListsTyped
  <2>2. CASE \E idle \in SUBSET Flows : SweepLists("fullcone", "flows", {}, idle)
    BY <2>2, SweepListsTyped
  <2>3. CASE SweepLists("flows", "idle", {}, {})
    BY <2>3, SweepListsTyped
  <2>4. QED
    BY <1>2, <2>1, <2>2, <2>3, UdpSteps, DispatchTyped, FindSlotTyped, PushTyped, WorkerForwardTyped,
       OpenerTyped, ReaderSweepTyped, Zenon
<1>3. QED
  BY <1>1, <1>2
-----------------------------------------------------------------------------
(***************************************************************************)
(* Who points to whom.                                                     *)
(***************************************************************************)

\* An incarnation that has begun keeps its key; a slot keeps its owner and may become
\* Ready with its owner's session, or is emptied; no worker turns to an incarnation.
Lasting == \A o \in Opens : open[o].phase # "free" => open'[o].phase # "free" /\ open'[o].key = open[o].key
SlotMoves(k) ==
  \/ slotOwner'[k] = slotOwner[k] /\ slotSess'[k] \in {slotSess[k], slotOwner[k]}
  \/ slotOwner'[k] = NoOpen /\ slotSess'[k] = NoOpen
WorkerMoves(w) == worker'[w] = worker[w] \/ worker'[w].pc \notin {"push", "forward"}

\* Then what points to an incarnation still does so rightly.
LEMMA LinksKept ==
  ASSUME Typed, InstalledByOwner, SlotLinks, WorkerLinks, Lasting,
         \A k \in Keys : SlotMoves(k), \A w \in Workers : WorkerMoves(w)
  PROVE  InstalledByOwner' /\ SlotLinks' /\ WorkerLinks'
<1>1. InstalledByOwner'
  BY DEF InstalledByOwner, SlotMoves
<1>2. SlotLinks'
  BY DEF SlotLinks, SlotMoves, Known, Lasting
<1>3. WorkerLinks'
  BY DEF WorkerLinks, WorkerMoves, Known, Lasting
<1>4. QED
  BY <1>1, <1>2, <1>3

\* Only worker w moves, and becomes idle.
LEMMA IdleMoves ==
  ASSUME Typed, NEW w \in Workers, worker' = [worker EXCEPT ![w] = Idle]
  PROVE  \A v \in Workers : WorkerMoves(v)
<1>1. Idle.pc = "idle"
  BY DEF Idle
<1>2. QED
  BY <1>1, TypedParts DEF WorkerMoves, WorkersTyped

\* A worker finds in a slot only what belongs there, and makes a new slot with its opener.
LEMMA FindSlotLinked ==
  ASSUME Typed, Linked, NEW w \in Workers, FindSlot(w)
  PROVE  Linked'
<1> DEFINE k == worker[w].key
           n == worker[w].pkt
<1>1. k \in Keys /\ UNCHANGED flush /\ worker \in [Workers -> Chores] /\ worker[w] \in Chores
  BY TypedParts DEF FindSlot, WorkersTyped, Chores
<1>2. InstalledByOwner /\ SlotLinks /\ WorkerLinks /\ QueueLinks
  BY DEF Linked
<1>3. ASSUME NEW pc \in {"push", "forward"}, NEW o, Known(o, k),
             worker' = [worker EXCEPT ![w].pc = pc, ![w].open = o],
             UNCHANGED <<slotOwner, slotSess, open, queue, queueUp>>
      PROVE  Linked'
  <2> DEFINE c == [worker[w] EXCEPT !.pc = pc, !.open = o]
  <2>1. c.open = o /\ c.key = k
    BY <1>1 DEF Chores
  <2>2. worker' = [worker EXCEPT ![w] = c]
    BY <1>1, <1>3
  <2> HIDE DEF c, k
  <2>3. WorkerLinks'
    BY <1>1, <1>2, <1>3, <2>1, <2>2 DEF WorkerLinks, Known
  <2>4. QED
    BY <1>1, <1>2, <1>3, <2>3 DEF Linked, InstalledByOwner, SlotLinks, QueueLinks, Known
<1>4. CASE ReadySlot(w)
  <2>1. Known(slotSess[k], k)
    BY <1>1, <1>2, <1>4 DEF ReadySlot, InstalledByOwner, SlotLinks
  <2>2. QED
    BY <1>3, <1>4, <2>1 DEF ReadySlot
<1>5. CASE PendingSlot(w)
  <2>1. Known(slotOwner[k], k)
    BY <1>1, <1>2, <1>5 DEF PendingSlot, SlotLinks
  <2>2. QED
    BY <1>3, <1>5, <2>1 DEF PendingSlot
<1>6. CASE VacantSlot(w)
  <2>1. worker' = [worker EXCEPT ![w] = Idle] /\ UNCHANGED slotSess /\ slotOwner[k] = NoOpen
    BY <1>6 DEF VacantSlot
  <2>2. \A v \in Workers : WorkerMoves(v)
    BY <2>1, IdleMoves
  <2>3. CASE UNCHANGED <<slotOwner, open, queue, queueUp>>
    <3>1. InstalledByOwner' /\ SlotLinks' /\ WorkerLinks'
      BY <1>2, <2>1, <2>2, <2>3, LinksKept DEF Lasting, SlotMoves
    <3>2. QED
      BY <1>1, <1>2, <2>3, <3>1 DEF Linked, QueueLinks
  <2>4. ASSUME NEW o \in Opens, NEW host \in BOOLEAN, open[o].phase = "free",
               slotOwner' = [slotOwner EXCEPT ![k] = o],
               open' = [open EXCEPT ![o] = [phase |-> "opening", key |-> k,
                                            host |-> host, direct |-> FALSE]],
               queue' = [queue EXCEPT ![o] = <<n>>],
               queueUp' = queueUp \cup {o}
        PROVE  Linked'
    <3> HIDE DEF k, n
    <3>1. \A p \in Opens : /\ open'[p].phase = IF p = o THEN "opening" ELSE open[p].phase
                           /\ open'[p].key = IF p = o THEN k ELSE open[p].key
      BY <2>4, TypedParts
    <3>2. Lasting
      BY <2>4, <3>1 DEF Lasting
    <3>3. \A j \in Keys : slotOwner'[j] = IF j = k THEN o ELSE slotOwner[j]
      BY <1>1, <2>4, TypedParts DEF TablesTyped
    <3>4. SlotLinks'
      BY <1>2, <3>1, <3>2, <3>3 DEF SlotLinks, Known, Lasting
    <3>5. InstalledByOwner'
      BY <1>1, <1>2, <2>1, <3>3 DEF InstalledByOwner
    <3>6. WorkerLinks'
      BY <1>2, <2>2, <3>2 DEF WorkerLinks, WorkerMoves, Known, Lasting
    <3>7. QueueLinks'
      <4>1. flush[o] = <<>>
        BY <1>2, <2>4 DEF QueueLinks
      <4>2. \A p \in Opens : queue'[p] # <<>> => p \in queueUp'
        BY <1>2, <2>4, TypedParts DEF QueueLinks, QueuesTyped
      <4>3. \A p \in queueUp' : open'[p].phase \in Accepting
        BY <1>2, <2>4, <3>1, TypedParts DEF QueueLinks, QueuesTyped, Accepting
      <4>4. \A p \in Opens : flush'[p] # <<>> => open'[p].phase = "flushing"
        BY <1>1, <1>2, <3>1, <4>1 DEF QueueLinks
      <4>5. QED
        BY <4>2, <4>3, <4>4 DEF QueueLinks
    <3>8. QED
      BY <3>4, <3>5, <3>6, <3>7 DEF Linked
  <2>5. QED
    BY <1>6, <2>3, <2>4 DEF VacantSlot
<1>7. QED
  BY <1>4, <1>5, <1>6 DEF FindSlot

\* The workers' other steps open nothing.
LEMMA WorkersLinked ==
  ASSUME Typed, Linked, NEW w \in Workers,
         \/ \E p \in Peers, d \in Dsts, quic \in BOOLEAN : Dispatch(w, p, d, quic)
         \/ Push(w) \/ WorkerForward(w)
  PROVE  Linked'
<1>1. InstalledByOwner /\ SlotLinks /\ WorkerLinks /\ QueueLinks
  BY DEF Linked
<1>2. ASSUME \A v \in Workers : WorkerMoves(v), UNCHANGED <<slotOwner, slotSess, queueUp, flush>>,
             \A o \in Opens : open'[o].phase = open[o].phase /\ open'[o].key = open[o].key,
             \A o \in Opens : queue'[o] # <<>> => o \in queueUp
      PROVE  Linked'
  <2>1. InstalledByOwner' /\ SlotLinks' /\ WorkerLinks'
    BY <1>1, <1>2, LinksKept DEF Lasting, SlotMoves
  <2>2. QueueLinks'
    BY <1>1, <1>2, TypedParts DEF QueueLinks, QueuesTyped
  <2>3. QED
    BY <2>1, <2>2 DEF Linked
<1>3. ASSUME NEW p \in Peers, NEW d \in Dsts, NEW quic \in BOOLEAN, Dispatch(w, p, d, quic) PROVE Linked'
  <2> DEFINE c == [pc |-> "slot", pkt |-> Len(pkts) + 1, key |-> KeyOf(p, d, FlowKind(p, d, quic)),
                   open |-> NoOpen]
  <2>1. c.pc = "slot" /\ (worker' = worker \/ worker' = [worker EXCEPT ![w] = c])
    BY <1>3 DEF Dispatch
  <2> HIDE DEF c
  <2>2. \A v \in Workers : WorkerMoves(v)
    BY <2>1, TypedParts DEF WorkerMoves, WorkersTyped
  <2>3. UNCHANGED <<slotOwner, slotSess, open, queue, queueUp, flush>>
    BY <1>3 DEF Dispatch
  <2>4. QED
    BY <1>1, <1>2, <2>2, <2>3 DEF QueueLinks
<1>4. CASE Push(w)
  <2>1. \A v \in Workers : WorkerMoves(v)
    BY <1>4, IdleMoves DEF Push
  <2>2. \A o \in Opens : queue'[o] # <<>> => o \in queueUp
    BY <1>1, <1>4, TypedParts DEF Push, QueueLinks, QueueHasRoom, QueuesTyped
  <2>3. QED
    BY <1>2, <1>4, <2>1, <2>2 DEF Push, tables
<1>5. CASE WorkerForward(w)
  <2>1. \A v \in Workers : WorkerMoves(v)
    BY <1>5, IdleMoves DEF WorkerForward
  <2>2. worker[w].open \in Opens
    BY <1>1, <1>5 DEF WorkerForward, WorkerLinks, Known
  <2>3. LearnHost(worker[w].open)
    BY <1>5, ForwardSends DEF WorkerForward
  <2>4. \A o \in Opens : open'[o].phase = open[o].phase /\ open'[o].key = open[o].key
    BY <2>2, <2>3, LearnHostOnly DEF Typed
  <2>5. UNCHANGED <<slotOwner, slotSess, queue, queueUp, flush>>
    BY <1>5 DEF WorkerForward, tables
  <2>6. QED
    BY <1>1, <1>2, <2>1, <2>4, <2>5 DEF QueueLinks
<1>6. QED
  BY <1>3, <1>4, <1>5

\* An opener that goes on closes its queue when it is done with it, and installs its
\* session only in a slot that is still its own.
LEMMA OpenerLinked ==
  ASSUME Typed, Linked, NEW o \in Opens,
         \/ \E direct \in BOOLEAN : Opened(o, direct)
         \/ OpenFails(o) \/ RemoveFailed(o) \/ Install(o) \/ Superseded(o)
         \/ TakeQueue(o) \/ FlushQueued(o) \/ OpenerEnds(o)
  PROVE  Linked'
<1>1. InstalledByOwner /\ SlotLinks /\ WorkerLinks /\ QueueLinks
  BY DEF Linked
<1>2. /\ open \in [Opens -> Incarnations] /\ open[o].key \in Keys
      /\ slotOwner \in [Keys -> Opens \cup {NoOpen}] /\ slotSess \in [Keys -> Opens \cup {NoOpen}]
      /\ queueUp \subseteq Opens
      /\ DOMAIN queue = Opens /\ DOMAIN flush = Opens
  BY TypedParts DEF Incarnations, TablesTyped, QueuesTyped
\* The opener alone goes on, to phase ph, and only empties its queue.
<1> DEFINE Goes(ph) == \A p \in Opens : /\ open'[p].phase = (IF p = o THEN ph ELSE open[p].phase)
                                        /\ open'[p].key = open[p].key
           Closes == queue' = [queue EXCEPT ![o] = <<>>] /\ queueUp' = queueUp \ {o}
           Keeps == UNCHANGED <<queue, queueUp>>
<1>3. ASSUME NEW ph \in Phases, open' = [open EXCEPT ![o].phase = ph] PROVE Goes(ph)
  BY <1>3, PhaseOnly DEF Typed
<1>4. {"opened", "failed", "ended", "installed", "superseded", "flushing"} \subseteq Phases
  BY DEF Phases, OpenerLive
<1>5. ASSUME NEW ph \in Phases \ {"free"}, Goes(ph), UNCHANGED worker, \A k \in Keys : SlotMoves(k)
      PROVE  InstalledByOwner' /\ SlotLinks' /\ WorkerLinks'
  BY <1>1, <1>5, LinksKept DEF Lasting, WorkerMoves
<1>6. ASSUME UNCHANGED <<slotOwner, slotSess>> PROVE \A k \in Keys : SlotMoves(k)
  BY <1>6 DEF SlotMoves
<1>7. ASSUME NEW ph \in Phases \ {"free"}, Goes(ph), Keeps \/ Closes, Keeps => ph \in Accepting \/ o \notin queueUp,
             UNCHANGED flush, flush[o] = <<>>
      PROVE  QueueLinks'
  BY <1>1, <1>2, <1>7 DEF QueueLinks
<1>8. ASSUME open[o].phase # "flushing" PROVE flush[o] = <<>>
  BY <1>1, <1>8 DEF QueueLinks
<1>9. ASSUME open[o].phase \notin Accepting PROVE o \notin queueUp
  BY <1>1, <1>9 DEF QueueLinks
<1>10. ASSUME NEW direct \in BOOLEAN, Opened(o, direct) PROVE Linked'
  <2>1. Goes("opened")
    BY <1>10, OpenedOnly DEF Typed
  <2>2. QED
    BY <1>4, <1>5, <1>6, <1>7, <1>8, <1>10, <2>1 DEF Opened, tables, Linked, Accepting
<1>11. CASE OpenFails(o)
  <2>1. Goes("failed")
    BY <1>3, <1>4, <1>11 DEF OpenFails
  <2>2. QED
    BY <1>4, <1>5, <1>6, <1>7, <1>8, <1>11, <2>1 DEF OpenFails, tables, Linked, Accepting
<1>12. CASE RemoveFailed(o)
  <2>1. Goes("ended")
    BY <1>3, <1>4, <1>12 DEF RemoveFailed
  <2>2. \A k \in Keys : SlotMoves(k)
    BY <1>2, <1>12 DEF RemoveFailed, SlotMoves, StillPending
  <2>3. QED
    BY <1>4, <1>5, <1>7, <1>8, <1>9, <1>12, <2>1, <2>2 DEF RemoveFailed, Linked, Accepting
<1>13. CASE Install(o)
  <2>1. PICK ph \in {"installed", "superseded"} : Goes(ph)
    BY <1>3, <1>4, <1>13 DEF Install
  <2>2. \A k \in Keys : SlotMoves(k)
    BY <1>2, <1>13 DEF Install, SlotMoves, StillPending
  <2>3. QED
    BY <1>4, <1>5, <1>7, <1>8, <1>13, <2>1, <2>2 DEF Install, Linked, Accepting
<1>14. CASE Superseded(o)
  <2>1. Goes("ended")
    BY <1>3, <1>4, <1>14 DEF Superseded
  <2>2. QED
    BY <1>4, <1>5, <1>6, <1>7, <1>8, <1>14, <2>1 DEF Superseded, tables, Linked, Accepting
<1>15. CASE TakeQueue(o)
  <2>1. Goes("flushing")
    BY <1>3, <1>4, <1>15 DEF TakeQueue
  <2>2. QueueLinks'
    BY <1>1, <1>2, <1>15, <2>1 DEF TakeQueue, QueueLinks
  <2>3. QED
    BY <1>4, <1>5, <1>6, <1>15, <2>1, <2>2 DEF TakeQueue, tables, Linked
<1>16. CASE FlushQueued(o)
  <2>1. LearnHost(o)
    BY <1>16, ForwardSends DEF FlushQueued
  <2>2. \A p \in Opens : open'[p].phase = open[p].phase /\ open'[p].key = open[p].key
    BY <2>1, LearnHostOnly DEF Typed
  <2>3. Goes("flushing")
    BY <1>16, <2>2 DEF FlushQueued
  <2>4. QueueLinks'
    BY <1>1, <1>2, <1>16, <2>2 DEF FlushQueued, QueueLinks
  <2>5. QED
    BY <1>4, <1>5, <1>6, <1>16, <2>3, <2>4 DEF FlushQueued, tables, Linked
<1>17. CASE OpenerEnds(o)
  <2>1. Goes("ended")
    BY <1>3, <1>4, <1>17 DEF OpenerEnds
  <2>2. QED
    BY <1>4, <1>5, <1>6, <1>7, <1>9, <1>17, <2>1 DEF OpenerEnds, tables, Linked, Accepting
<1>18. QED
  BY <1>10, <1>11, <1>12, <1>13, <1>14, <1>15, <1>16, <1>17

\* Readers and the sweeper only empty slots.
LEMMA ReaderSweepLinked ==
  ASSUME Typed, Linked,
         \/ \E o \in Opens : \/ ReaderBreaks(o) \/ ReaderRemovesSlot(o) \/ ReaderRemovesFlows(o)
                             \/ ReaderClosesRecord(o) \/ ReaderDropped(o)
         \/ \E k \in Keys : SweepSlot(k)
         \/ \E f \in Flows : SweepFlow(f)
         \/ \E pc, next, slots, flows : SweepLists(pc, next, slots, flows)
  PROVE  Linked'
<1>1. UNCHANGED <<open, queue, queueUp, flush, worker>>
  BY DEF ReaderBreaks, ReaderRemovesSlot, ReaderRemovesFlows, ReaderClosesRecord, ReaderDropped,
         SweepSlot, SweepFlow, SweepLists
<1>2. \/ UNCHANGED <<slotOwner, slotSess>>
      \/ \E k : RemoveSlot(k)
  BY DEF ReaderBreaks, ReaderRemovesSlot, ReaderRemovesFlows, ReaderClosesRecord, ReaderDropped,
         SweepSlot, SweepFlow, SweepLists, tables
<1>3. \A k \in Keys : SlotMoves(k)
  BY <1>2, TypedParts DEF RemoveSlot, SlotMoves, TablesTyped
<1>4. QED
  BY <1>1, <1>3, LinksKept DEF Linked, Lasting, WorkerMoves, QueueLinks

\* So every step keeps the links.
LEMMA LinkedStep ==
  ASSUME Typed, Linked, [UdpNext]_udpVars
  PROVE  Linked'
<1>1. CASE UNCHANGED udpVars
  BY <1>1 DEF udpVars, tables, Linked, InstalledByOwner, SlotLinks, WorkerLinks, QueueLinks, Known
<1>2. CASE UdpNext
  BY <1>2, UdpSteps, FindSlotLinked, WorkersLinked, OpenerLinked, ReaderSweepLinked, Zenon
<1>3. QED
  BY <1>1, <1>2

\* A record that is still open keeps someone to close it.
LEMMA RecordsStep ==
  ASSUME Typed, Linked, RecordHasCloser, [UdpNext]_udpVars
  PROVE  RecordHasCloser'
<1> DEFINE Tails == {"tailSlot", "tailFlow", "tailRec"}
           HasCloser(o) == \/ \E k \in Keys : slotSess[k] = o
                           \/ open[o].phase \in {"opened", "superseded"}
                           \/ reader[o] \in Tails
                           \/ o \in robbed
<1>1. \A o \in Opens : rec[o] = "open" => HasCloser(o)
  BY DEF RecordHasCloser
<1>2. /\ slotOwner \in [Keys -> Opens \cup {NoOpen}] /\ slotSess \in [Keys -> Opens \cup {NoOpen}]
      /\ DOMAIN reader = Opens /\ DOMAIN rec = Opens
      /\ open \in [Opens -> Incarnations] /\ \A o \in Opens : open[o].key \in Keys
  BY TypedParts DEF TablesTyped, ReadersTyped, Incarnations
<1>3. SUFFICES ASSUME NEW p \in Opens, rec'[p] = "open"
               PROVE  HasCloser(p)'
  BY DEF RecordHasCloser
\* Nothing is closed, and readers at most abort.
<1>4. ASSUME UNCHANGED <<slotSess, rec, robbed>>, reader'[p] = reader[p] \/ reader[p] \notin Tails,
             open[p].phase \in {"opened", "superseded"} => open'[p].phase = open[p].phase
      PROVE  HasCloser(p)'
  BY <1>1, <1>2, <1>3, <1>4
<1>5. ASSUME NEW rd, Settle(rd) PROVE rd[p] \in Tails => reader'[p] = rd[p]
  BY <1>5, SettleAborts
<1>6. CASE UNCHANGED udpVars
  BY <1>4, <1>6 DEF udpVars, tables
<1>7. ASSUME NEW w \in Workers, (\E q \in Peers, d \in Dsts, quic \in BOOLEAN : Dispatch(w, q, d, quic)) \/ Push(w)
      PROVE  HasCloser(p)'
  <2>1. UNCHANGED <<slotSess, rec, robbed, reader, open>>
    <3>1. CASE \E q \in Peers, d \in Dsts, quic \in BOOLEAN : Dispatch(w, q, d, quic)
      BY <3>1 DEF Dispatch
    <3>2. CASE Push(w)
      BY <3>2 DEF Push, tables
    <3>3. QED
      BY <1>7, <3>1, <3>2
  <2>2. QED
    BY <1>4, <2>1
<1>8. ASSUME NEW w \in Workers, FindSlot(w) PROVE HasCloser(p)'
  <2>1. UNCHANGED <<slotSess, rec, robbed, reader>>
    BY <1>8 DEF FindSlot, ReadySlot, PendingSlot, VacantSlot
  <2>2. open[p].phase = "free" \/ open'[p] = open[p]
    BY <1>2, <1>8 DEF FindSlot, ReadySlot, PendingSlot, VacantSlot
  <2>3. QED
    BY <1>4, <2>1, <2>2
<1>9. ASSUME NEW w \in Workers, WorkerForward(w) PROVE HasCloser(p)'
  <2>1. UNCHANGED <<slotSess, rec, robbed>> /\ Settle(reader) /\ LearnHost(worker[w].open)
    BY <1>9, ForwardSends DEF WorkerForward, tables
  <2>2. worker[w].open \in Opens
    BY <1>9 DEF WorkerForward, Linked, WorkerLinks, Known
  <2>3. open'[p].phase = open[p].phase
    BY <2>1, <2>2, LearnHostOnly DEF Typed
  <2>4. QED
    BY <1>4, <1>5, <2>1, <2>3
<1>10. ASSUME NEW o \in Opens PROVE /\ Opened(o, TRUE) => HasCloser(p)'
                                    /\ Opened(o, FALSE) => HasCloser(p)'
  <2>1. ASSUME NEW direct \in BOOLEAN, Opened(o, direct) PROVE HasCloser(p)'
    <3>1. /\ open'[p].phase = IF p = o THEN "opened" ELSE open[p].phase
          /\ slotSess' = slotSess /\ robbed' = robbed
          /\ p # o => reader'[p] = reader[p] /\ rec'[p] = rec[p]
      BY <1>2, <2>1, OpenedOnly DEF Typed, Opened, tables
    <3>2. QED
      BY <1>1, <1>3, <3>1
  <2>2. QED
    BY <2>1
<1>11. ASSUME NEW o \in Opens, OpenFails(o) \/ RemoveFailed(o) \/ TakeQueue(o) PROVE HasCloser(p)'
  <2>1. UNCHANGED <<slotSess, rec, robbed, reader>>
    BY <1>11 DEF OpenFails, RemoveFailed, TakeQueue, tables
  <2>2. open[p].phase \in {"opened", "superseded"} => open'[p].phase = open[p].phase
    BY <1>2, <1>11 DEF OpenFails, RemoveFailed, TakeQueue
  <2>3. QED
    BY <1>4, <2>1, <2>2
<1>12. ASSUME NEW o \in Opens, Install(o) PROVE HasCloser(p)'
  <2>1. UNCHANGED <<rec, robbed, reader>> /\ open[o].phase = "opened"
    BY <1>12 DEF Install
  <2>2. p # o => open'[p] = open[p]
    BY <1>2, <1>12 DEF Install
  <2>3. CASE StillPending(o)
    <3>1. \A k \in Keys : slotSess'[k] = IF k = open[o].key THEN o ELSE slotSess[k]
      BY <1>2, <1>12, <2>3 DEF Install
    <3>2. slotSess[open[o].key] = NoOpen /\ p # NoOpen
      BY <2>3, UdpConstants DEF StillPending
    <3>3. QED
      BY <1>1, <1>2, <1>3, <2>1, <2>2, <3>1, <3>2
  <2>4. CASE ~StillPending(o)
    <3>1. slotSess' = slotSess /\ open' = [open EXCEPT ![o].phase = "superseded"]
      BY <1>12, <2>4 DEF Install
    <3>2. open'[o].phase = "superseded"
      BY <1>2, <3>1
    <3>3. QED
      BY <1>1, <1>3, <2>1, <2>2, <3>1, <3>2
  <2>5. QED
    BY <2>3, <2>4
<1>13. ASSUME NEW o \in Opens, Superseded(o) PROVE HasCloser(p)'
  <2>1. UNCHANGED <<slotSess, robbed>> /\ Settle(reader) /\ rec' = [rec EXCEPT ![o] = "closed"]
    BY <1>13 DEF Superseded, tables
  <2>2. p # o /\ rec'[p] = rec[p]
    BY <1>2, <1>3, <2>1
  <2>3. open'[p] = open[p]
    BY <1>2, <1>13, <2>2 DEF Superseded
  <2>4. QED
    BY <1>1, <1>3, <1>5, <2>1, <2>2, <2>3
<1>14. ASSUME NEW o \in Opens, FlushQueued(o) PROVE HasCloser(p)'
  <2>1. UNCHANGED <<slotSess, rec, robbed, reader>> /\ LearnHost(o)
    BY <1>14, ForwardSends DEF FlushQueued, tables
  <2>2. QED
    BY <1>4, <2>1, LearnHostOnly DEF Typed
<1>15. ASSUME NEW o \in Opens, OpenerEnds(o) PROVE HasCloser(p)'
  <2>1. UNCHANGED <<slotSess, rec, robbed>> /\ Settle(reader)
    BY <1>15 DEF OpenerEnds, tables
  <2>2. open[p].phase \in {"opened", "superseded"} => open'[p].phase = open[p].phase
    BY <1>2, <1>15 DEF OpenerEnds
  <2>3. QED
    BY <1>4, <1>5, <2>1, <2>2
<1>16. ASSUME NEW o \in Opens, ReaderBreaks(o) \/ ReaderRemovesFlows(o) \/ ReaderClosesRecord(o) \/ ReaderDropped(o)
       PROVE  HasCloser(p)'
  <2>1. UNCHANGED <<slotSess, robbed, open>>
    BY <1>16 DEF ReaderBreaks, ReaderRemovesFlows, ReaderClosesRecord, ReaderDropped, tables
  <2>2. rec'[p] = rec[p] /\ (reader[p] \in Tails => reader'[p] \in Tails)
    BY <1>2, <1>3, <1>16 DEF ReaderBreaks, ReaderRemovesFlows, ReaderClosesRecord, ReaderDropped, tables
  <2>3. QED
    BY <1>1, <1>3, <2>1, <2>2
<1>17. ASSUME NEW o \in Opens, ReaderRemovesSlot(o) PROVE HasCloser(p)'
  <2> DEFINE k == open[o].key
             rd == [reader EXCEPT ![o] = "tailFlow"]
  <2>1. /\ UNCHANGED <<open, rec>> /\ Settle(rd) /\ reader[o] = "tailSlot"
        /\ robbed' = robbed \cup ({slotSess[k]} \ {o, NoOpen})
        /\ \A j \in Keys : slotSess'[j] = IF j = k THEN NoOpen ELSE slotSess[j]
    BY <1>2, <1>17 DEF ReaderRemovesSlot, RemoveSlot
  <2>2. rd[p] = IF p = o THEN "tailFlow" ELSE reader[p]
    BY <1>2
  <2> HIDE DEF rd, k
  <2>3. (reader[p] \in Tails \/ p = o) => reader'[p] \in Tails
    BY <1>5, <2>1, <2>2
  <2>4. p # NoOpen
    BY UdpConstants
  <2>5. QED
    BY <1>1, <1>3, <2>1, <2>3, <2>4
<1>18. ASSUME NEW k \in Keys, SweepSlot(k) PROVE HasCloser(p)'
  <2>1. /\ UNCHANGED <<open, robbed>> /\ Settle(reader)
        /\ rec' = IF slotSess[k] = NoOpen THEN rec ELSE [rec EXCEPT ![slotSess[k]] = "closed"]
        /\ \A j \in Keys : slotSess'[j] = IF j = k THEN NoOpen ELSE slotSess[j]
    BY <1>2, <1>18 DEF SweepSlot, RemoveSlot
  <2>2. p # slotSess[k] /\ rec'[p] = rec[p]
    BY <1>2, <1>3, <2>1, UdpConstants
  <2>3. QED
    BY <1>1, <1>3, <1>5, <2>1, <2>2
<1>19. CASE \/ \E f \in Flows : SweepFlow(f)
            \/ \E pc, next, slots, flows : SweepLists(pc, next, slots, flows)
  BY <1>4, <1>19 DEF SweepFlow, SweepLists, tables
<1>20. QED
  BY <1>6, <1>7, <1>8, <1>9, <1>10, <1>11, <1>12, <1>13, <1>14, <1>15, <1>16, <1>17, <1>18, <1>19,
     UdpSteps, Zenon
-----------------------------------------------------------------------------
(***************************************************************************)
(* What the datagrams are.                                                 *)
(***************************************************************************)

\* Who receives datagrams, handles them, queues them, takes them out and sends them.
LEMMA Touches ==
  ASSUME UdpNext
  PROVE  /\ \/ UNCHANGED pkts
            \/ \E w \in Workers, p \in Peers, d \in Dsts, quic \in BOOLEAN : Dispatch(w, p, d, quic)
         /\ \/ UNCHANGED worker
            \/ \E w \in Workers, p \in Peers, d \in Dsts, quic \in BOOLEAN : Dispatch(w, p, d, quic)
            \/ \E w \in Workers : FindSlot(w) \/ Push(w) \/ WorkerForward(w)
         /\ \/ UNCHANGED queue
            \/ \E w \in Workers : FindSlot(w) \/ Push(w)
            \/ \E o \in Opens : OpenFails(o) \/ Superseded(o) \/ TakeQueue(o)
         /\ UNCHANGED flush \/ \E o \in Opens : TakeQueue(o) \/ FlushQueued(o)
         /\ UNCHANGED fwd \/ (\E w \in Workers : WorkerForward(w)) \/ \E o \in Opens : FlushQueued(o)
         /\ \/ UNCHANGED flow
            \/ \E w \in Workers, p \in Peers, d \in Dsts, quic \in BOOLEAN : Dispatch(w, p, d, quic)
            \/ (\E o \in Opens : ReaderRemovesFlows(o)) \/ \E f \in Flows : SweepFlow(f)
<1>1. ASSUME NEW w, NEW p, NEW d, NEW quic, Dispatch(w, p, d, quic)
      PROVE  UNCHANGED queue /\ UNCHANGED flush /\ UNCHANGED fwd
  BY <1>1 DEF Dispatch
<1>2. ASSUME NEW w, FindSlot(w) \/ Push(w)
      PROVE  UNCHANGED flow /\ UNCHANGED flush /\ UNCHANGED fwd /\ UNCHANGED pkts
  BY <1>2 DEF FindSlot, Push, tables
<1>3. ASSUME NEW w, WorkerForward(w)
      PROVE  UNCHANGED flow /\ UNCHANGED queue /\ UNCHANGED flush /\ UNCHANGED pkts
  BY <1>3 DEF WorkerForward, tables
<1>4. ASSUME NEW o, Opened(o, TRUE) \/ Opened(o, FALSE) \/ RemoveFailed(o) \/ Install(o) \/ OpenerEnds(o)
      PROVE  /\ UNCHANGED flow /\ UNCHANGED queue /\ UNCHANGED flush
             /\ UNCHANGED worker /\ UNCHANGED pkts /\ UNCHANGED fwd
  <2>1. CASE Opened(o, TRUE) \/ Opened(o, FALSE)
    BY <2>1 DEF Opened, tables
  <2>2. CASE RemoveFailed(o) \/ Install(o) \/ OpenerEnds(o)
    BY <2>2 DEF RemoveFailed, Install, OpenerEnds, tables
  <2>3. QED
    BY <1>4, <2>1, <2>2
<1>5. ASSUME NEW o, OpenFails(o) \/ Superseded(o)
      PROVE  UNCHANGED flow /\ UNCHANGED flush /\ UNCHANGED worker /\ UNCHANGED pkts /\ UNCHANGED fwd
  BY <1>5 DEF OpenFails, Superseded, tables
<1>6. ASSUME NEW o, TakeQueue(o)
      PROVE  UNCHANGED flow /\ UNCHANGED worker /\ UNCHANGED pkts /\ UNCHANGED fwd
  BY <1>6 DEF TakeQueue, tables
<1>7. ASSUME NEW o, FlushQueued(o)
      PROVE  UNCHANGED flow /\ UNCHANGED queue /\ UNCHANGED worker /\ UNCHANGED pkts
  BY <1>7 DEF FlushQueued, tables
<1>8. ASSUME NEW o, ReaderBreaks(o) \/ ReaderRemovesSlot(o) \/ ReaderClosesRecord(o) \/ ReaderDropped(o)
      PROVE  /\ UNCHANGED flow /\ UNCHANGED queue /\ UNCHANGED flush
             /\ UNCHANGED worker /\ UNCHANGED pkts /\ UNCHANGED fwd
  BY <1>8 DEF ReaderBreaks, ReaderRemovesSlot, ReaderClosesRecord, ReaderDropped, tables
<1>9. ASSUME NEW o, ReaderRemovesFlows(o)
      PROVE  UNCHANGED queue /\ UNCHANGED flush /\ UNCHANGED worker /\ UNCHANGED pkts /\ UNCHANGED fwd
  BY <1>9 DEF ReaderRemovesFlows
<1>10. ASSUME NEW pc, NEW next, NEW slots, NEW flows, SweepLists(pc, next, slots, flows)
       PROVE  /\ UNCHANGED flow /\ UNCHANGED queue /\ UNCHANGED flush
              /\ UNCHANGED worker /\ UNCHANGED pkts /\ UNCHANGED fwd
  BY <1>10 DEF SweepLists, tables
<1>11. ASSUME NEW k, SweepSlot(k)
       PROVE  /\ UNCHANGED flow /\ UNCHANGED queue /\ UNCHANGED flush
              /\ UNCHANGED worker /\ UNCHANGED pkts /\ UNCHANGED fwd
  BY <1>11 DEF SweepSlot, tables
<1>12. ASSUME NEW f, SweepFlow(f)
       PROVE  UNCHANGED queue /\ UNCHANGED flush /\ UNCHANGED worker /\ UNCHANGED pkts /\ UNCHANGED fwd
  BY <1>12 DEF SweepFlow
<1>13. \/ UNCHANGED pkts
       \/ \E w \in Workers, p \in Peers, d \in Dsts, quic \in BOOLEAN : Dispatch(w, p, d, quic)
  BY <1>2, <1>3, <1>4, <1>5, <1>6, <1>7, <1>8, <1>9, <1>10, <1>11, <1>12, UdpSteps, Zenon
<1>14. \/ UNCHANGED worker
       \/ \E w \in Workers, p \in Peers, d \in Dsts, quic \in BOOLEAN : Dispatch(w, p, d, quic)
       \/ \E w \in Workers : FindSlot(w) \/ Push(w) \/ WorkerForward(w)
  BY <1>4, <1>5, <1>6, <1>7, <1>8, <1>9, <1>10, <1>11, <1>12, UdpSteps, Zenon
<1>15. \/ UNCHANGED queue
       \/ \E w \in Workers : FindSlot(w) \/ Push(w)
       \/ \E o \in Opens : OpenFails(o) \/ Superseded(o) \/ TakeQueue(o)
  BY <1>1, <1>3, <1>4, <1>7, <1>8, <1>9, <1>10, <1>11, <1>12, UdpSteps, Zenon
<1>16. UNCHANGED flush \/ \E o \in Opens : TakeQueue(o) \/ FlushQueued(o)
  BY <1>1, <1>2, <1>3, <1>4, <1>5, <1>8, <1>9, <1>10, <1>11, <1>12, UdpSteps, Zenon
<1>17. UNCHANGED fwd \/ (\E w \in Workers : WorkerForward(w)) \/ \E o \in Opens : FlushQueued(o)
  BY <1>1, <1>2, <1>4, <1>5, <1>6, <1>8, <1>9, <1>10, <1>11, <1>12, UdpSteps, Zenon
<1>18. \/ UNCHANGED flow
       \/ \E w \in Workers, p \in Peers, d \in Dsts, quic \in BOOLEAN : Dispatch(w, p, d, quic)
       \/ (\E o \in Opens : ReaderRemovesFlows(o)) \/ \E f \in Flows : SweepFlow(f)
  BY <1>2, <1>3, <1>4, <1>5, <1>6, <1>7, <1>8, <1>10, <1>11, UdpSteps, Zenon
<1>19. QED
  BY <1>13, <1>14, <1>15, <1>16, <1>17, <1>18, Zenon

\* A received datagram stays what it was, and an incarnation keeps its key.
Received == \A n \in 1 .. Len(pkts) : n \in 1 .. Len(pkts') /\ pkts'[n] = pkts[n]

\* No step changes what was received, or the key of an incarnation that has begun.
LEMMA Lasts ==
  ASSUME Typed, Linked, UdpNext
  PROVE  Received /\ Lasting
<1>1. Received
  <2>1. CASE UNCHANGED pkts
    BY <2>1 DEF Received
  <2>2. ASSUME NEW w \in Workers, NEW p \in Peers, NEW d \in Dsts, NEW quic \in BOOLEAN, Dispatch(w, p, d, quic)
        PROVE  Received
    <3>1. pkts' = Append(pkts, <<p, d>>) /\ <<p, d>> \in Flows /\ pkts \in Seq(Flows)
      BY <2>2, TypedParts DEF Dispatch, HistoryTyped, Flows
    <3>2. QED
      BY <3>1 DEF Received
  <2>3. QED
    BY <2>1, <2>2, Touches
<1>2. open \in [Opens -> Incarnations]
  BY TypedParts
<1>3. ASSUME \A o \in Opens : open'[o].phase = open[o].phase /\ open'[o].key = open[o].key PROVE Lasting
  BY <1>3 DEF Lasting
<1>4. ASSUME UNCHANGED open PROVE Lasting
  BY <1>4 DEF Lasting
<1>5. ASSUME NEW w \in Workers, FindSlot(w) PROVE Lasting
  BY <1>2, <1>5 DEF FindSlot, ReadySlot, PendingSlot, VacantSlot, Lasting
<1>6. ASSUME NEW w \in Workers, WorkerForward(w) PROVE Lasting
  <2>1. LearnHost(worker[w].open) /\ worker[w].open \in Opens
    BY <1>6, ForwardSends DEF WorkerForward, Linked, WorkerLinks, Known
  <2>2. QED
    BY <1>3, <2>1, LearnHostOnly DEF Typed
<1>7. ASSUME NEW o \in Opens, FlushQueued(o) PROVE Lasting
  BY <1>3, <1>7, ForwardSends, LearnHostOnly DEF FlushQueued, Typed
<1>8. ASSUME NEW o \in Opens, NEW direct \in BOOLEAN, Opened(o, direct) PROVE Lasting
  BY <1>8, OpenedOnly DEF Typed, Lasting
<1>9. ASSUME NEW o \in Opens,
             OpenFails(o) \/ RemoveFailed(o) \/ Install(o) \/ Superseded(o) \/ TakeQueue(o) \/ OpenerEnds(o)
      PROVE  Lasting
  <2>1. PICK ph \in {"failed", "ended", "installed", "superseded", "flushing"} :
          open' = [open EXCEPT ![o].phase = ph]
    BY <1>9 DEF OpenFails, RemoveFailed, Install, Superseded, TakeQueue, OpenerEnds
  <2>2. ph \in Phases
    BY DEF Phases, OpenerLive
  <2>3. QED
    BY <2>1, <2>2, PhaseOnly DEF Typed, Lasting
<1>10. CASE \/ \E w \in Workers, p \in Peers, d \in Dsts, quic \in BOOLEAN : Dispatch(w, p, d, quic)
            \/ \E w \in Workers : Push(w)
            \/ \E o \in Opens : \/ ReaderBreaks(o) \/ ReaderRemovesSlot(o) \/ ReaderRemovesFlows(o)
                                \/ ReaderClosesRecord(o) \/ ReaderDropped(o)
            \/ \E pc, next, slots, flows : SweepLists(pc, next, slots, flows)
            \/ (\E k \in Keys : SweepSlot(k)) \/ \E f \in Flows : SweepFlow(f)
  <2>1. ASSUME NEW w, NEW p, NEW d, NEW quic, Dispatch(w, p, d, quic) PROVE UNCHANGED open
    BY <2>1 DEF Dispatch
  <2>2. ASSUME NEW w, Push(w) PROVE UNCHANGED open
    BY <2>2 DEF Push
  <2>3. ASSUME NEW o, ReaderBreaks(o) \/ ReaderRemovesSlot(o) \/ ReaderRemovesFlows(o)
                      \/ ReaderClosesRecord(o) \/ ReaderDropped(o)
        PROVE  UNCHANGED open
    BY <2>3 DEF ReaderBreaks, ReaderRemovesSlot, ReaderRemovesFlows, ReaderClosesRecord, ReaderDropped
  <2>4. ASSUME NEW pc, NEW next, NEW slots, NEW flows, SweepLists(pc, next, slots, flows)
        PROVE  UNCHANGED open
    BY <2>4 DEF SweepLists
  <2>5. ASSUME NEW k, SweepSlot(k) \/ SweepFlow(k) PROVE UNCHANGED open
    BY <2>5 DEF SweepSlot, SweepFlow
  <2>6. QED
    BY <1>1, <1>4, <1>10, <2>1, <2>2, <2>3, <2>4, <2>5, Zenon
<1>11. QED
  BY <1>1, <1>5, <1>6, <1>7, <1>8, <1>9, <1>10, UdpSteps, Zenon

\* Fits, after the step.
FitsNext(n, k) == n \in 1 .. Len(pkts') /\ (~IsSym(k) => pkts'[n][2] \notin FakeDsts)

\* A datagram that fits a key goes on doing so.
LEMMA FitsLasts ==
  ASSUME Received, NEW n, NEW k, Fits(n, k)
  PROVE  FitsNext(n, k)
BY DEF Received, Fits, FitsNext

\* Every step keeps each kind of holder fitting: the flow table,
LEMMA FlowsFitStep ==
  ASSUME Typed, FlowsFit, UdpNext
  PROVE  FlowsFit'
<1>1. flow \in [Flows -> Kinds \cup {"none"}]
  BY TypedParts DEF TablesTyped
<1>2. ASSUME NEW w \in Workers, NEW p \in Peers, NEW d \in Dsts, NEW quic \in BOOLEAN, Dispatch(w, p, d, quic)
      PROVE  FlowsFit'
  <2> DEFINE kind == FlowKind(p, d, quic)
             f == <<p, d>>
  <2>1. flow' = flow \/ flow' = [flow EXCEPT ![f] = kind]
    BY <1>2 DEF Dispatch
  <2>2. f \in Flows /\ f[2] = d /\ (kind = "Fullcone" => d \notin FakeDsts)
    BY KeyFits DEF Typed, Flows
  <2> HIDE DEF kind, f
  <2>3. QED
    BY <1>1, <2>1, <2>2 DEF FlowsFit
<1>3. CASE UNCHANGED flow \/ (\E o \in Opens : ReaderRemovesFlows(o)) \/ \E f \in Flows : SweepFlow(f)
  <2>1. \A f \in Flows : flow'[f] \in {flow[f], "none"}
    BY <1>1, <1>3 DEF ReaderRemovesFlows, SweepFlow
  <2>2. QED
    BY <2>1 DEF FlowsFit
<1>4. QED
  BY <1>2, <1>3, Touches

\* the workers,
LEMMA WorkersFitStep ==
  ASSUME Typed, FlowsFit, WorkersFit, Received, UdpNext
  PROVE  WorkersFit'
<1>1. worker \in [Workers -> Chores] /\ pkts \in Seq(Flows)
  BY TypedParts DEF WorkersTyped, HistoryTyped
<1>2. ASSUME NEW w \in Workers, NEW c, worker' = worker \/ worker' = [worker EXCEPT ![w] = c],
             c.pc # "idle" => FitsNext(c.pkt, c.key)
      PROVE  WorkersFit'
  BY <1>1, <1>2, FitsLasts DEF WorkersFit, Fits, FitsNext
<1>3. CASE UNCHANGED worker
  BY <1>3 DEF WorkersFit, Fits, Received
<1>4. ASSUME NEW w \in Workers, NEW p \in Peers, NEW d \in Dsts, NEW quic \in BOOLEAN, Dispatch(w, p, d, quic)
      PROVE  WorkersFit'
  <2> DEFINE kind == FlowKind(p, d, quic)
             f == <<p, d>>
             k == KeyOf(p, d, kind)
             c == [pc |-> "slot", pkt |-> Len(pkts) + 1, key |-> k, open |-> NoOpen]
  <2>1. pkts' = Append(pkts, f) /\ (worker' = worker \/ worker' = [worker EXCEPT ![w] = c])
    BY <1>4 DEF Dispatch
  <2>2. f \in Flows /\ f[2] = d /\ (~IsSym(k) => d \notin FakeDsts)
    BY KeyFits DEF Typed, Flows
  <2>3. c.pkt = Len(pkts) + 1 /\ c.key = k
    OBVIOUS
  <2> HIDE DEF k, f, c
  <2>4. Len(pkts) + 1 \in 1 .. Len(pkts') /\ pkts'[Len(pkts) + 1] = f
    BY <1>1, <2>1, <2>2
  <2>5. FitsNext(c.pkt, c.key)
    BY <2>2, <2>3, <2>4 DEF FitsNext
  <2>6. QED
    BY <1>2, <2>1, <2>5
<1>5. ASSUME NEW w \in Workers, Push(w) \/ WorkerForward(w) PROVE WorkersFit'
  BY <1>2, <1>5 DEF Push, WorkerForward, Idle
<1>6. ASSUME NEW w \in Workers, FindSlot(w) PROVE WorkersFit'
  <2>1. Fits(worker[w].pkt, worker[w].key) /\ worker[w] \in Chores
    BY <1>1, <1>6 DEF FindSlot, WorkersFit
  <2>2. CASE VacantSlot(w)
    BY <1>2, <2>2 DEF VacantSlot, Idle
  <2>3. ASSUME NEW pc, NEW o, worker' = [worker EXCEPT ![w].pc = pc, ![w].open = o] PROVE WorkersFit'
    <3> DEFINE c == [worker[w] EXCEPT !.pc = pc, !.open = o]
    <3>1. c.pkt = worker[w].pkt /\ c.key = worker[w].key
      BY <2>1 DEF Chores
    <3>2. worker' = [worker EXCEPT ![w] = c]
      BY <1>1, <2>3
    <3> HIDE DEF c
    <3>3. QED
      BY <1>2, <2>1, <3>1, <3>2, FitsLasts
  <2>4. QED
    BY <1>6, <2>2, <2>3 DEF FindSlot, ReadySlot, PendingSlot
<1>7. QED
  BY <1>3, <1>4, <1>5, <1>6, Touches

\* the Pending queues,
LEMMA QueuesFitStep ==
  ASSUME Typed, Linked, WorkersFit, QueuesFit, Received, Lasting, UdpNext
  PROVE  QueuesFit'
<1>1. /\ queue \in [Opens -> Seq(1 .. MaxPkts)]
      /\ \A o \in Opens : queue[o] # <<>> => open[o].phase # "free"
  BY TypedParts DEF QueuesTyped, Linked, QueueLinks, Accepting
<1>2. SUFFICES ASSUME NEW o \in Opens, NEW i \in 1 .. Len(queue'[o])
               PROVE  FitsNext(queue'[o][i], open'[o].key)
  BY DEF QueuesFit, Fits, FitsNext
<1>3. CASE queue'[o] = queue[o]
  <2>1. queue[o] # <<>> /\ Fits(queue[o][i], open[o].key)
    BY <1>1, <1>2, <1>3 DEF QueuesFit
  <2>2. open'[o].key = open[o].key
    BY <1>1, <2>1 DEF Lasting
  <2>3. QED
    BY <1>3, <2>1, <2>2, FitsLasts
<1>4. queue'[o] # <<>>
  BY <1>2
<1>5. ASSUME NEW p \in Opens, OpenFails(p) \/ Superseded(p) \/ TakeQueue(p) PROVE queue'[o] = queue[o]
  BY <1>1, <1>4, <1>5 DEF OpenFails, Superseded, TakeQueue
<1>6. ASSUME NEW w \in Workers, FindSlot(w), queue'[o] # queue[o] PROVE FitsNext(queue'[o][i], open'[o].key)
  <2> DEFINE n == worker[w].pkt
             k == worker[w].key
  <2>1. Fits(n, k)
    BY <1>6 DEF FindSlot, WorkersFit
  <2>2. PICK p \in Opens, host \in BOOLEAN :
               /\ open' = [open EXCEPT ![p] = [phase |-> "opening", key |-> k, host |-> host, direct |-> FALSE]]
               /\ queue' = [queue EXCEPT ![p] = <<n>>]
    BY <1>6 DEF FindSlot, ReadySlot, PendingSlot, VacantSlot
  <2> HIDE DEF n, k
  <2>3. p = o /\ queue'[o] = <<n>> /\ open'[o].key = k
    BY <1>1, <1>6, <2>2, TypedParts
  <2>4. i = 1
    BY <1>2, <2>3
  <2>5. QED
    BY <2>1, <2>3, <2>4, FitsLasts
<1>7. ASSUME NEW w \in Workers, Push(w), queue'[o] # queue[o] PROVE FitsNext(queue'[o][i], open'[o].key)
  <2> DEFINE n == worker[w].pkt
  <2>1. /\ Fits(n, worker[w].key) /\ Known(worker[w].open, worker[w].key)
        /\ n \in 1 .. MaxPkts
    BY <1>7, TypedParts, UdpConstants DEF Push, WorkersFit, Linked, WorkerLinks, WorkersTyped, Busy, HistoryTyped
  <2>2. queue' = [queue EXCEPT ![worker[w].open] = Append(@, n)] /\ open' = open
    BY <1>7 DEF Push
  <2>3. worker[w].open = o /\ queue'[o] = Append(queue[o], n)
    BY <1>1, <1>7, <2>1, <2>2
  <2>4. open[o].key = worker[w].key
    BY <2>1, <2>3 DEF Known
  <2> HIDE DEF n
  <2>5. \/ i \in 1 .. Len(queue[o]) /\ queue'[o][i] = queue[o][i]
        \/ queue'[o][i] = n
    BY <1>1, <1>2, <2>1, <2>3
  <2>6. Fits(queue'[o][i], open[o].key)
    BY <2>1, <2>4, <2>5 DEF QueuesFit
  <2>7. QED
    BY <2>2, <2>6, FitsLasts
<1>8. QED
  BY <1>3, <1>5, <1>6, <1>7, Touches

\* what openers took out of them,
LEMMA FlushesFitStep ==
  ASSUME Typed, Linked, QueuesFit, FlushesFit, Received, Lasting, UdpNext
  PROVE  FlushesFit'
<1>1. /\ queue \in [Opens -> Seq(1 .. MaxPkts)] /\ flush \in [Opens -> Seq(1 .. MaxPkts)]
      /\ \A o \in Opens : flush[o] # <<>> => open[o].phase # "free"
  BY TypedParts DEF QueuesTyped, Linked, QueueLinks
<1>2. SUFFICES ASSUME NEW o \in Opens, NEW i \in 1 .. Len(flush'[o])
               PROVE  FitsNext(flush'[o][i], open'[o].key)
  BY DEF FlushesFit, Fits, FitsNext
<1>3. ASSUME NEW j \in 1 .. Len(flush[o]), flush'[o][i] = flush[o][j] PROVE FitsNext(flush'[o][i], open'[o].key)
  <2>1. flush[o] # <<>> /\ Fits(flush[o][j], open[o].key)
    BY <1>1, <1>3 DEF FlushesFit
  <2>2. open'[o].key = open[o].key
    BY <1>1, <2>1 DEF Lasting
  <2>3. QED
    BY <1>3, <2>1, <2>2, FitsLasts
<1>4. CASE flush'[o] = flush[o]
  BY <1>2, <1>3, <1>4
<1>5. flush'[o] # <<>>
  BY <1>2
<1>6. ASSUME NEW p \in Opens, TakeQueue(p), flush'[o] # flush[o] PROVE FitsNext(flush'[o][i], open'[o].key)
  <2>1. p = o /\ flush'[o] = queue[o]
    BY <1>1, <1>6 DEF TakeQueue
  <2>2. open[o].phase # "free"
    BY <1>6, <2>1 DEF TakeQueue
  <2>3. Fits(queue[o][i], open[o].key) /\ open'[o].key = open[o].key
    BY <1>2, <2>1, <2>2 DEF QueuesFit, Lasting
  <2>4. QED
    BY <2>1, <2>3, FitsLasts
<1>7. ASSUME NEW p \in Opens, FlushQueued(p), flush'[o] # flush[o] PROVE FitsNext(flush'[o][i], open'[o].key)
  <2>1. p = o /\ flush'[o] = Tail(flush[o]) /\ flush[o] # <<>> /\ flush[o] \in Seq(1 .. MaxPkts)
    BY <1>1, <1>5, <1>7 DEF FlushQueued
  <2>2. i + 1 \in 1 .. Len(flush[o]) /\ flush'[o][i] = flush[o][i + 1]
    BY <1>2, <2>1, FirstAndRest
  <2>3. QED
    BY <1>3, <2>2
<1>8. QED
  BY <1>4, <1>6, <1>7, Touches

\* and what was sent.
LEMMA SentFitStep ==
  ASSUME Typed, Linked, WorkersFit, FlushesFit, SentFit, Received, UdpNext
  PROVE  SentFit'
<1>1. ASSUME NEW o, NEW n, ForwardOk(o, n) \/ ForwardErr(o), Fits(n, open[o].key) PROVE SentFit'
  <2>1. CASE UNCHANGED fwd
    BY <2>1 DEF SentFit, Received
  <2>2. ASSUME NEW how, fwd' = fwd \cup {[pkt |-> n, how |-> how]},
               how = "address" => ~IsSym(open[o].key) \/ pkts[n][2] \notin FakeDsts
        PROVE  SentFit'
    BY <1>1, <2>2 DEF SentFit, Received, Fits
  <2>3. QED
    BY <1>1, <2>1, <2>2, ForwardSends
<1>2. CASE UNCHANGED fwd
  BY <1>2 DEF SentFit, Received
<1>3. ASSUME NEW w \in Workers, WorkerForward(w) PROVE SentFit'
  <2>1. Fits(worker[w].pkt, worker[w].key) /\ Known(worker[w].open, worker[w].key)
    BY <1>3 DEF WorkerForward, WorkersFit, Linked, WorkerLinks
  <2>2. QED
    BY <1>1, <1>3, <2>1 DEF WorkerForward, Known
<1>4. ASSUME NEW o \in Opens, FlushQueued(o) PROVE SentFit'
  <2>1. flush[o] \in Seq(1 .. MaxPkts) /\ flush[o] # <<>>
    BY <1>4, TypedParts DEF FlushQueued, QueuesTyped
  <2>2. Head(flush[o]) = flush[o][1] /\ 1 \in 1 .. Len(flush[o])
    BY <2>1, FirstAndRest
  <2>3. Fits(Head(flush[o]), open[o].key)
    BY <2>2 DEF FlushesFit
  <2>4. QED
    BY <1>1, <1>4, <2>3 DEF FlushQueued
<1>5. QED
  BY <1>2, <1>3, <1>4, Touches

\* So every step keeps the datagrams what they should be.
LEMMA FitStep ==
  ASSUME Typed, Linked, AllFit, [UdpNext]_udpVars
  PROVE  AllFit'
<1>1. CASE UNCHANGED udpVars
  BY <1>1 DEF udpVars, tables, AllFit, FlowsFit, WorkersFit, QueuesFit, FlushesFit, SentFit, Fits
<1>2. CASE UdpNext
  BY <1>2, Lasts, FlowsFitStep, WorkersFitStep, QueuesFitStep, FlushesFitStep, SentFitStep DEF AllFit
<1>3. QED
  BY <1>1, <1>2
-----------------------------------------------------------------------------
(***************************************************************************)
(* Where the datagrams are.                                                *)
(***************************************************************************)

\* A datagram that stays where it is is in one place.
LEMMA Stays ==
  ASSUME Apart, NEW n \in 1 .. MaxPkts, Spots(n)' \subseteq Spots(n)
  PROVE  OneSpot(n)'
BY DEF Apart, OneSpot

\* So is one that moves from old to new.
LEMMA OneMoves ==
  ASSUME Apart, NEW n \in 1 .. MaxPkts, NEW old \in Spots(n), NEW new,
         old \notin Spots(n)', Spots(n)' \subseteq Spots(n) \cup {new}
  PROVE  OneSpot(n)'
BY DEF Apart, OneSpot

\* So is one of several that move along, each from a place of its own.
LEMMA AllMove ==
  ASSUME Apart, NEW n \in 1 .. MaxPkts, NEW src, \A a \in Spots(n)' : src[a] \in Spots(n),
         \A a, b \in Spots(n)' : src[a] = src[b] => a = b
  PROVE  OneSpot(n)'
BY DEF Apart, OneSpot

\* A kind of place is where it was when what makes it has not changed.
LEMMA SameSpots ==
  ASSUME NEW n
  PROVE  /\ UNCHANGED worker => WorkerSpots(n)' = WorkerSpots(n)
         /\ UNCHANGED queue => QueueSpots(n)' = QueueSpots(n)
         /\ UNCHANGED flush => FlushSpots(n)' = FlushSpots(n)
         /\ UNCHANGED fwd => SentSpots(n)' = SentSpots(n)
BY DEF WorkerSpots, QueueSpots, FlushSpots, SentSpots

\* Places of different kinds are different.
LEMMA SpotKinds ==
  ASSUME NEW n
  PROVE  /\ \A a \in WorkerSpots(n) : a[1] = "worker"
         /\ \A a \in QueueSpots(n) : a[1] = "queue"
         /\ \A a \in FlushSpots(n) : a[1] = "flush"
         /\ \A a \in SentSpots(n) : a[1] = "fwd"
BY DEF WorkerSpots, QueueSpots, FlushSpots, SentSpots

\* Only worker w goes on to another chore.
LEMMA ChoreSpots ==
  ASSUME NEW w \in Workers, \A v \in Workers : v # w => worker'[v] = worker[v], NEW n
  PROVE  /\ worker'[w].pc # "idle" /\ worker'[w].pkt = n =>
              WorkerSpots(n)' = WorkerSpots(n) \cup {<<"worker", w, 0>>}
         /\ worker'[w].pc = "idle" \/ worker'[w].pkt # n =>
              WorkerSpots(n)' = WorkerSpots(n) \ {<<"worker", w, 0>>}
BY DEF WorkerSpots

\* Only the list of incarnation o changes.
LEMMA QueueMoves ==
  ASSUME NEW o \in Opens, \A p \in Opens : p # o => queue'[p] = queue[p], NEW n
  PROVE  /\ \A a \in QueueSpots(n)' :
              \/ a \in QueueSpots(n) /\ a[2] # o
              \/ \E i \in 1 .. Len(queue'[o]) : queue'[o][i] = n /\ a = <<"queue", o, i>>
BY DEF QueueSpots

\* The same for what openers took out.
LEMMA FlushMoves ==
  ASSUME NEW o \in Opens, \A p \in Opens : p # o => flush'[p] = flush[p], NEW n
  PROVE  /\ \A a \in FlushSpots(n)' :
              \/ a \in FlushSpots(n) /\ a[2] # o
              \/ \E i \in 1 .. Len(flush'[o]) : flush'[o][i] = n /\ a = <<"flush", o, i>>
BY DEF FlushSpots

\* Forwarding datagram m adds at most one place, of that datagram.
LEMMA SentMoves ==
  ASSUME NEW o, NEW m, ForwardOk(o, m) \/ ForwardErr(o), NEW n
  PROVE  \E new : SentSpots(n)' \subseteq SentSpots(n) \cup (IF m = n THEN {new} ELSE {}) /\ new[1] = "fwd"
<1>1. CASE UNCHANGED fwd
  <2>1. SentSpots(n)' = SentSpots(n)
    BY <1>1 DEF SentSpots
  <2>2. <<"fwd", 0, 0>>[1] = "fwd"
    OBVIOUS
  <2>3. QED
    BY <2>1, <2>2
<1>2. ASSUME NEW how, fwd' = fwd \cup {[pkt |-> m, how |-> how]}
      PROVE  /\ SentSpots(n)' \subseteq SentSpots(n) \cup (IF m = n THEN {<<"fwd", how, 0>>} ELSE {})
             /\ <<"fwd", how, 0>>[1] = "fwd"
  BY <1>2 DEF SentSpots
<1>3. QED
  BY <1>1, <1>2, ForwardSends

\* A datagram that was not received is nowhere.
LEMMA NowhereYet ==
  ASSUME AllFit, NEW n, n \notin 1 .. Len(pkts)
  PROVE  Spots(n) = {}
<1>1. WorkerSpots(n) = {}
  BY DEF WorkerSpots, AllFit, WorkersFit, Fits
<1>2. QueueSpots(n) = {}
  BY DEF QueueSpots, AllFit, QueuesFit, Fits
<1>3. FlushSpots(n) = {}
  BY DEF FlushSpots, AllFit, FlushesFit, Fits
<1>4. SentSpots(n) = {}
  BY DEF SentSpots, AllFit, SentFit
<1>5. QED
  BY <1>1, <1>2, <1>3, <1>4 DEF Spots

\* A datagram that arrives is new.
LEMMA DispatchApart ==
  ASSUME Typed, AllFit, Apart, NEW n \in 1 .. MaxPkts,
         NEW w \in Workers, NEW p \in Peers, NEW d \in Dsts, NEW quic \in BOOLEAN, Dispatch(w, p, d, quic)
  PROVE  OneSpot(n)'
<1> DEFINE c == [pc |-> "slot", pkt |-> Len(pkts) + 1, key |-> KeyOf(p, d, FlowKind(p, d, quic)),
                 open |-> NoOpen]
<1>1. UNCHANGED <<queue, flush, fwd>> /\ (worker' = worker \/ worker' = [worker EXCEPT ![w] = c])
  BY DEF Dispatch
<1>2. c.pc = "slot" /\ c.pkt = Len(pkts) + 1 /\ Len(pkts) \in Nat
  BY TypedParts DEF HistoryTyped
<1> HIDE DEF c
<1>2a. worker' = worker \/ (worker'[w] = c /\ \A v \in Workers : v # w => worker'[v] = worker[v])
  BY <1>1, TypedParts DEF WorkersTyped
<1>3. CASE n # Len(pkts) + 1
  <2>1. WorkerSpots(n)' \subseteq WorkerSpots(n)
    BY <1>2, <1>2a, <1>3, SameSpots, ChoreSpots
  <2>2. QED
    BY <1>1, <2>1, SameSpots, Stays DEF Spots
<1>4. CASE n = Len(pkts) + 1
  <2>1. Spots(n) = {}
    BY <1>2, <1>4, NowhereYet
  <2>2. Spots(n)' \subseteq Spots(n) \cup {<<"worker", w, 0>>}
    BY <1>1, <1>2, <1>2a, <1>4, SameSpots, ChoreSpots DEF Spots
  <2>3. QED
    BY <2>1, <2>2 DEF OneSpot
<1>5. QED
  BY <1>3, <1>4

\* A worker that becomes idle no longer holds its datagram.
LEMMA IdleSpots ==
  ASSUME Typed, NEW w \in Workers, worker' = [worker EXCEPT ![w] = Idle], NEW n
  PROVE  WorkerSpots(n)' = WorkerSpots(n) \ {<<"worker", w, 0>>}
<1>1. worker'[w].pc = "idle" /\ \A v \in Workers : v # w => worker'[v] = worker[v]
  BY TypedParts DEF WorkersTyped, Idle
<1>2. QED
  BY <1>1, ChoreSpots

\* Worker w hands its datagram over: to a queue or upstream, or drops it.
LEMMA HandOver ==
  ASSUME Typed, Apart, NEW n \in 1 .. MaxPkts, NEW w \in Workers, worker[w].pc # "idle",
         worker' = [worker EXCEPT ![w] = Idle], UNCHANGED flush,
         NEW new, new[1] # "worker",
         QueueSpots(n)' \cup SentSpots(n)' \subseteq QueueSpots(n) \cup SentSpots(n)
                                        \cup (IF worker[w].pkt = n THEN {new} ELSE {})
  PROVE  OneSpot(n)'
<1> DEFINE old == <<"worker", w, 0>>
<1>1. WorkerSpots(n)' = WorkerSpots(n) \ {old} /\ FlushSpots(n)' = FlushSpots(n)
  BY IdleSpots, SameSpots
<1>2. CASE worker[w].pkt # n
  BY <1>1, <1>2, Stays DEF Spots
<1>3. CASE worker[w].pkt = n
  <2>1. old \in Spots(n)
    BY <1>3 DEF Spots, WorkerSpots
  <2>2. Spots(n)' \subseteq Spots(n) \cup {new}
    BY <1>1, <1>3 DEF Spots
  <2>3. old \notin QueueSpots(n) \cup FlushSpots(n) \cup SentSpots(n) /\ old # new
    BY SpotKinds
  <2>4. old \notin Spots(n)'
    BY <1>1, <1>3, <2>3 DEF Spots
  <2>5. QED
    BY <2>1, <2>2, <2>4, OneMoves
<1>4. QED
  BY <1>2, <1>3

\* A worker's datagram moves to one place.
LEMMA WorkersApart ==
  ASSUME Typed, Linked, Apart, NEW n \in 1 .. MaxPkts,
         NEW w \in Workers, FindSlot(w) \/ Push(w) \/ WorkerForward(w)
  PROVE  OneSpot(n)'
<1> DEFINE m == worker[w].pkt
<1>1. worker \in [Workers -> Chores] /\ queue \in [Opens -> Seq(1 .. MaxPkts)]
  BY TypedParts DEF WorkersTyped, QueuesTyped
<1>2. ASSUME NEW pc \in {"push", "forward"}, NEW o, worker' = [worker EXCEPT ![w].pc = pc, ![w].open = o],
             worker[w].pc = "slot", UNCHANGED <<queue, flush, fwd>>
      PROVE  OneSpot(n)'
  <2> DEFINE c == [worker[w] EXCEPT !.pc = pc, !.open = o]
  <2>1. c.pc = pc /\ c.pkt = m /\ worker' = [worker EXCEPT ![w] = c]
    BY <1>1, <1>2 DEF Chores
  <2> HIDE DEF c
  <2>2. worker'[w] = c /\ \A v \in Workers : v # w => worker'[v] = worker[v]
    BY <1>1, <2>1
  <2>3. m = n => <<"worker", w, 0>> \in WorkerSpots(n)
    BY <1>2 DEF WorkerSpots
  <2>4. WorkerSpots(n)' \subseteq WorkerSpots(n)
    <3>1. CASE m = n
      <4>1. worker'[w].pc # "idle" /\ worker'[w].pkt = n
        BY <1>2, <2>1, <2>2, <3>1
      <4>2. WorkerSpots(n)' = WorkerSpots(n) \cup {<<"worker", w, 0>>}
        BY <2>2, <4>1, ChoreSpots
      <4>3. QED
        BY <2>3, <3>1, <4>2
    <3>2. CASE m # n
      BY <2>1, <2>2, <3>2, ChoreSpots
    <3>3. QED
      BY <3>1, <3>2
  <2>5. QED
    BY <1>2, <2>4, SameSpots, Stays DEF Spots
<1>3. ASSUME worker[w].pc # "idle", worker' = [worker EXCEPT ![w] = Idle], UNCHANGED <<queue, flush, fwd>>
      PROVE  OneSpot(n)'
  <2>1. WorkerSpots(n)' \subseteq WorkerSpots(n)
    BY <1>3, IdleSpots
  <2>2. Spots(n)' \subseteq Spots(n)
    BY <1>3, <2>1, SameSpots DEF Spots
  <2>3. QED
    BY <2>2, Stays
\* The datagram ends up last in the queue of o.
<1>4. ASSUME NEW o \in Opens, NEW s, worker[w].pc # "idle", worker' = [worker EXCEPT ![w] = Idle],
             queue' = [queue EXCEPT ![o] = s], UNCHANGED <<flush, fwd>>,
             s = <<m>> \/ s = Append(queue[o], m)
      PROVE  OneSpot(n)'
  <2> DEFINE new == <<"queue", o, Len(s)>>
  <2>1. queue[o] \in Seq(1 .. MaxPkts) /\ m \in 1 .. MaxPkts
    BY <1>1, <1>4, TypedParts, UdpConstants DEF WorkersTyped, Busy, HistoryTyped
  <2> HIDE DEF m
  <2>2. \A i \in 1 .. Len(s) :
          \/ i \in 1 .. Len(queue[o]) /\ s[i] = queue[o][i]
          \/ i = Len(s) /\ s[i] = m
    <3>1. CASE s = <<m>>
      BY <3>1
    <3>2. CASE s = Append(queue[o], m)
      BY <2>1, <3>2, LastAdded
    <3>3. QED
      BY <1>4, <3>1, <3>2
  <2>2a. queue'[o] = s /\ \A p \in Opens : p # o => queue'[p] = queue[p]
    BY <1>1, <1>4
  <2>3. \A i \in 1 .. Len(queue[o]) : queue[o][i] = n => <<"queue", o, i>> \in QueueSpots(n)
    BY DEF QueueSpots
  <2>4. QueueSpots(n)' \subseteq QueueSpots(n) \cup (IF m = n THEN {new} ELSE {})
    BY <2>2, <2>2a, <2>3, QueueMoves
  <2>5. new[1] # "worker" /\ SentSpots(n)' = SentSpots(n)
    BY <1>4, SameSpots
  <2> HIDE DEF new
  <2>6. QED
    BY <1>4, <2>4, <2>5, HandOver DEF m
<1>5. CASE FindSlot(w)
  <2>1. worker[w].pc = "slot" /\ UNCHANGED <<flush, fwd>>
    BY <1>5 DEF FindSlot
  <2>2. CASE ReadySlot(w)
    BY <1>2, <2>1, <2>2 DEF ReadySlot
  <2>3. CASE PendingSlot(w)
    BY <1>2, <2>1, <2>3 DEF PendingSlot
  <2>4. CASE VacantSlot(w)
    BY <1>3, <1>4, <2>1, <2>4 DEF VacantSlot
  <2>5. QED
    BY <1>5, <2>2, <2>3, <2>4 DEF FindSlot
<1>6. CASE Push(w)
  <2>1. worker[w].open \in Opens
    BY <1>6 DEF Push, Linked, WorkerLinks, Known
  <2>2. QED
    BY <1>3, <1>4, <1>6, <2>1 DEF Push
<1>7. CASE WorkerForward(w)
  <2>1. PICK new : SentSpots(n)' \subseteq SentSpots(n) \cup (IF m = n THEN {new} ELSE {}) /\ new[1] = "fwd"
    BY <1>7, SentMoves DEF WorkerForward
  <2>2. /\ worker[w].pc # "idle" /\ worker' = [worker EXCEPT ![w] = Idle] /\ UNCHANGED <<queue, flush>>
    BY <1>7 DEF WorkerForward
  <2>3. QueueSpots(n)' = QueueSpots(n)
    BY <2>2, SameSpots
  <2>4. QED
    BY <2>1, <2>2, <2>3, HandOver
<1>8. QED
  BY <1>5, <1>6, <1>7

\* The opener's queue moves as a whole: Pending::take leaves nothing behind.
LEMMA TakeApart ==
  ASSUME Typed, Linked, Apart, NEW n \in 1 .. MaxPkts, NEW o \in Opens, TakeQueue(o)
  PROVE  OneSpot(n)'
<1> DEFINE src == [a \in Spots(n)' |-> IF a[1] = "flush" /\ a[2] = o THEN <<"queue", o, a[3]>> ELSE a]
<1>1. /\ queue' = [queue EXCEPT ![o] = <<>>] /\ flush' = [flush EXCEPT ![o] = queue[o]]
      /\ UNCHANGED <<worker, fwd>>
  BY DEF TakeQueue
<1>1a. /\ queue'[o] = <<>> /\ flush'[o] = queue[o]
       /\ \A p \in Opens : p # o => queue'[p] = queue[p] /\ flush'[p] = flush[p]
  BY <1>1, TypedParts DEF QueuesTyped
<1>2. \A a \in Spots(n)' :
        \/ a \in Spots(n) /\ (a[1] = "flush" => a[2] # o) /\ (a[1] = "queue" => a \in QueueSpots(n)')
        \/ \E i \in 1 .. Len(queue[o]) : queue[o][i] = n /\ a = <<"flush", o, i>>
  <2>1. \A a \in FlushSpots(n)' : \/ a \in FlushSpots(n) /\ a[2] # o
                                  \/ \E i \in 1 .. Len(queue[o]) : queue[o][i] = n /\ a = <<"flush", o, i>>
    BY <1>1a, FlushMoves
  <2>2. QueueSpots(n)' \subseteq QueueSpots(n)
    BY <1>1a, QueueMoves
  <2>3. WorkerSpots(n)' = WorkerSpots(n) /\ SentSpots(n)' = SentSpots(n)
    BY <1>1, SameSpots
  <2>4. QED
    BY <2>1, <2>2, <2>3, SpotKinds DEF Spots
<1>3. \A i \in Nat : <<"queue", o, i>> \notin QueueSpots(n)'
  BY <1>1a, QueueMoves
<1>4. \A i \in 1 .. Len(queue[o]) : queue[o][i] = n => <<"queue", o, i>> \in Spots(n) /\ i \in Nat
  BY TypedParts DEF Spots, QueueSpots, QueuesTyped
<1>5. \A a \in Spots(n)' :
        \/ src[a] = a /\ a \in Spots(n) /\ (a[1] = "flush" => a[2] # o) /\ (a[1] = "queue" => a \in QueueSpots(n)')
        \/ \E i \in Nat : a = <<"flush", o, i>> /\ src[a] = <<"queue", o, i>> /\ src[a] \in Spots(n)
  BY <1>2, <1>4
<1> HIDE DEF src
<1>6. \A a, b \in Spots(n)' : src[a] = src[b] => a = b
  BY <1>3, <1>5
<1>7. QED
  BY <1>5, <1>6, AllMove

\* The first of what was taken out is sent, and the rest moves up.
LEMMA FlushApart ==
  ASSUME Typed, Apart, NEW n \in 1 .. MaxPkts, NEW o \in Opens, FlushQueued(o)
  PROVE  OneSpot(n)'
<1> DEFINE m == Head(flush[o])
<1>1. /\ flush[o] # <<>> /\ flush[o] \in Seq(1 .. MaxPkts)
      /\ UNCHANGED <<worker, queue>>
  BY TypedParts DEF FlushQueued, QueuesTyped
<1>2. WorkerSpots(n)' = WorkerSpots(n) /\ QueueSpots(n)' = QueueSpots(n)
  BY <1>1, SameSpots
<1>3. CASE ForwardErr(o) /\ flush' = [flush EXCEPT ![o] = <<>>]
  <2>1. FlushSpots(n)' \subseteq FlushSpots(n)
    <3>1. flush'[o] = <<>> /\ \A p \in Opens : p # o => flush'[p] = flush[p]
      BY <1>3, TypedParts DEF QueuesTyped
    <3>2. QED
      BY <3>1, FlushMoves
  <2>2. SentSpots(n)' = SentSpots(n)
    BY <1>3, SameSpots DEF ForwardErr
  <2>3. QED
    BY <1>2, <2>1, <2>2, Stays DEF Spots
<1>4. CASE ForwardOk(o, m) /\ flush' = [flush EXCEPT ![o] = Tail(@)]
  <2>1. PICK new : SentSpots(n)' \subseteq SentSpots(n) \cup (IF m = n THEN {new} ELSE {}) /\ new[1] = "fwd"
    BY <1>4, SentMoves
  <2>2. flush'[o] = Tail(flush[o]) /\ \A p \in Opens : p # o => flush'[p] = flush[p]
    BY <1>4, TypedParts DEF QueuesTyped
  <2>3. \A i \in 1 .. Len(Tail(flush[o])) : i + 1 \in 2 .. Len(flush[o]) /\ Tail(flush[o])[i] = flush[o][i + 1]
    BY <1>1, FirstAndRest
  <2>4. m = flush[o][1] /\ 1 \in 1 .. Len(flush[o]) /\ Len(flush[o]) \in Nat
    BY <1>1, FirstAndRest
  <2>5. \A i \in 1 .. Len(flush[o]) : flush[o][i] = n => <<"flush", o, i>> \in Spots(n)
    BY DEF Spots, FlushSpots
  <2> HIDE DEF m
  <2>6. \A a \in FlushSpots(n)' :
          \/ a \in FlushSpots(n) /\ a[2] # o
          \/ \E i \in Nat \ {0} : a = <<"flush", o, i>> /\ <<"flush", o, i + 1>> \in Spots(n)
    <3>1. ASSUME NEW i \in 1 .. Len(flush'[o]), flush'[o][i] = n
          PROVE  i \in Nat \ {0} /\ <<"flush", o, i + 1>> \in Spots(n)
      BY <2>2, <2>3, <2>4, <2>5, <3>1
    <3>2. \A a \in FlushSpots(n)' :
            \/ a \in FlushSpots(n) /\ a[2] # o
            \/ \E i \in 1 .. Len(flush'[o]) : flush'[o][i] = n /\ a = <<"flush", o, i>>
      BY <2>2, FlushMoves
    <3>3. QED
      BY <3>1, <3>2, Zenon
  <2>7. \A a \in SentSpots(n)' : \/ a \in SentSpots(n) /\ a[1] = "fwd"
                                 \/ a = new /\ a[1] = "fwd" /\ <<"flush", o, 1>> \in Spots(n)
    BY <2>1, <2>4, <2>5, SpotKinds
  <2> DEFINE src == [a \in Spots(n)' |-> IF a = new /\ <<"flush", o, 1>> \in Spots(n) THEN <<"flush", o, 1>>
                                         ELSE IF a[1] = "flush" /\ a[2] = o THEN <<"flush", o, a[3] + 1>>
                                         ELSE a]
  <2>8. \A a \in Spots(n)' :
          \/ src[a] = a /\ a \in Spots(n) /\ (a[1] = "flush" => a[2] # o)
          \/ \E i \in Nat \ {0} : a = <<"flush", o, i>> /\ src[a] = <<"flush", o, i + 1>> /\ src[a] \in Spots(n)
          \/ a = new /\ src[a] = <<"flush", o, 1>> /\ src[a] \in Spots(n)
    <3>1. ASSUME NEW a \in WorkerSpots(n) \cup QueueSpots(n), a \in Spots(n)'
          PROVE  src[a] = a /\ a \in Spots(n) /\ (a[1] = "flush" => a[2] # o)
      <4>1. a[1] # "flush" /\ a # new
        BY <2>1, SpotKinds
      <4>2. QED
        BY <3>1, <4>1 DEF Spots
    <3>2. ASSUME NEW a \in FlushSpots(n)', a \in Spots(n)', a \in FlushSpots(n) /\ a[2] # o
          PROVE  src[a] = a /\ a \in Spots(n) /\ (a[1] = "flush" => a[2] # o)
      <4>1. a[1] = "flush" /\ a # new
        BY <2>1, <3>2, SpotKinds
      <4>2. QED
        BY <3>2, <4>1 DEF Spots
    <3>3. ASSUME NEW i \in Nat \ {0}, <<"flush", o, i>> \in Spots(n)', <<"flush", o, i + 1>> \in Spots(n)
          PROVE  src[<<"flush", o, i>>] = <<"flush", o, i + 1>>
      <4>1. <<"flush", o, i>> # new
        BY <2>1
      <4>2. QED
        BY <3>3, <4>1
    <3>4. ASSUME NEW a \in SentSpots(n)', a \in Spots(n)'
          PROVE  \/ src[a] = a /\ a \in Spots(n) /\ (a[1] = "flush" => a[2] # o)
                 \/ a = new /\ src[a] = <<"flush", o, 1>> /\ src[a] \in Spots(n)
      BY <2>7, <3>4 DEF Spots
    <3> HIDE DEF src
    <3>5. \A a \in Spots(n)' : a \in WorkerSpots(n) \cup QueueSpots(n) \cup FlushSpots(n)' \cup SentSpots(n)'
      BY <1>2 DEF Spots
    <3>6. ASSUME NEW a \in FlushSpots(n)', a \in Spots(n)', NEW i \in Nat \ {0},
                 a = <<"flush", o, i>>, <<"flush", o, i + 1>> \in Spots(n)
          PROVE  \E j \in Nat \ {0} : a = <<"flush", o, j>> /\ src[a] = <<"flush", o, j + 1>> /\ src[a] \in Spots(n)
      BY <3>3, <3>6
    <3>7. QED
      BY <2>6, <3>1, <3>2, <3>4, <3>5, <3>6
  <2> HIDE DEF src
  <2>9. \A a, b \in Spots(n)' : src[a] = src[b] => a = b
    BY <2>8
  <2>10. QED
    BY <2>8, <2>9, AllMove
<1>5. QED
  BY <1>3, <1>4 DEF FlushQueued

\* So every step keeps each datagram in one place.
LEMMA ApartStep ==
  ASSUME Typed, Linked, AllFit, Apart, [UdpNext]_udpVars
  PROVE  Apart'
<1> SUFFICES ASSUME NEW n \in 1 .. MaxPkts PROVE OneSpot(n)'
  BY DEF Apart
<1>1. ASSUME UNCHANGED <<worker, queue, flush, fwd>> PROVE OneSpot(n)'
  BY <1>1, SameSpots, Stays DEF Spots
<1>2. ASSUME NEW o \in Opens, OpenFails(o) \/ Superseded(o) PROVE OneSpot(n)'
  <2>1. queue' = [queue EXCEPT ![o] = <<>>] /\ UNCHANGED <<worker, flush, fwd>>
    BY <1>2 DEF OpenFails, Superseded
  <2>2. queue'[o] = <<>> /\ \A p \in Opens : p # o => queue'[p] = queue[p]
    BY <2>1, TypedParts DEF QueuesTyped
  <2>3. QueueSpots(n)' \subseteq QueueSpots(n)
    BY <2>2, QueueMoves
  <2>4. QED
    BY <2>1, <2>3, SameSpots, Stays DEF Spots
<1>3. CASE UNCHANGED udpVars
  BY <1>1, <1>3 DEF udpVars
<1>4. CASE UdpNext
  BY <1>1, <1>2, <1>4, Touches, DispatchApart, WorkersApart, TakeApart, FlushApart, Zenon
<1>5. QED
  BY <1>3, <1>4
-----------------------------------------------------------------------------
(***************************************************************************)
(* The session quota.                                                      *)
(***************************************************************************)

\* The incarnations whose permit counts for a class, and for a client.
UsedBy(c) == {o \in Opens : HoldsPermit(o) /\ ClassOf(open[o].key.peer) = c}
SharedBy(p) == {o \in Opens : HoldsPermit(o) /\ SameSharedClient(open[o].key.peer, p)}
QuotaKept ==
  /\ \A c \in Classes : Cardinality(UsedBy(c)) <= SessionLimit[c]
  /\ \A p \in Peers : Cardinality(SharedBy(p)) <= MaxSessionsPerClient

\* An incarnation that holds a permit after the step held one before, for the same key.
StillHeld(o) == HoldsPermit(o)' => HoldsPermit(o) /\ open'[o].key = open[o].key

\* Slots only go to openers, sessions only to slots and workers that find them there,
\* readers are only started by openers.
LEMMA PermitsKept ==
  ASSUME \A k \in Keys : SlotMoves(k), \A w \in Workers : WorkerMoves(w), NEW o \in Opens,
         open'[o].key = open[o].key, open'[o].phase \in OpenerLive => open[o].phase \in OpenerLive,
         reader'[o] \notin {"none", "gone"} => reader[o] \notin {"none", "gone"} \/ open[o].phase \in OpenerLive
  PROVE  StillHeld(o)
<1>1. SessionBuilt \subseteq OpenerLive /\ o # NoOpen
  BY UdpConstants DEF SessionBuilt, OpenerLive
<1>2. ASSUME NEW k \in Keys, slotOwner'[k] = o \/ slotSess'[k] = o PROVE HoldsPermit(o)
  BY <1>1, <1>2 DEF SlotMoves, HoldsPermit, SessionHeld
<1>3. ASSUME NEW w \in Workers, worker'[w].pc = "forward", worker'[w].open = o PROVE HoldsPermit(o)
  BY <1>3 DEF WorkerMoves, HoldsPermit, SessionHeld
<1>4. ASSUME open'[o].phase \in OpenerLive \cup SessionBuilt PROVE HoldsPermit(o)
  BY <1>1, <1>4 DEF HoldsPermit
<1>5. ASSUME reader'[o] \notin {"none", "gone"} PROVE HoldsPermit(o)
  BY <1>5 DEF HoldsPermit
<1>6. QED
  BY <1>2, <1>3, <1>4, <1>5 DEF StillHeld, HoldsPermit, SessionHeld

\* A worker gives a permit to at most one more incarnation, if the budgets grant it.
LEMMA FindSlotPermits ==
  ASSUME Typed, Linked, NEW w \in Workers, FindSlot(w)
  PROVE  \/ \A o \in Opens : StillHeld(o)
         \/ \E n \in Opens, k \in Keys : /\ SessionGranted(k.peer) /\ open'[n].key = k
                                         /\ \A o \in Opens \ {n} : StillHeld(o)
<1> DEFINE k == worker[w].key
<1>1. /\ UNCHANGED reader /\ k \in Keys /\ open \in [Opens -> Incarnations]
      /\ worker \in [Workers -> Chores] /\ worker[w] \in Chores
      /\ slotOwner \in [Keys -> Opens \cup {NoOpen}]
  BY TypedParts DEF FindSlot, WorkersTyped, Chores, TablesTyped
<1>2. CASE ReadySlot(w)
  <2> DEFINE c == [worker[w] EXCEPT !.pc = "forward", !.open = slotSess[k]]
  <2>1. /\ UNCHANGED <<slotOwner, slotSess, open>>
        /\ \A v \in Workers : worker'[v] = IF v = w THEN c ELSE worker[v]
    BY <1>1, <1>2 DEF ReadySlot
  <2>2. c.open = slotSess[k]
    BY <1>1 DEF Chores
  <2> HIDE DEF c
  <2>3. ASSUME NEW o \in Opens PROVE StillHeld(o)
    BY <1>1, <2>1, <2>2 DEF StillHeld, HoldsPermit, SessionHeld
  <2>4. QED
    BY <2>3
<1>3. CASE PendingSlot(w)
  <2> DEFINE c == [worker[w] EXCEPT !.pc = "push", !.open = slotOwner[k]]
  <2>1. /\ UNCHANGED <<slotOwner, slotSess, open>>
        /\ \A v \in Workers : worker'[v] = IF v = w THEN c ELSE worker[v]
    BY <1>1, <1>3 DEF PendingSlot
  <2>2. c.pc = "push"
    BY <1>1 DEF Chores
  <2> HIDE DEF c
  <2>3. ASSUME NEW o \in Opens PROVE StillHeld(o)
    BY <1>1, <2>1, <2>2 DEF StillHeld, HoldsPermit, SessionHeld
  <2>4. QED
    BY <2>3
<1>4. CASE VacantSlot(w)
  <2>1. UNCHANGED slotSess /\ worker' = [worker EXCEPT ![w] = Idle]
    BY <1>4 DEF VacantSlot
  <2>2. \A v \in Workers : WorkerMoves(v)
    BY <2>1, IdleMoves
  <2>3. CASE UNCHANGED <<slotOwner, open>>
    BY <1>1, <2>1, <2>2, <2>3, PermitsKept DEF SlotMoves
  <2>4. ASSUME SessionGranted(k.peer), NEW n \in Opens, NEW host \in BOOLEAN,
               slotOwner' = [slotOwner EXCEPT ![k] = n],
               open' = [open EXCEPT ![n] = [phase |-> "opening", key |-> k,
                                            host |-> host, direct |-> FALSE]]
        PROVE  /\ SessionGranted(k.peer) /\ open'[n].key = k
               /\ \A o \in Opens \ {n} : StillHeld(o)
    <3>1. /\ open'[n].key = k /\ \A o \in Opens \ {n} : open'[o] = open[o]
          /\ \A j \in Keys : slotOwner'[j] = IF j = k THEN n ELSE slotOwner[j]
      BY <1>1, <2>4
    <3>2. ASSUME NEW o \in Opens \ {n} PROVE StillHeld(o)
      BY <1>1, <2>1, <2>2, <3>1 DEF StillHeld, HoldsPermit, SessionHeld, WorkerMoves
    <3>3. QED
      BY <2>4, <3>1, <3>2
  <2>5. QED
    BY <1>1, <1>4, <2>3, <2>4 DEF VacantSlot
<1>5. QED
  BY <1>2, <1>3, <1>4 DEF FindSlot

\* No other step gives a permit to anyone new.
LEMMA OthersPermits ==
  ASSUME Typed, Linked, UdpNext, \A w \in Workers : ~FindSlot(w), NEW o \in Opens
  PROVE  StillHeld(o)
<1>1. /\ open \in [Opens -> Incarnations] /\ reader \in [Opens -> ReaderStates]
      /\ slotOwner \in [Keys -> Opens \cup {NoOpen}] /\ slotSess \in [Keys -> Opens \cup {NoOpen}]
      /\ \A p \in Opens : open[p].key \in Keys
  BY TypedParts DEF TablesTyped, ReadersTyped, Incarnations
<1>2. ASSUME UNCHANGED worker PROVE \A v \in Workers : WorkerMoves(v)
  BY <1>2 DEF WorkerMoves
<1>3. ASSUME UNCHANGED <<slotOwner, slotSess>> PROVE \A k \in Keys : SlotMoves(k)
  BY <1>3 DEF SlotMoves
<1>4. ASSUME NEW rd, Settle(rd), rd[o] \in {"none", "gone"} PROVE reader'[o] \in {"none", "gone"}
  BY <1>4, SettleAborts
\* What is left is the opener's phase and the reader.
<1>5. ASSUME \A k \in Keys : SlotMoves(k), \A w \in Workers : WorkerMoves(w), UNCHANGED open,
             reader'[o] \notin {"none", "gone"} => reader[o] \notin {"none", "gone"}
      PROVE  StillHeld(o)
  BY <1>5, PermitsKept
<1>6. ASSUME NEW w \in Workers, NEW p \in Peers, NEW d \in Dsts, NEW quic \in BOOLEAN, Dispatch(w, p, d, quic)
      PROVE  StillHeld(o)
  <2> DEFINE c == [pc |-> "slot", pkt |-> Len(pkts) + 1, key |-> KeyOf(p, d, FlowKind(p, d, quic)),
                   open |-> NoOpen]
  <2>1. /\ c.pc = "slot" /\ (worker' = worker \/ worker' = [worker EXCEPT ![w] = c])
        /\ UNCHANGED <<slotOwner, slotSess, open, reader>>
    BY <1>6 DEF Dispatch
  <2> HIDE DEF c
  <2>2. \A v \in Workers : WorkerMoves(v)
    BY <2>1, TypedParts DEF WorkerMoves, WorkersTyped
  <2>3. QED
    BY <1>3, <1>5, <2>1, <2>2
<1>7. ASSUME NEW w \in Workers, Push(w) PROVE StillHeld(o)
  BY <1>3, <1>5, <1>7, IdleMoves DEF Push, tables
<1>8. ASSUME NEW w \in Workers, WorkerForward(w) PROVE StillHeld(o)
  <2>1. LearnHost(worker[w].open) /\ worker[w].open \in Opens
    BY <1>8, ForwardSends DEF WorkerForward, Linked, WorkerLinks, Known
  <2>2. open'[o].phase = open[o].phase /\ open'[o].key = open[o].key
    BY <2>1, LearnHostOnly DEF Typed
  <2>3. UNCHANGED <<slotOwner, slotSess>> /\ Settle(reader) /\ \A v \in Workers : WorkerMoves(v)
    BY <1>8, IdleMoves DEF WorkerForward, tables
  <2>4. QED
    BY <1>3, <1>4, <2>2, <2>3, PermitsKept
<1>9. ASSUME NEW p \in Opens, NEW direct \in BOOLEAN, Opened(p, direct) PROVE StillHeld(o)
  <2>1. /\ open'[o].key = open[o].key
        /\ open'[o].phase \in OpenerLive => open[o].phase \in OpenerLive
    BY <1>9, OpenedOnly DEF Typed, Opened, OpenerLive
  <2>2. reader'[o] = reader[o] \/ open[o].phase \in OpenerLive
    BY <1>1, <1>9 DEF Opened, OpenerLive
  <2>3. UNCHANGED <<slotOwner, slotSess, worker>>
    BY <1>9 DEF Opened, tables
  <2>4. QED
    BY <1>2, <1>3, <2>1, <2>2, <2>3, PermitsKept
<1>10. ASSUME NEW p \in Opens,
              OpenFails(p) \/ RemoveFailed(p) \/ Install(p) \/ Superseded(p) \/ TakeQueue(p) \/ OpenerEnds(p)
       PROVE  StillHeld(o)
  <2>1. PICK ph \in {"failed", "ended", "installed", "superseded", "flushing"} :
          open' = [open EXCEPT ![p].phase = ph]
    BY <1>10 DEF OpenFails, RemoveFailed, Install, Superseded, TakeQueue, OpenerEnds
  <2>2. ph \in Phases /\ open[p].phase \in OpenerLive
    BY <1>10 DEF Phases, OpenerLive, OpenFails, RemoveFailed, Install, Superseded, TakeQueue, OpenerEnds
  <2>3. /\ open'[o].key = open[o].key
        /\ open'[o].phase \in OpenerLive => open[o].phase \in OpenerLive
    BY <2>1, <2>2, PhaseOnly DEF Typed
  <2>4. UNCHANGED worker /\ (reader' = reader \/ Settle(reader))
    BY <1>10 DEF OpenFails, RemoveFailed, Install, Superseded, TakeQueue, OpenerEnds
  <2>5. \A k \in Keys : SlotMoves(k)
    BY <1>1, <1>10 DEF OpenFails, RemoveFailed, Install, Superseded, TakeQueue, OpenerEnds, tables,
                       SlotMoves, StillPending
  <2>6. QED
    BY <1>2, <1>4, <2>3, <2>4, <2>5, PermitsKept
<1>11. ASSUME NEW p \in Opens, FlushQueued(p) PROVE StillHeld(o)
  <2>1. open'[o].phase = open[o].phase /\ open'[o].key = open[o].key
    BY <1>11, ForwardSends, LearnHostOnly DEF FlushQueued, Typed
  <2>2. UNCHANGED <<slotOwner, slotSess, worker, reader>>
    BY <1>11 DEF FlushQueued, tables
  <2>3. QED
    BY <1>2, <1>3, <2>1, <2>2, PermitsKept
<1>12. ASSUME NEW p \in Opens, ReaderBreaks(p) \/ ReaderRemovesFlows(p) \/ ReaderClosesRecord(p) \/ ReaderDropped(p)
       PROVE  StillHeld(o)
  <2>1. UNCHANGED <<slotOwner, slotSess, worker, open>>
    BY <1>12 DEF ReaderBreaks, ReaderRemovesFlows, ReaderClosesRecord, ReaderDropped, tables
  <2>2. reader'[o] \notin {"none", "gone"} => reader[o] \notin {"none", "gone"}
    BY <1>1, <1>12 DEF ReaderBreaks, ReaderRemovesFlows, ReaderClosesRecord, ReaderDropped
  <2>3. QED
    BY <1>2, <1>3, <1>5, <2>1, <2>2
<1>13. ASSUME NEW p \in Opens, ReaderRemovesSlot(p) PROVE StillHeld(o)
  <2> DEFINE rd == [reader EXCEPT ![p] = "tailFlow"]
  <2>1. UNCHANGED <<open, worker>> /\ Settle(rd) /\ reader[p] = "tailSlot"
    BY <1>13 DEF ReaderRemovesSlot
  <2>2. rd[o] \in {"none", "gone"} \/ reader[o] \notin {"none", "gone"}
    BY <1>1, <2>1
  <2> HIDE DEF rd
  <2>3. \A k \in Keys : SlotMoves(k)
    BY <1>1, <1>13 DEF ReaderRemovesSlot, RemoveSlot, SlotMoves
  <2>4. QED
    BY <1>2, <1>4, <1>5, <2>1, <2>2, <2>3
<1>14. ASSUME NEW k \in Keys, SweepSlot(k) PROVE StillHeld(o)
  <2>1. \A j \in Keys : SlotMoves(j)
    BY <1>1, <1>14 DEF SweepSlot, RemoveSlot, SlotMoves
  <2>2. UNCHANGED <<open, worker>> /\ Settle(reader)
    BY <1>14 DEF SweepSlot
  <2>3. QED
    BY <1>2, <1>4, <1>5, <2>1, <2>2
<1>15. CASE \/ \E f \in Flows : SweepFlow(f)
            \/ \E pc, next, slots, flows : SweepLists(pc, next, slots, flows)
  BY <1>2, <1>3, <1>5, <1>15 DEF SweepFlow, SweepLists, tables
<1>16. QED
  BY <1>6, <1>7, <1>8, <1>9, <1>10, <1>11, <1>12, <1>13, <1>14, <1>15, UdpSteps, Zenon

\* A finite set that lost members and gained at most one.
LEMMA AtMostOneMore ==
  ASSUME NEW S, IsFiniteSet(S), NEW T
  PROVE  /\ T \subseteq S => Cardinality(T) \in Nat /\ Cardinality(T) <= Cardinality(S)
         /\ \A x : T \subseteq S \cup {x} => Cardinality(T) \in Nat /\ Cardinality(T) <= Cardinality(S) + 1
<1>1. /\ Cardinality(S) \in Nat
      /\ T \subseteq S => Cardinality(T) \in Nat /\ Cardinality(T) <= Cardinality(S)
  BY FS_CardinalityType, FS_Subset
<1>2. ASSUME NEW x, T \subseteq S \cup {x} PROVE Cardinality(T) \in Nat /\ Cardinality(T) <= Cardinality(S) + 1
  <2>1. /\ IsFiniteSet(S \cup {x})
        /\ Cardinality(S \cup {x}) = Cardinality(S) \/ Cardinality(S \cup {x}) = Cardinality(S) + 1
    BY FS_AddElement
  <2>2. Cardinality(T) <= Cardinality(S \cup {x})
    BY <1>2, <2>1, FS_Subset
  <2>3. Cardinality(T) \in Nat
    BY <1>2, <2>1, FS_Subset, FS_CardinalityType
  <2>4. QED
    BY <1>1, <2>1, <2>2, <2>3
<1>3. QED
  BY <1>1, <1>2

\* The sets the budgets count are finite.
LEMMA PermitSets ==
  /\ \A c : IsFiniteSet(UsedBy(c)) /\ Cardinality(UsedBy(c)) \in Nat
  /\ \A p : IsFiniteSet(SharedBy(p)) /\ Cardinality(SharedBy(p)) \in Nat
<1>1. \A c : UsedBy(c) \subseteq Opens
  BY DEF UsedBy
<1>2. \A p : SharedBy(p) \subseteq Opens
  BY DEF SharedBy
<1>3. QED
  BY <1>1, <1>2, UdpConstants, FS_Subset, FS_CardinalityType

\* Every step keeps the quota.
LEMMA QuotaStep ==
  ASSUME Typed, Linked, QuotaKept, [UdpNext]_udpVars
  PROVE  QuotaKept'
<1>0. MaxSessionsPerClient \in Nat /\ \A c \in Classes : SessionLimit[c] \in Nat
  BY UdpConstants
<1>1. ASSUME \A o \in Opens : StillHeld(o) PROVE QuotaKept'
  <2>1. ASSUME NEW c PROVE Cardinality(UsedBy(c)') \in Nat /\ Cardinality(UsedBy(c)') <= Cardinality(UsedBy(c))
    <3>1. UsedBy(c)' \subseteq UsedBy(c)
      BY <1>1 DEF UsedBy, StillHeld, ClassOf
    <3>2. QED
      BY <3>1, PermitSets, AtMostOneMore
  <2>2. ASSUME NEW p PROVE Cardinality(SharedBy(p)') \in Nat /\ Cardinality(SharedBy(p)') <= Cardinality(SharedBy(p))
    <3>1. SharedBy(p)' \subseteq SharedBy(p)
      BY <1>1 DEF SharedBy, StillHeld, SameSharedClient, ClassOf
    <3>2. QED
      BY <3>1, PermitSets, AtMostOneMore
  <2>3. QED
    BY <1>0, <2>1, <2>2, PermitSets DEF QuotaKept
<1>2. ASSUME NEW n \in Opens, NEW k \in Keys, SessionGranted(k.peer), open'[n].key = k,
             \A o \in Opens \ {n} : StillHeld(o)
      PROVE  QuotaKept'
  <2>1. ASSUME NEW c \in Classes PROVE Cardinality(UsedBy(c)') <= SessionLimit[c]
    <3>1. CASE c = ClassOf(k.peer)
      <4>1. UsedBy(c)' \subseteq UsedBy(c) \cup {n}
        BY <1>2 DEF UsedBy, StillHeld, ClassOf
      <4>2. Cardinality(UsedBy(c)) < SessionLimit[c]
        BY <1>2, <3>1 DEF SessionGranted, SessionsUsed, UsedBy
      <4>3. QED
        BY <1>0, <4>1, <4>2, PermitSets, AtMostOneMore
    <3>2. CASE c # ClassOf(k.peer)
      <4>1. UsedBy(c)' \subseteq UsedBy(c)
        BY <1>2, <3>2 DEF UsedBy, StillHeld, ClassOf
      <4>2. QED
        BY <1>0, <4>1, PermitSets, AtMostOneMore DEF QuotaKept
    <3>3. QED
      BY <3>1, <3>2
  <2>2. ASSUME NEW p \in Peers PROVE Cardinality(SharedBy(p)') <= MaxSessionsPerClient
    <3>1. CASE SameSharedClient(k.peer, p)
      <4>1. SharedBy(p)' \subseteq SharedBy(p) \cup {n}
        BY <1>2 DEF SharedBy, StillHeld, SameSharedClient, ClassOf
      <4>2. SharedBy(p) = SharedBy(k.peer)
        BY <3>1 DEF SharedBy, SameSharedClient
      <4>3. Cardinality(SharedBy(k.peer)) < MaxSessionsPerClient
        BY <1>2 DEF SessionGranted, SharedClientSessions, SharedBy
      <4>4. QED
        BY <1>0, <4>1, <4>2, <4>3, PermitSets, AtMostOneMore
    <3>2. CASE ~SameSharedClient(k.peer, p)
      <4>1. SharedBy(p)' \subseteq SharedBy(p)
        BY <1>2, <3>2 DEF SharedBy, StillHeld, SameSharedClient, ClassOf
      <4>2. QED
        BY <1>0, <4>1, PermitSets, AtMostOneMore DEF QuotaKept
    <3>3. QED
      BY <3>1, <3>2
  <2>3. QED
    BY <2>1, <2>2 DEF QuotaKept
<1>3. CASE UNCHANGED udpVars
  BY <1>1, <1>3 DEF udpVars, tables, StillHeld, HoldsPermit, SessionHeld
<1>4. CASE UdpNext
  BY <1>1, <1>2, <1>4, FindSlotPermits, OthersPermits, Zenon
<1>5. QED
  BY <1>3, <1>4
-----------------------------------------------------------------------------
(***************************************************************************)
(* The theorems.                                                           *)
(***************************************************************************)

UdpInv == Typed /\ Linked /\ RecordHasCloser /\ AllFit /\ Apart /\ QuotaKept

\* The whole invariant holds at the start, is kept, and so always holds.
LEMMA UdpInvInit == UdpInit => UdpInv
<1>1. ASSUME UdpInit PROVE UdpInv
  <2>1. /\ NotOpened.phase = "free" /\ Idle.pc = "idle" /\ \A o \in Opens : o # NoOpen
    BY UdpConstants DEF NotOpened, Idle
  <2>2. Linked
    BY <1>1, <2>1 DEF UdpInit, Linked, InstalledByOwner, SlotLinks, WorkerLinks, QueueLinks
  <2>3. RecordHasCloser
    BY <1>1 DEF UdpInit, RecordHasCloser
  <2>4. FlowsFit /\ WorkersFit /\ QueuesFit /\ FlushesFit /\ SentFit
    BY <1>1, <2>1 DEF UdpInit, FlowsFit, WorkersFit, QueuesFit, FlushesFit, SentFit
  <2>5. Apart
    <3>1. ASSUME NEW n \in 1 .. MaxPkts PROVE Spots(n) = {}
      <4>1. n \notin 1 .. Len(pkts)
        BY <1>1 DEF UdpInit
      <4>2. QED
        BY <2>4, <4>1, NowhereYet DEF AllFit
    <3>2. QED
      BY <3>1 DEF Apart, OneSpot
  <2>6. QuotaKept
    <3>1. \A o \in Opens : ~HoldsPermit(o)
      BY <1>1, <2>1 DEF UdpInit, HoldsPermit, SessionHeld, OpenerLive, SessionBuilt
    <3>2. (\A c : UsedBy(c) = {}) /\ \A p : SharedBy(p) = {}
      BY <3>1 DEF UsedBy, SharedBy
    <3>3. Cardinality({}) = 0
      BY FS_EmptySet
    <3>4. QED
      BY <3>2, <3>3, UdpConstants DEF QuotaKept
  <2>7. QED
    BY <1>1, <2>2, <2>3, <2>4, <2>5, <2>6, InitTyped DEF UdpInv, AllFit
<1>2. QED
  BY <1>1

\* Every step keeps the whole invariant.
LEMMA UdpInvStep ==
  ASSUME UdpInv, [UdpNext]_udpVars
  PROVE  UdpInv'
BY TypedStep, LinkedStep, RecordsStep, FitStep, ApartStep, QuotaStep, Zenon DEF UdpInv, Linked, AllFit

\* In every reachable state of the engines all parts of the invariant hold.
THEOREM UdpInvariant == UdpSpec => []UdpInv
BY UdpInvInit, UdpInvStep, PTL DEF UdpSpec

\* Slots, sessions and records belong together: whatever opens, fails, is swept or
\* breaks meanwhile, a session is only in the slot its own opener made, and an open
\* record has someone left to close it.
THEOREM UdpSlotsOwned == UdpSpec => []SlotsOwned
<1>1. UdpInv => SlotsOwned
  BY DEF UdpInv, Typed, Linked, SlotsOwned
<1>2. QED
  BY <1>1, UdpInvariant, PTL

\* A datagram is in one place, with someone who will take it from there, and never
\* leaves under a fake address.
THEOREM UdpPacketsSafe == UdpSpec => []PacketsSafe
<1>1. ASSUME UdpInv PROVE PacketsSafe
  <2>1. NoStuckPackets
    BY <1>1 DEF UdpInv, Linked, QueueLinks, Accepting, NoStuckPackets
  <2>2. NoFakeAddressUpstream
    BY <1>1 DEF UdpInv, AllFit, SentFit, NoFakeAddressUpstream
  <2>3. ASSUME NEW n \in 1 .. MaxPkts PROVE Cardinality(Places(n)) <= 1
    <3>1. \A a \in Places(n) : a \in Spots(n)
      BY DEF Places, Spots, WorkerSpots, QueueSpots, FlushSpots, SentSpots
    <3>2. \A a, b \in Places(n) : a = b
      BY <1>1, <3>1 DEF UdpInv, Apart, OneSpot
    <3>3. CASE Places(n) = {}
      BY <3>3, FS_EmptySet
    <3>4. CASE Places(n) # {}
      <4>1. PICK a : Places(n) = {a}
        BY <3>2, <3>4
      <4>2. QED
        BY <4>1, FS_Singleton
    <3>5. QED
      BY <3>3, <3>4
  <2>4. QED
    BY <2>1, <2>2, <2>3 DEF PacketsSafe, OnePlacePerPacket
<1>2. QED
  BY <1>1, UdpInvariant, PTL

\* However fast slots are swept, torn down and opened again, the upstream sockets of
\* each class and of each client stay within the session quota.
THEOREM UdpQuota == UdpSpec => []SocketsWithinQuota
<1>1. ASSUME UdpInv PROVE SocketsWithinQuota
  <2>1. \A o \in Opens : HasSocket(o) => HoldsPermit(o)
    BY DEF HasSocket, HoldsPermit, SessionBuilt, OpenerLive
  <2>2. ASSUME NEW c \in Classes
        PROVE  Cardinality({o \in Opens : HasSocket(o) /\ ClassOf(open[o].key.peer) = c}) <= SessionLimit[c]
    <3> DEFINE T == {o \in Opens : HasSocket(o) /\ ClassOf(open[o].key.peer) = c}
    <3>1. T \subseteq UsedBy(c)
      BY <2>1 DEF UsedBy
    <3> HIDE DEF T
    <3>2. Cardinality(T) \in Nat /\ Cardinality(T) <= Cardinality(UsedBy(c)) /\ Cardinality(UsedBy(c)) \in Nat
      BY <3>1, PermitSets, FS_Subset, FS_CardinalityType
    <3>3. Cardinality(UsedBy(c)) <= SessionLimit[c] /\ SessionLimit[c] \in Nat
      BY <1>1, UdpConstants DEF UdpInv, QuotaKept
    <3>4. Cardinality(T) <= SessionLimit[c]
      BY <3>2, <3>3
    <3>5. QED
      BY <3>4 DEF T
  <2>3. ASSUME NEW p \in Peers
        PROVE  Cardinality({o \in Opens : HasSocket(o) /\ SameSharedClient(open[o].key.peer, p)})
                 <= MaxSessionsPerClient
    <3> DEFINE T == {o \in Opens : HasSocket(o) /\ SameSharedClient(open[o].key.peer, p)}
    <3>1. T \subseteq SharedBy(p)
      BY <2>1 DEF SharedBy
    <3> HIDE DEF T
    <3>2. Cardinality(T) \in Nat /\ Cardinality(T) <= Cardinality(SharedBy(p)) /\ Cardinality(SharedBy(p)) \in Nat
      BY <3>1, PermitSets, FS_Subset, FS_CardinalityType
    <3>3. Cardinality(SharedBy(p)) <= MaxSessionsPerClient /\ MaxSessionsPerClient \in Nat
      BY <1>1, UdpConstants DEF UdpInv, QuotaKept
    <3>4. Cardinality(T) <= MaxSessionsPerClient
      BY <3>2, <3>3
    <3>5. QED
      BY <3>4 DEF T
  <2>4. QED
    BY <2>2, <2>3 DEF SocketsWithinQuota
<1>2. QED
  BY <1>1, UdpInvariant, PTL
=============================================================================
