------------------------------- MODULE Inbound -------------------------------
(***************************************************************************)
(* The proxy ports: accept_loop, the handshake of a client (SOCKS5 or      *)
(* HTTP) and the UDP association of udp_associate_inbound, two tasks that  *)
(* share the relay socket, the session permit and the records.  A TCP      *)
(* client that finishes its handshake is handed to the TCP engine          *)
(* (TcpRoute); the body of a forwarded request is HttpForward's.           *)
(***************************************************************************)
EXTENDS Naturals, FiniteSets

CONSTANTS Conns,       \* client connections
          Client,      \* Client[c]: the address the connection comes from
          Profile,     \* Profile[c]: "open" (OPENPORT) or "health" (HEALTHCHECK)
          Allowed,     \* the addresses proxy_cidr lets in
          AuthOn,      \* openport_auth is set
          UdpOn,       \* InboundProxyParams::udp
          Direct,      \* udp_upstream is Direct: names are resolved here
          Targets,     \* what a datagram names: addresses and hosts
          Named,       \* the targets that are host names
          Fake,        \* the targets that are fake addresses nobody owns
          MaxTargets,  \* MAX_TARGETS_PER_ASSOC
          Limit,       \* Limit[class]: sessions of the budget
          PerClient,   \* sessions of one client
          Idle,        \* udp_idle, in ticks
          MaxPackets, MaxNoise, NoTarget

VARIABLES session,      \* the task of each connection
          reply,     \* the reply task of each association
          held,      \* who holds the Arc of the session permit
          used,      \* Budget::State
          recs,      \* UdpAssocRecords
          age,       \* the clocks of an association
          sent,      \* datagrams taken from clients and sent upstream
          total,     \* TrafficAgg totals
          want,      \* the host whose address is being looked up
          noise      \* events that are not datagrams sent upstream

inVars == <<session, reply, held, used, recs, age, sent, total, want, noise>>

Classes == {"open", "health"}

ASSUME InboundConstants ==
  /\ IsFiniteSet(Conns) /\ Profile \in [Conns -> Classes] /\ Limit \in [Classes -> Nat]
  /\ Idle \in Nat /\ MaxTargets \in Nat /\ NoTarget \notin Targets

NoRecs == [by |-> {}, last |-> NoTarget, up |-> [t \in Targets |-> 0], open |-> {}]
NoAge == [sleep |-> 0, down |-> 0, quiet |-> 0]

InInit == /\ session = [c \in Conns |-> "new"]
          /\ reply = [c \in Conns |-> FALSE]
          /\ held = [c \in Conns |-> {}]
          /\ used = [class \in Classes |-> 0]
          /\ recs = [c \in Conns |-> NoRecs]
          /\ age = [c \in Conns |-> NoAge]
          /\ sent = [c \in Conns |-> 0]
          /\ want = [c \in Conns |-> NoTarget]
          /\ total = 0 /\ noise = 0

assocVars == <<reply, held, used, recs, age, sent, total, want, noise>>
To(c, at) == session' = [session EXCEPT ![c] = at]

-----------------------------------------------------------------------------
(* The handshake *)

Accepts(c) ==
  /\ session[c] = "new"
  /\ To(c, IF Profile[c] = "open" /\ Client[c] \notin Allowed THEN "closed" ELSE "peek")
  /\ UNCHANGED assocVars

\* The first byte is peeked, not read; a client that leaves costs nothing.
Peeks(c, first) ==
  /\ session[c] = "peek"
  /\ To(c, CASE first = "eof" -> "closed" [] first = "socks" -> "greet" [] first = "http" -> "head")
  /\ UNCHANGED assocVars

\* negotiate_method and verify_userpass
Negotiates(c, offer) ==
  /\ session[c] = "greet"
  /\ LET asked == Profile[c] = "open" /\ AuthOn IN
     To(c, IF offer = (IF asked THEN "password" ELSE "none") THEN "request" ELSE "closed")
  /\ UNCHANGED assocVars

\* read_request
Handshakes(c, cmd) ==
  /\ session[c] = "request"
  /\ To(c, CASE cmd = "connect" -> "served"
             [] cmd = "udp" /\ UdpOn -> "permit"
             [] cmd = "other" \/ (cmd = "udp" /\ ~UdpOn) -> "closed")
  /\ UNCHANGED assocVars

\* read_http_head, parse_http_proxy_request and the authorisation
ReadsHead(c, req) ==
  /\ session[c] = "head"
  /\ To(c, IF req \in {"connect", "forward"} THEN "served" ELSE "closed")
  /\ UNCHANGED assocVars

\* DEFAULT_HANDSHAKE_TIMEOUT covers the whole handshake.
HandshakeTimesOut(c) == session[c] \in {"peek", "greet", "request", "head"} /\ To(c, "closed") /\ UNCHANGED assocVars

-----------------------------------------------------------------------------
(* The session permit *)

PermitsOf(c) == {d \in Conns : held[d] # {} /\ Client[d] = Client[c] /\ Profile[d] = Profile[c]}

Acquires(c) ==
  /\ session[c] = "permit"
  /\ IF used[Profile[c]] >= Limit[Profile[c]] \/ Cardinality(PermitsOf(c)) >= PerClient
     THEN To(c, "closed") /\ UNCHANGED <<held, used>>
     ELSE /\ To(c, "bind")
          /\ held' = [held EXCEPT ![c] = {"task"}]
          /\ used' = [used EXCEPT ![Profile[c]] = @ + 1]
  /\ UNCHANGED <<reply, recs, age, sent, total, want, noise>>

\* Permit::drop runs when the last clone of the Arc goes.
LetsGo(c, who) ==
  /\ held' = [held EXCEPT ![c] = @ \ who]
  /\ used' = IF held[c] # {} /\ held[c] \subseteq who THEN [used EXCEPT ![Profile[c]] = @ - 1] ELSE used

-----------------------------------------------------------------------------
(* The association *)

\* The relay is bound and the client is told of it before the upstream is
\* opened: a failure here leaves the client with a success it cannot use.
Opens(c, ok) ==
  /\ session[c] = "bind"
  /\ IF ok
     THEN /\ To(c, "relay")
          /\ reply' = [reply EXCEPT ![c] = TRUE]
          /\ held' = [held EXCEPT ![c] = {"task", "reply"}]
          /\ age' = [age EXCEPT ![c] = NoAge]
          /\ UNCHANGED used
     ELSE To(c, "closed") /\ LetsGo(c, {"task"}) /\ UNCHANGED <<reply, age>>
  /\ UNCHANGED <<recs, sent, total, want, noise>>

\* forward_record: a target gets a record of its own up to the limit, and
\* shares the last one used from there on.
Charged(r, t) ==
  IF t \notin r.by /\ Cardinality(r.by) >= MaxTargets /\ r.last # NoTarget
  THEN [r EXCEPT !.up[r.last] = @ + 1]
  ELSE [r EXCEPT !.by = @ \cup {t}, !.open = @ \cup {t}, !.last = t, !.up[t] = @ + 1]

Rearmed(c) == [age EXCEPT ![c].sleep = 0, ![c].quiet = 0]

\* A datagram of the client; in direct mode its host is resolved while the
\* loop waits, and a fake address nobody owns is dropped.
Forwards(c, t) ==
  /\ session[c] = "relay" /\ sent[c] < MaxPackets
  /\ \/ t \in Fake /\ noise < MaxNoise /\ noise' = noise + 1 /\ UNCHANGED <<session, recs, sent, want>>
     \/ t \notin Fake /\ Direct /\ t \in Named
        /\ To(c, "resolving") /\ want' = [want EXCEPT ![c] = t] /\ UNCHANGED <<recs, sent, noise>>
     \/ /\ t \notin Fake /\ ~(Direct /\ t \in Named)
        /\ recs' = [recs EXCEPT ![c] = Charged(@, t)]
        /\ sent' = [sent EXCEPT ![c] = @ + 1]
        /\ UNCHANGED <<session, want, noise>>
  /\ age' = Rearmed(c)
  /\ UNCHANGED <<reply, held, used, total>>

\* A name that cannot be resolved costs the datagram, never the association.
Resolved(c, ok) ==
  /\ session[c] = "resolving"
  /\ To(c, "relay")
  /\ want' = [want EXCEPT ![c] = NoTarget]
  /\ IF ok THEN /\ recs' = [recs EXCEPT ![c] = Charged(@, want[c])]
                /\ sent' = [sent EXCEPT ![c] = @ + 1]
                /\ UNCHANGED noise
           ELSE noise < MaxNoise /\ noise' = noise + 1 /\ UNCHANGED <<recs, sent>>
  /\ age' = Rearmed(c)
  /\ UNCHANGED <<reply, held, used, total>>

\* Anything else that wakes the loop: a datagram of a stranger on the relay
\* port, a byte on the control connection.
Wakes(c) ==
  /\ session[c] = "relay" /\ noise < MaxNoise
  /\ noise' = noise + 1
  /\ age' = Rearmed(c)
  /\ UNCHANGED <<session, reply, held, used, recs, sent, total, want>>

\* A datagram from upstream, delivered to where the client was seen last.
Delivers(c) ==
  /\ reply[c] /\ session[c] \in {"relay", "resolving"} /\ noise < MaxNoise
  /\ noise' = noise + 1
  /\ age' = [age EXCEPT ![c].down = 0, ![c].quiet = 0]
  /\ UNCHANGED <<session, reply, held, used, recs, sent, total, want>>

\* UdpAssocRecords::close: what is left in each record is added to the
\* totals and the record leaves the table.  Every datagram counted is a pair.
InRecords(c) == UNION {{<<c, t>>} \X (1..recs[c].up[t]) : t \in recs[c].by}
UpIn(c) == Cardinality(InRecords(c))

EndsConn(c) ==
  /\ total' = total + UpIn(c)
  /\ recs' = [recs EXCEPT ![c].open = @ \ recs[c].by, ![c].up = [t \in Targets |-> 0]]

\* The end of the task: BudgetedReply is dropped, so the records are closed
\* and the reply task is told to stop, which it does later.
TearsDown(c) ==
  /\ To(c, "closed")
  /\ EndsConn(c)
  /\ LetsGo(c, {"task"})
  /\ UNCHANGED <<reply, age, sent, want, noise>>

\* The client's control connection or the upstream's ends.
ControlEnds(c) == session[c] = "relay" /\ TearsDown(c)

\* The sleep is armed anew by every pass of the loop; traffic downwards is
\* only looked at when it fires.
IdleFires(c) ==
  /\ session[c] = "relay" /\ age[c].sleep >= Idle
  /\ IF age[c].down < Idle
     THEN age' = [age EXCEPT ![c].sleep = 0] /\ UNCHANGED <<session, reply, held, used, recs, sent, total, want, noise>>
     ELSE TearsDown(c)

\* The reply task ends by itself when a socket fails, which the association
\* notices, or because it was aborted.
ReplyFails(c) ==
  /\ reply[c] /\ session[c] \in {"relay", "resolving"}
  /\ reply' = [reply EXCEPT ![c] = FALSE]
  /\ LetsGo(c, {"reply"})
  /\ UNCHANGED <<session, recs, age, sent, total, want, noise>>

ReplyEndSeen(c) == session[c] = "relay" /\ ~reply[c] /\ TearsDown(c)

ReplyStays(c) == reply[c] /\ session[c] = "closed" /\ UNCHANGED inVars

ReplyAborted(c) ==
  /\ reply[c] /\ session[c] = "closed"
  /\ reply' = [reply EXCEPT ![c] = FALSE]
  /\ LetsGo(c, {"reply"})
  /\ UNCHANGED <<session, recs, age, sent, total, want, noise>>

Associated == {c \in Conns : session[c] \in {"relay", "resolving"}}

\* Time passes while every association waits.
InTick ==
  /\ Associated # {}
  /\ \A c \in Associated : session[c] = "relay" /\ reply[c] /\ age[c].sleep < Idle
  /\ age' = [c \in Conns |-> IF c \in Associated
                             THEN [sleep |-> age[c].sleep + 1, quiet |-> age[c].quiet + 1,
                                   down |-> IF age[c].down < Idle THEN age[c].down + 1 ELSE Idle]
                             ELSE age[c]]
  /\ UNCHANGED <<session, reply, held, used, recs, sent, total, want, noise>>

-----------------------------------------------------------------------------
HandshakeStep(c) ==
  \/ Accepts(c)
  \/ \E first \in {"eof", "socks", "http"} : Peeks(c, first)
  \/ \E offer \in {"none", "password", "wrong"} : Negotiates(c, offer)
  \/ \E cmd \in {"connect", "udp", "other"} : Handshakes(c, cmd)
  \/ \E req \in {"connect", "forward", "bad"} : ReadsHead(c, req)
  \/ HandshakeTimesOut(c)

AssocStep(c) == \/ Acquires(c)
                \/ \E ok \in BOOLEAN : Opens(c, ok)
                \/ \E ok \in BOOLEAN : Resolved(c, ok)
                \/ IdleFires(c) \/ ReplyEndSeen(c) \/ ReplyAborted(c)

SessionStep(c) == \/ \E t \in Targets : Forwards(c, t)
                  \/ Wakes(c) \/ Delivers(c) \/ ControlEnds(c) \/ ReplyFails(c)

InNext == InTick \/ \E c \in Conns : HandshakeStep(c) \/ AssocStep(c) \/ SessionStep(c)

InFair == /\ WF_inVars(InTick)
          /\ \A c \in Conns : WF_inVars(AssocStep(c)) /\ WF_inVars(HandshakeTimesOut(c))

InSpec == InInit /\ [][InNext]_inVars /\ InFair

-----------------------------------------------------------------------------
(* Properties *)

\* The sessions whose sockets are still open, the ones being torn down
\* included, never exceed the budget, and the counter says how many there
\* are.
SessionsWithinBudget ==
  \A class \in Classes :
    LET open == {c \in Conns : Profile[c] = class /\ (session[c] \in {"bind", "relay", "resolving"} \/ reply[c])}
    IN Cardinality(open) = used[class] /\ used[class] <= Limit[class]

\* Every datagram sent for a client is counted in one record of the table or
\* already in the totals, whatever number of targets the association has, and
\* no record outlives its association.
UploadsCounted ==
  /\ Cardinality(UNION {{c} \X (1..sent[c]) : c \in Conns}) = total + Cardinality(UNION {InRecords(c) : c \in Conns})
  /\ \A c \in Conns : session[c] = "closed" => recs[c].open = {}

\* An association is cut for idleness only when nothing passed in either
\* direction for the whole idle time, and is never kept for twice that long.
IdleExact ==
  [][\A c \in Conns : /\ (session[c] = "relay" /\ IdleFires(c) /\ session'[c] = "closed") => age[c].quiet >= Idle
                      /\ session'[c] = "relay" => age'[c].quiet < 2 * Idle]_inVars

\* Every association ends, even one whose client is silent and never closes,
\* and its permit comes back.
AllOver == \A c \in Conns : held[c] = {} /\ session[c] \in {"new", "served", "closed"}
SessionsEnd == <>[]AllOver

\* The sessions are within the budget, and every datagram is counted for one client.
InboundSafe == SessionsWithinBudget /\ UploadsCounted

=============================================================================
