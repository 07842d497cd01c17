--------------------------- MODULE TcpRouteProofs ---------------------------
(***************************************************************************)
(* For any connections, addresses, names and capacity of the hints: no     *)
(* fake address is dialled in place of a domain, and labelled traffic      *)
(* keeps its address.  Both need that no fake address is ever hinted,      *)
(* because a hint lets a connection past the sniffers and past the test    *)
(* for an unresolved fake address.                                         *)
(*                                                                         *)
(* Of a connection that is forwarded as HTTP (HttpForward): no origin can  *)
(* read a second request into the one that is sent, and a tunnel is behind *)
(* a 101.                                                                  *)
(*                                                                         *)
(* Of the associations of the proxy ports (Inbound, invariant InInv): the  *)
(* budget counts the sessions whose sockets are open, every datagram is in *)
(* one record or in the totals, and a cut for idleness is one (ClocksOK).  *)
(***************************************************************************)
EXTENDS TcpRoute, HttpForward, Inbound, FiniteSetTheorems, TLAPS

\* What holds of one connection wherever it is.
Labelled(r) ==
  /\ r.pc \in {"sniff", "resolve"} /\ r.grouped /\ r.dest \in FakeAddr => r.inbound = "cloudflared"
  /\ r.pc = "sniff" => ~r.grouped
  /\ r.grouped => r.sniffed = Unsniffed \/ r.pc = "dial"
  /\ r.named # NoName => r.dest = Unspecified

Dialled(r) ==
  /\ r.pc = "dial" /\ r.to \in FakeAddr /\ r.inbound # "cloudflared" => r.name # NoName
  /\ r.pc = "dial" /\ r.grouped /\ r.to \in RealAddr => r.name = NoName

Sound(r) == r \in Routes /\ Labelled(r) /\ Dialled(r)

RouteInv ==
  /\ DOMAIN route = Conn /\ route = [c \in Conn |-> route[c]]
  /\ \A c \in Conn : Sound(route[c])
  /\ hints \subseteq Addr /\ hints \cap FakeAddr = {}
  /\ bound \in [FakeAddr -> Optional]
  /\ direct \in BOOLEAN

\* A connection that has not come, and one that has gone, is sound.
LEMMA AbsentSound == Sound(Absent) /\ Sound(Gone)
<1>1. Unsniffed \in Sniffable
  BY Zenon DEF Sniffable
<1>2. Absent \in Routes /\ Gone \in Routes
  BY <1>1 DEF Absent, Gone, Taken, Routes, Inbounds, Addr, Optional
<1>3. Labelled(Absent) /\ Dialled(Absent) /\ Labelled(Gone) /\ Dialled(Gone)
  BY DEF Absent, Gone, Taken, Labelled, Dialled
<1>4. QED
  BY <1>2, <1>3 DEF Sound

\* A step of one connection that leaves it sound leaves all of them sound.
LEMMA OneConnection ==
  ASSUME RouteInv, NEW c \in Conn, NEW r, Sound(r),
         route' = [route EXCEPT ![c] = r]
  PROVE  /\ DOMAIN route' = Conn /\ route' = [x \in Conn |-> route'[x]]
         /\ \A x \in Conn : Sound(route'[x])
<1>1. \A x \in Conn : route'[x] = IF x = c THEN r ELSE route[x]
  BY DEF RouteInv
<1>2. \A x \in Conn : Sound(route[x])
  BY DEF RouteInv
<1>3. \A x \in Conn : Sound(route'[x])
  <2> TAKE x \in Conn
  <2>1. CASE x = c
    <3>1. route'[x] = r
      BY <1>1, <2>1
    <3>2. QED
      BY <3>1
  <2>2. CASE x # c
    <3>1. route'[x] = route[x]
      BY <1>1, <2>2
    <3>2. QED
      BY <3>1, <1>2
  <2>3. QED
    BY <2>1, <2>2
<1>4. QED
  BY <1>3 DEF RouteInv

\* However a connection arrives, it is sound: an address with a label is not
\* sniffed, and a fake address has a label only if cloudflared dialled it.
LEMMA ArrivesSound ==
  ASSUME RouteInv, NEW c \in Conn, NEW inbound \in Inbounds, NEW dest \in Addr, NEW named \in Optional,
         named # NoName => dest = Unspecified, Arrives(c, inbound, dest, named)
  PROVE  RouteInv'
<1> USE RouteConstants
<1>1. PICK forward \in {FALSE, inbound = "http"}, skip \in BOOLEAN :
       route' = [route EXCEPT ![c] =
         Taken(IF Sniffs(inbound, dest, forward, skip) THEN "sniff" ELSE "resolve",
               inbound, dest, named, IpGroup(inbound, dest))]
  BY DEF Arrives
<1> DEFINE pc == IF Sniffs(inbound, dest, forward, skip) THEN "sniff" ELSE "resolve"
           grouped == IpGroup(inbound, dest)
           r == Taken(pc, inbound, dest, named, grouped)
<1>2. route' = [route EXCEPT ![c] = r]
  BY <1>1
<1>3. pc = "sniff" => ~grouped
  BY DEF Sniffs
<1>4. dest \in FakeAddr /\ grouped => inbound = "cloudflared"
  BY DEF IpGroup, RouteInv
<1>5. grouped \in BOOLEAN /\ pc \in {"sniff", "resolve"}
  BY Zenon DEF IpGroup
<1>6. Unsniffed \in Sniffable
  BY Zenon DEF Sniffable
<1> HIDE DEF pc, grouped
<1>7. r \in Routes
  BY <1>5, <1>6 DEF Routes, Taken, Addr, Optional
<1>8. Labelled(r) /\ Dialled(r)
  BY <1>3, <1>4, <1>5 DEF Taken, Labelled, Dialled
<1>9. Sound(r)
  BY <1>7, <1>8 DEF Sound
<1>10. QED
  BY <1>2, <1>9, OneConnection DEF RouteInv, Arrives

\* Sniffing finishes only for connections without a label.
LEMMA SniffedSound ==
  ASSUME RouteInv, NEW c \in Conn, Sniffed(c)
  PROVE  RouteInv'
<1>1. PICK s \in Sniffable : route' = [route EXCEPT ![c].pc = "resolve", ![c].sniffed = s]
  BY DEF Sniffed
<1> DEFINE o == route[c]
           r == [o EXCEPT !.pc = "resolve", !.sniffed = s]
<1>2. route' = [route EXCEPT ![c] = r]
  BY <1>1 DEF RouteInv
<1>3. o \in Routes /\ Labelled(o) /\ o.pc = "sniff"
  BY DEF RouteInv, Sound, Sniffed
<1>4. r \in Routes
  BY <1>3 DEF Routes
<1>5. Labelled(r) /\ Dialled(r)
  BY <1>3 DEF Routes, Labelled, Dialled
<1>6. Sound(r)
  BY <1>4, <1>5 DEF Sound
<1>7. QED
  BY <1>2, <1>6, OneConnection DEF RouteInv, Sniffed

\* Noting an address that is not fake keeps fake addresses out of the hints.
LEMMA NoteKeepsReal ==
  ASSUME RouteInv, NEW a \in Addr \ FakeAddr, Note(a)
  PROVE  hints' \subseteq Addr /\ hints' \cap FakeAddr = {}
BY DEF RouteInv, Note, Evicted

\* What is dialled of a connection that is not blocked: a fake address has a
\* domain, labelled traffic to a real one has none.
LEMMA ResolvedSound ==
  ASSUME RouteInv, NEW r, Sound(r), r.pc = "resolve",
         NEW bt \in BOOLEAN, NEW unknown \in BOOLEAN, ~ShouldBlock(r, bt, unknown)
  PROVE  Sound([r EXCEPT !.pc = "dial", !.grouped = @ \/ ByDomainGroup(r),
                         !.to = r.dest, !.name = DialledName(r)])
<1> USE RouteConstants
<1> DEFINE q == [r EXCEPT !.pc = "dial", !.grouped = @ \/ ByDomainGroup(r),
                          !.to = r.dest, !.name = DialledName(r)]
<1>1. r \in Routes /\ Labelled(r)
  BY DEF Sound
<1>2. /\ r.dest \in Addr /\ r.named \in Optional /\ r.grouped \in BOOLEAN
      /\ r.sniffed.name \in Optional
  <2>1. \A s \in Sniffable : s.name \in Optional
    BY DEF Sniffable, Unsniffed, Optional
  <2>2. QED
    BY <1>1, <2>1 DEF Routes
<1>3. r.dest \in FakeAddr => bound[r.dest] \in Optional
  BY DEF RouteInv
<1>4. Routing(r) \in Optional
  BY <1>2, <1>3 DEF Routing, InFakeip, Optional
<1>5. DialledName(r) \in Optional
  BY <1>4 DEF DialledName, Optional
<1>6. (r.grouped \/ ByDomainGroup(r)) \in BOOLEAN
  BY <1>2, Zenon DEF ByDomainGroup
<1>7. r.dest \in FakeAddr /\ r.inbound # "cloudflared" => DialledName(r) # NoName
  <2> SUFFICES ASSUME r.dest \in FakeAddr, r.inbound # "cloudflared"
               PROVE  DialledName(r) # NoName
    OBVIOUS
  <2>1. ~r.grouped
    BY <1>1, <1>2 DEF Labelled
  <2>2. DialledName(r) = Routing(r)
    BY DEF DialledName, NotesAddress, InFakeip
  <2>3. CASE ByDomainGroup(r)
    <3>1. r.sniffed.name = NoName \/ Routing(r) # NoName
      BY DEF Routing, InFakeip
    <3>2. QED
      BY <2>2, <2>3, <3>1 DEF ByDomainGroup, StatsName
  <2>4. CASE ~ByDomainGroup(r)
    <3>1. ~FakeipUnresolved(r)
      BY <2>1, <2>4 DEF ShouldBlock
    <3>2. QED
      BY <2>2, <3>1 DEF FakeipUnresolved, Routing, InFakeip
  <2>5. QED
    BY <2>3, <2>4
<1>8. (r.grouped \/ ByDomainGroup(r)) /\ r.dest \in RealAddr => DialledName(r) = NoName
  <2> SUFFICES ASSUME r.grouped \/ ByDomainGroup(r), r.dest \in RealAddr
               PROVE  DialledName(r) = NoName
    OBVIOUS
  <2>1. ~InFakeip(r.dest)
    BY DEF InFakeip
  <2>2. CASE ByDomainGroup(r)
    BY <2>1, <2>2 DEF DialledName, NotesAddress
  <2>3. CASE r.grouped
    <3>1. r.named = NoName /\ r.sniffed = Unsniffed
      BY <1>1, <2>3 DEF Labelled
    <3>2. Routing(r) = NoName
      BY <2>1, <3>1 DEF Routing, Unsniffed
    <3>3. QED
      BY <3>2 DEF DialledName
  <2>4. QED
    BY <2>2, <2>3
<1> DEFINE g == r.grouped \/ ByDomainGroup(r)
           n == DialledName(r)
<1>9. q = [r EXCEPT !.pc = "dial", !.grouped = g, !.to = r.dest, !.name = n]
  OBVIOUS
<1> HIDE DEF g, n
<1>10. q \in Routes
  BY <1>1, <1>2, <1>5, <1>6, <1>9 DEF Routes, g, n
<1>11. /\ q.pc = "dial" /\ q.grouped = g /\ q.to = r.dest /\ q.name = n
       /\ q.inbound = r.inbound /\ q.dest = r.dest /\ q.named = r.named
  BY <1>1, <1>9 DEF Routes
<1>12. Labelled(q) /\ Dialled(q)
  BY <1>1, <1>7, <1>8, <1>11 DEF Labelled, Dialled, g, n
<1>13. QED
  BY <1>10, <1>12 DEF Sound

LEMMA ResolveKeeps ==
  ASSUME RouteInv, NEW c \in Conn, Resolve(c)
  PROVE  RouteInv'
<1> DEFINE r == route[c]
<1>1. Sound(r) /\ r.pc = "resolve"
  BY DEF RouteInv, Resolve
<1>2. PICK bt \in BOOLEAN, unknown \in BOOLEAN :
       route' = [route EXCEPT ![c] =
         IF ShouldBlock(r, bt, unknown) THEN Gone
         ELSE [r EXCEPT !.pc = "dial", !.grouped = @ \/ ByDomainGroup(r),
                        !.to = r.dest, !.name = DialledName(r)]]
  BY DEF Resolve
<1>3. Sound(IF ShouldBlock(r, bt, unknown) THEN Gone
            ELSE [r EXCEPT !.pc = "dial", !.grouped = @ \/ ByDomainGroup(r),
                           !.to = r.dest, !.name = DialledName(r)])
  <2>1. CASE ShouldBlock(r, bt, unknown)
    BY <2>1, AbsentSound
  <2>2. CASE ~ShouldBlock(r, bt, unknown)
    BY <1>1, <2>2, ResolvedSound
  <2>3. QED
    BY <2>1, <2>2
<1>4. hints' \subseteq Addr /\ hints' \cap FakeAddr = {}
  <2>1. CASE NotesAddress(r)
    <3>1. r.dest \in Addr \ FakeAddr
      BY <1>1, <2>1 DEF Sound, Routes, NotesAddress, InFakeip
    <3>2. QED
      BY <2>1, <3>1, NoteKeepsReal DEF Resolve
  <2>2. CASE ~NotesAddress(r)
    BY <2>2 DEF Resolve, RouteInv
  <2>3. QED
    BY <2>1, <2>2
<1>5. QED
  BY <1>2, <1>3, <1>4, OneConnection DEF RouteInv, Resolve

\* The strengthened invariant holds of every state of serve_established.
THEOREM RouteInvariant == RouteSpec => []RouteInv
<1>1. RouteInit => RouteInv
  BY AbsentSound DEF RouteInit, RouteInv, Optional
<1>2. RouteInv /\ [RouteNext]_routeVars => RouteInv'
  <2> SUFFICES ASSUME RouteInv, [RouteNext]_routeVars
               PROVE  RouteInv'
    OBVIOUS
  <2> USE RouteConstants
  <2>1. ASSUME NEW c \in Conn, HandleConn(c)
        PROVE  RouteInv'
    <3>1. PICK a \in RealAddr \cup FakeAddr : Arrives(c, "tproxy", a, NoName)
      BY <2>1 DEF HandleConn
    <3>2. QED
      BY <3>1, ArrivesSound DEF Inbounds, Addr, Optional
  <2>2. ASSUME NEW c \in Conn, HandleCfConn(c)
        PROVE  RouteInv'
    <3>1. PICK a \in RealAddr \cup FakeAddr : Arrives(c, "cloudflared", a, NoName)
      BY <2>2 DEF HandleCfConn
    <3>2. QED
      BY <3>1, ArrivesSound DEF Inbounds, Addr, Optional
  <2>3. ASSUME NEW c \in Conn, HandleProxy(c)
        PROVE  RouteInv'
    <3>1. PICK inbound \in {"socks5", "http", "healthcheck"} :
            \/ \E a \in RealAddr \cup FakeAddr : Arrives(c, inbound, a, NoName)
            \/ \E n \in Name : Arrives(c, inbound, Unspecified, n)
      BY <2>3 DEF HandleProxy
    <3>2. inbound \in Inbounds
      BY DEF Inbounds
    <3>3. ASSUME NEW a \in RealAddr \cup FakeAddr, Arrives(c, inbound, a, NoName)
          PROVE  RouteInv'
      BY <3>2, <3>3, ArrivesSound DEF Addr, Optional
    <3>4. ASSUME NEW n \in Name, Arrives(c, inbound, Unspecified, n)
          PROVE  RouteInv'
      BY <3>2, <3>4, ArrivesSound DEF Addr, Optional
    <3>5. QED
      BY <3>1, <3>3, <3>4
  <2>4. ASSUME NEW c \in Conn, ClientLeaves(c) \/ HandsOver(c)
        PROVE  RouteInv'
    <3>1. route' = [route EXCEPT ![c] = Gone] /\ UNCHANGED <<hints, bound, direct>>
      BY <2>4 DEF ClientLeaves, HandsOver
    <3>2. QED
      BY <3>1, AbsentSound, OneConnection DEF RouteInv
  <2>5. ASSUME NEW a \in RealAddr, UdpNotes(a)
        PROVE  RouteInv'
    <3>1. hints' \subseteq Addr /\ hints' \cap FakeAddr = {}
      BY <2>5, NoteKeepsReal DEF UdpNotes, Addr
    <3>2. QED
      BY <2>5, <3>1 DEF UdpNotes, RouteInv
  <2>6. ASSUME NEW f \in FakeAddr, NEW n \in Optional, PoolBinds(f, n)
        PROVE  RouteInv'
    BY <2>6 DEF PoolBinds, RouteInv
  <2>7. CASE UNCHANGED routeVars
    BY <2>7 DEF routeVars, RouteInv
  <2>8. QED
    BY <2>1, <2>2, <2>3, <2>4, <2>5, <2>6, <2>7, SniffedSound, ResolveKeeps DEF RouteNext
<1>3. QED
  BY <1>1, <1>2, PTL DEF RouteSpec

\* serve_established never dials a fake address in place of a domain, except for
\* cloudflared, whatever the pool forgets and other connections hint meanwhile.
THEOREM RouteFakeNeverDialled == RouteSpec => []FakeNeverDialled
<1>1. RouteInv => FakeNeverDialled
  BY DEF RouteInv, Sound, Dialled, FakeNeverDialled
<1>2. QED
  BY <1>1, RouteInvariant, PTL

\* No domain replaces the address of labelled traffic.
THEOREM RouteGroupKeepsAddress == RouteSpec => []GroupKeepsAddress
<1>1. RouteInv => GroupKeepsAddress
  BY DEF RouteInv, Sound, Dialled, GroupKeepsAddress
<1>2. QED
  BY <1>1, RouteInvariant, PTL

\* The types of the routes and the hints.
THEOREM RouteTypes == RouteSpec => []RouteTypeOK
<1>1. RouteInv => RouteTypeOK
  <2> SUFFICES ASSUME RouteInv PROVE RouteTypeOK
    OBVIOUS
  <2>1. route \in [Conn -> Routes]
    <3>1. \A c \in Conn : route[c] \in Routes
      BY DEF RouteInv, Sound
    <3>2. route = [c \in Conn |-> route[c]]
      BY DEF RouteInv
    <3>3. QED
      BY <3>1, <3>2
  <2>2. \A c \in Conn : Labelled(route[c])
    BY DEF RouteInv, Sound
  <2>3. \A c \in Conn : route[c].grouped => route[c].sniffed = Unsniffed \/ route[c].pc = "dial"
    BY <2>2 DEF Labelled
  <2>4. QED
    BY <2>1, <2>3 DEF RouteInv, RouteTypeOK
<1>2. QED
  BY <1>1, RouteInvariant, PTL

\* serve_established dials what was asked for.
THEOREM RouteSafety == RouteSpec => []RouteSafe
BY RouteTypes, RouteFakeNeverDialled, RouteGroupKeepsAddress, PTL DEF RouteSafe

-----------------------------------------------------------------------------
(***************************************************************************)
(* A forwarded HTTP request (HttpForward): the head that is sent can be    *)
(* framed as it was framed here only, and a tunnel is behind a 101.        *)
(***************************************************************************)
Answers == {"100", "101", "101other", "200", "data"}
Bodies == {"body", "size", "last", "chunk", "trailer", "end"}
Sent == Bodies \cup {"next"}
Switched == \E j \in DOMAIN toClient : toClient[j] = "101"

\* What has reached the client is the beginning of what the origin sent.
Prefixed ==
  /\ Len(toClient) <= Len(fromOrigin)
  /\ \A i \in 1 .. Len(toClient) : toClient[i] = fromOrigin[i]

HfTyped == toOrigin \in Seq(Sent) /\ toClient \in Seq(Answers) /\ fromOrigin \in Seq(Answers)

\* Whoever tunnels has passed a 101 on, and a side that ended well took everything.
TunnelsBehind101 ==
  /\ up = "tunnel" => Switched
  /\ down \in {"tunnel", "tshut"} => Switched
  /\ down \in {"shut", "tshut"} => Len(toClient) = Len(fromOrigin)
  /\ relayed = "ok" => down \in {"shut", "tshut"} /\ (down = "tshut" => up = "shut")

HfInv == HfTyped /\ Prefixed /\ TunnelsBehind101 /\ OwnRequestOnly

\* What Append does.
LEMMA OneMore ==
  ASSUME NEW T, NEW s \in Seq(T), NEW e \in T, NEW z, z = Append(s, e)
  PROVE  /\ z \in Seq(T) /\ Len(z) = Len(s) + 1 /\ Len(s) \in Nat
         /\ DOMAIN z = 1 .. Len(s) + 1 /\ DOMAIN s = 1 .. Len(s)
         /\ \A i \in 1 .. Len(s) : z[i] = s[i]
         /\ z[Len(s) + 1] = e
  OBVIOUS

\* Of a finite set without two elements any two are the same.
LEMMA NoTwo ==
  ASSUME NEW S, IsFiniteSet(S), ~(Cardinality(S) > 1), NEW s \in S, NEW t \in S
  PROVE  s = t
<1>1. Cardinality(S \ {s}) = Cardinality(S) - 1 /\ IsFiniteSet(S \ {s}) /\ Cardinality(S) \in Nat
  BY FS_RemoveElement, FS_CardinalityType
<1>2. Cardinality(S \ {s}) \in Nat
  BY <1>1, FS_CardinalityType
<1>3. Cardinality(S \ {s}) = 0
  BY <1>1, <1>2
<1> QED
  BY <1>1, <1>3, FS_EmptySet

\* request_framing and rebuild_origin_request agree: a head that is not refused is
\* rebuilt to one whose length or coding is the one it was framed by.
LEMMA FramedOneWay ==
  ASSUME NEW k \in Nat, NEW h \in [1 .. k -> Headers], Framing(h) # Rejected
  PROVE  OriginMayRead(Rebuilt(h)) \subseteq {Framing(h).body}
<1> DEFINE cl == HeadAt(h, "cl")  te == HeadAt(h, "te")
<1>1. IsFiniteSet(cl) /\ IsFiniteSet(te) /\ cl \subseteq 1 .. k /\ te \subseteq 1 .. k
  <2>1. IsFiniteSet(1 .. k)
    BY FS_Interval
  <2>2. cl \subseteq 1 .. k /\ te \subseteq 1 .. k
    BY DEF HeadAt
  <2> QED
    BY <2>1, <2>2, FS_Subset
<1>2. /\ ~(Cardinality(cl) > 1) /\ ~(Cardinality(te) > 1) /\ ~(cl # {} /\ te # {})
      /\ \A i \in te : h[i].v = "chunked"
      /\ Framing(h).body = IF te # {} THEN "chunked" ELSE IF cl = {} THEN "0" ELSE h[CHOOSE i \in cl : TRUE].v
  BY DEF Framing
<1>3. ASSUME NEW x \in Rebuilt(h), x.n \in {"cl", "te"}
      PROVE  (IF x.n = "te" THEN "chunked" ELSE x.v) = Framing(h).body
  <2>1. PICK i \in DOMAIN h : x = h[i]
    BY <1>3 DEF Rebuilt
  <2>2. CASE x.n = "te"
    <3>1. i \in te
      BY <2>1, <2>2 DEF HeadAt
    <3> QED
      BY <1>2, <2>2, <3>1
  <2>3. CASE x.n = "cl"
    <3>1. i \in cl
      BY <2>1, <2>3 DEF HeadAt
    <3>2. (CHOOSE j \in cl : TRUE) \in cl
      BY <3>1
    <3>3. (CHOOSE j \in cl : TRUE) = i
      <4> DEFINE c == CHOOSE j \in cl : TRUE
      <4>1. c \in cl
        BY <3>2
      <4> HIDE DEF c, cl
      <4> QED
        BY <1>1, <1>2, <3>1, <4>1, NoTwo
    <3>4. te = {} /\ cl # {}
      BY <1>2, <3>1
    <3> QED
      BY <1>2, <2>1, <2>3, <3>3, <3>4
  <2> QED
    BY <1>3, <2>2, <2>3
<1> QED
  BY <1>3 DEF OriginMayRead

LEMMA HfStarts == HfInit => HfInv
<1> SUFFICES ASSUME HfInit
             PROVE  HfInv
  OBVIOUS
<1>1. toOrigin = <<>> /\ toClient = <<>> /\ fromOrigin = <<>> /\ up = "idle" /\ down = "idle" /\ relayed = "none"
  BY DEF HfInit
<1> QED
  BY <1>1 DEF HfInv, HfTyped, Prefixed, TunnelsBehind101, OwnRequestOnly

LEMMA ReadsRequestKeeps ==
  ASSUME HfInv, NEW k \in Nat, NEW h \in [1 .. k -> Headers], ReadsRequest(h)
  PROVE  HfInv'
<1>1. UNCHANGED <<toOrigin, toClient, fromOrigin>> /\ relayed = "none" /\ framing' = Framing(h)
  BY DEF ReadsRequest
<1>2. HfTyped' /\ Prefixed'
  BY <1>1 DEF HfInv, HfTyped, Prefixed
<1>3. TunnelsBehind101'
  <2>1. CASE relayed' = "refused" /\ UNCHANGED <<up, down>>
    BY <1>1, <2>1 DEF HfInv, TunnelsBehind101, Switched
  <2>2. CASE /\ relayed' = "running" /\ Framing(h) # Rejected
             /\ up' = IF framing'.body = "chunked" THEN "size" ELSE framing'.body
             /\ down' = IF framing'.upgrade THEN "head" ELSE "copy"
    <3>1. Framing(h).body \in {"chunked", "0", "1", "2"}
      <4>1. Framing(h).body = IF HeadAt(h, "te") # {} THEN "chunked" ELSE IF HeadAt(h, "cl") = {} THEN "0"
                              ELSE h[CHOOSE i \in HeadAt(h, "cl") : TRUE].v
        BY <2>2 DEF Framing
      <4>2. ASSUME NEW i \in HeadAt(h, "cl")
            PROVE  h[i].v \in {"1", "2"}
        <5>1. h[i] \in Headers /\ h[i].n = "cl"
          BY DEF HeadAt
        <5> QED
          BY <5>1 DEF Headers
      <4> QED
        BY <4>1, <4>2
    <3> QED
      BY <1>1, <2>2, <3>1 DEF TunnelsBehind101
  <2> QED
    BY <1>1, <2>1, <2>2 DEF ReadsRequest
<1>4. OwnRequestOnly'
  <2>1. relayed' # "refused" => proxied' = Rebuilt(h) /\ Framing(h) # Rejected
    BY <1>1 DEF ReadsRequest
  <2> QED
    BY <1>1, <2>1, FramedOneWay DEF HfInv, OwnRequestOnly
<1> QED
  BY <1>2, <1>3, <1>4 DEF HfInv

\* The upload: nothing passes behind the body but in a tunnel.
LEMMA UploadKeeps ==
  ASSUME HfInv,
         SendsBody \/ (\E t \in {"size", "last", "chunk", "trailer", "hop", "end"} : SendsChunk(t))
         \/ UploadFails \/ BodySent \/ Tunnels \/ ClientCloses
  PROVE  HfInv'
<1>1. UNCHANGED <<proxied, framing, down, toClient, fromOrigin>> /\ relayed = "running" /\ relayed' \in {"running", "failed"}
  BY DEF SendsBody, SendsChunk, UploadFails, BodySent, Tunnels, ClientCloses, PumpRuns
<1>2. /\ \/ toOrigin' = toOrigin
         \/ \E t \in Bodies : toOrigin' = Append(toOrigin, t)
         \/ up = "tunnel" /\ toOrigin' = Append(toOrigin, "next")
      /\ up' = "tunnel" => up = "tunnel" \/ down \in {"tunnel", "tshut"}
  BY DEF SendsBody, SendsChunk, UploadFails, BodySent, Tunnels, ClientCloses, Sends, Bodies
<1>3. HfTyped' /\ Prefixed'
  <2>1. toOrigin' \in Seq(Sent)
    <3>1. toOrigin \in Seq(Sent) /\ \A t \in Bodies : t \in Sent
      BY DEF HfInv, HfTyped, Sent
    <3>2. "next" \in Sent
      BY DEF Sent
    <3> QED
      BY <1>2, <3>1, <3>2, OneMore
  <2> QED
    BY <1>1, <2>1 DEF HfInv, HfTyped, Prefixed
<1>4. TunnelsBehind101'
  BY <1>1, <1>2 DEF HfInv, TunnelsBehind101, Switched
<1>5. OwnRequestOnly'
  <2>1. relayed' \notin {"none", "refused"} => OriginMayRead(proxied') \subseteq {framing'.body}
    BY <1>1 DEF HfInv, OwnRequestOnly
  <2>2. ASSUME NEW i \in DOMAIN toOrigin', toOrigin'[i] = "next"
        PROVE  Switched
    <3>1. CASE up = "tunnel"
      BY <3>1 DEF HfInv, TunnelsBehind101
    <3>2. CASE up # "tunnel"
      <4>1. i \in DOMAIN toOrigin /\ toOrigin[i] = "next"
        <5>1. CASE toOrigin' = toOrigin
          BY <2>2, <5>1
        <5>2. ASSUME NEW t \in Bodies, toOrigin' = Append(toOrigin, t)
              PROVE  i \in DOMAIN toOrigin /\ toOrigin[i] = "next"
          <6>1. toOrigin \in Seq(Sent) /\ t \in Sent /\ t # "next"
            BY DEF HfInv, HfTyped, Sent, Bodies
          <6>2. /\ DOMAIN toOrigin' = 1 .. Len(toOrigin) + 1 /\ DOMAIN toOrigin = 1 .. Len(toOrigin)
                /\ Len(toOrigin) \in Nat /\ \A m \in 1 .. Len(toOrigin) : toOrigin'[m] = toOrigin[m]
                /\ toOrigin'[Len(toOrigin) + 1] = t
            BY <5>2, <6>1, OneMore
          <6>3. i # Len(toOrigin) + 1 /\ i \in 1 .. Len(toOrigin) + 1
            BY <2>2, <6>1, <6>2
          <6> QED
            BY <2>2, <6>2, <6>3
        <5> QED
          BY <1>2, <3>2, <5>1, <5>2
      <4> QED
        BY <4>1 DEF HfInv, OwnRequestOnly, Switched
    <3> QED
      BY <3>1, <3>2
  <2> QED
    BY <1>1, <2>1, <2>2 DEF OwnRequestOnly, Switched
<1> QED
  BY <1>3, <1>4, <1>5 DEF HfInv

\* The download: what is passed on is the origin's next, and an end comes after all.
LEMMA DownloadKeeps ==
  ASSUME HfInv,
         (\E t \in Answers : OriginSends(t)) \/ ReadsAnswer \/ Copies \/ OriginCloses \/ Joins
  PROVE  HfInv'
<1>1. UNCHANGED <<proxied, framing, up, toOrigin>> /\ relayed = "running" /\ relayed' \in {"running", "failed", "ok"}
  BY DEF OriginSends, ReadsAnswer, Copies, OriginCloses, Joins, PumpRuns
<1>2. /\ \/ UNCHANGED toClient
         \/ Got /\ toClient' = Append(toClient, Token) /\ UNCHANGED fromOrigin
      /\ UNCHANGED fromOrigin \/ \E t \in Answers : fromOrigin' = Append(fromOrigin, t)
  BY DEF OriginSends, ReadsAnswer, Copies, OriginCloses, Joins
<1>3. Got => Token \in Answers /\ Token = fromOrigin[Len(toClient) + 1]
  BY DEF HfInv, HfTyped, Got, Token
<1>3a. toClient \in Seq(Answers) /\ fromOrigin \in Seq(Answers)
  BY DEF HfInv, HfTyped
<1>4. HfTyped'
  <2>1. toClient' \in Seq(Answers)
    BY <1>2, <1>3, <1>3a, OneMore
  <2>2. fromOrigin' \in Seq(Answers)
    BY <1>2, <1>3a, OneMore
  <2> QED
    BY <1>1, <2>1, <2>2 DEF HfInv, HfTyped
<1>5. Prefixed'
  <2>1. CASE UNCHANGED <<toClient, fromOrigin>>
    BY <2>1 DEF HfInv, Prefixed
  <2>2. CASE Got /\ toClient' = Append(toClient, Token) /\ UNCHANGED fromOrigin
    <3>1. /\ Len(toClient') = Len(toClient) + 1 /\ Len(toClient) \in Nat
          /\ \A i \in 1 .. Len(toClient) : toClient'[i] = toClient[i]
          /\ toClient'[Len(toClient) + 1] = Token
      BY <1>3, <1>3a, <2>2, OneMore
    <3>2. Len(fromOrigin) \in Nat
      BY <1>3a
    <3>3. \A i \in 1 .. Len(toClient) + 1 : i \in 1 .. Len(toClient) \/ i = Len(toClient) + 1
      BY <3>1
    <3> QED
      BY <1>3, <2>2, <3>1, <3>2, <3>3 DEF HfInv, Prefixed, Got
  <2>3. ASSUME NEW t \in Answers, fromOrigin' = Append(fromOrigin, t), UNCHANGED toClient
        PROVE  Prefixed'
    <3>1. /\ Len(fromOrigin') = Len(fromOrigin) + 1 /\ Len(fromOrigin) \in Nat
          /\ \A i \in 1 .. Len(fromOrigin) : fromOrigin'[i] = fromOrigin[i]
      BY <1>3a, <2>3, OneMore
    <3>2. Len(toClient) \in Nat /\ Len(toClient) <= Len(fromOrigin)
      BY <1>3a DEF HfInv, Prefixed
    <3> QED
      BY <2>3, <3>1, <3>2 DEF HfInv, Prefixed
  <2> QED
    BY <1>2, <2>1, <2>2, <2>3
<1>6. Switched => Switched'
  <2>1. ASSUME toClient' = Append(toClient, Token), Got
        PROVE  DOMAIN toClient \subseteq DOMAIN toClient' /\ \A i \in DOMAIN toClient : toClient'[i] = toClient[i]
    BY <1>3, <1>3a, <2>1, OneMore
  <2> QED
    BY <1>2, <2>1 DEF Switched
<1>7. TunnelsBehind101'
  <2>1. CASE \E t \in Answers : OriginSends(t)
    <3>1. UNCHANGED <<down, toClient, relayed>> /\ down \in {"head", "copy", "tunnel"}
      BY <2>1 DEF OriginSends
    <3> QED
      BY <1>1, <1>6, <3>1 DEF HfInv, TunnelsBehind101
  <2>2. CASE ReadsAnswer
    <3>1. /\ Got /\ relayed' \in {"running", "failed"}
          /\ \/ down' = "failed"
             \/ down' \in {"head", "copy"}
             \/ down' = "tunnel" /\ toClient' = Append(toClient, "101")
      BY <1>1, <2>2 DEF ReadsAnswer
    <3>2. toClient' = Append(toClient, "101") => Switched'
      <4>1. ASSUME toClient' = Append(toClient, "101")
            PROVE  Len(toClient) + 1 \in DOMAIN toClient' /\ toClient'[Len(toClient) + 1] = "101"
        BY <4>1 DEF HfInv, HfTyped
      <4> QED
        BY <4>1 DEF Switched
    <3> QED
      BY <1>1, <1>6, <3>1, <3>2 DEF HfInv, TunnelsBehind101
  <2>3. CASE Copies
    <3>1. down' = down /\ down \in {"copy", "tunnel"} /\ relayed' = relayed
      BY <2>3 DEF Copies
    <3> QED
      BY <1>1, <1>6, <3>1 DEF HfInv, TunnelsBehind101
  <2>4. CASE OriginCloses
    <3>1. UNCHANGED <<toClient, fromOrigin>> /\ Len(toClient) = Len(fromOrigin)
      BY <2>4 DEF OriginCloses, HfInv, HfTyped, Prefixed, Got
    <3>2. \/ down' = "failed" /\ relayed' = "failed"
          \/ down = "tunnel" /\ down' = "tshut" /\ relayed' = relayed
          \/ down' = "shut" /\ relayed' = relayed
      BY <2>4 DEF OriginCloses
    <3> QED
      BY <1>1, <1>6, <3>1, <3>2 DEF HfInv, TunnelsBehind101
  <2>5. CASE Joins
    <3>1. UNCHANGED <<down, toClient, fromOrigin>> /\ down \in {"shut", "tshut"} /\ (down = "tshut" => up = "shut")
      BY <2>5 DEF Joins
    <3> QED
      BY <1>1, <1>6, <3>1 DEF HfInv, TunnelsBehind101
  <2> QED
    BY <2>1, <2>2, <2>3, <2>4, <2>5
<1>8. OwnRequestOnly'
  BY <1>1, <1>6 DEF HfInv, OwnRequestOnly, Switched
<1> QED
  BY <1>4, <1>5, <1>7, <1>8 DEF HfInv

\* Whatever head a client sends and wherever either side stops (request_framing,
\* rebuild_origin_request, relay): the server gets the body of this request and nothing of
\* the next, and a relay that ends well has delivered the whole answer.
THEOREM ForwardsOneRequest == HfSpec => []ForwardSafe
<1>1. HfInit => HfInv
  BY HfStarts
<1>2. HfInv /\ [HfNext]_hfVars => HfInv'
  <2> SUFFICES ASSUME HfInv, [HfNext]_hfVars
               PROVE  HfInv'
    OBVIOUS
  <2>1. ASSUME NEW k \in 0 .. MaxHeaders, NEW h \in [1 .. k -> Headers], ReadsRequest(h)
        PROVE  HfInv'
    <3>1. k \in Nat
      OBVIOUS
    <3> QED
      BY <2>1, <3>1, ReadsRequestKeeps
  <2>2. CASE UNCHANGED hfVars
    BY <2>2 DEF hfVars, HfInv, HfTyped, Prefixed, TunnelsBehind101, Switched, OwnRequestOnly
  <2>3. CASE SendsBody \/ (\E t \in {"size", "last", "chunk", "trailer", "hop", "end"} : SendsChunk(t))
             \/ UploadFails \/ BodySent \/ Tunnels \/ ClientCloses
    BY <2>3, UploadKeeps
  <2>4. CASE (\E t \in Answers : OriginSends(t)) \/ ReadsAnswer \/ Copies \/ OriginCloses \/ Joins
    BY <2>4, DownloadKeeps
  <2> QED
    BY <2>1, <2>2, <2>3, <2>4 DEF HfNext, HfStep, Answers
<1>3. HfInv => ForwardSafe
  <2> SUFFICES ASSUME HfInv
               PROVE  ForwardSafe
    OBVIOUS
  <2>1. ASSUME relayed = "ok"
        PROVE  toClient = fromOrigin
    <3>1. /\ Len(toClient) = Len(fromOrigin) /\ toClient \in Seq(Answers) /\ fromOrigin \in Seq(Answers)
          /\ \A i \in 1 .. Len(toClient) : toClient[i] = fromOrigin[i]
      BY <2>1 DEF HfInv, HfTyped, Prefixed, TunnelsBehind101
    <3> QED
      BY <3>1
  <2> QED
    BY <2>1 DEF HfInv, TunnelsBehind101, ForwardSafe, DeliveredWhole
<1> QED
  BY <1>1, <1>2, <1>3, PTL DEF HfSpec

-----------------------------------------------------------------------------
(***************************************************************************)
(* UDP associations of the proxy ports (Inbound): who holds the permit of  *)
(* an association, where each datagram is counted, and what the two clocks *)
(* say of the time nothing passed.                                         *)
(***************************************************************************)
Places == {"new", "peek", "greet", "request", "head", "served", "permit", "bind", "relay", "resolving", "closed"}
InAssoc == {"bind", "relay", "resolving"}
Records == [by : SUBSET Targets, last : Targets \cup {NoTarget}, up : [Targets -> Nat], open : SUBSET Targets]

InTyped ==
  /\ session \in [Conns -> Places] /\ reply \in [Conns -> BOOLEAN]
  /\ held \in [Conns -> SUBSET {"task", "reply"}] /\ used \in [Classes -> Nat]
  /\ recs \in [Conns -> Records] /\ age \in [Conns -> [sleep : Nat, down : Nat, quiet : Nat]]
  /\ sent \in [Conns -> Nat] /\ total \in Nat /\ want \in [Conns -> Targets \cup {NoTarget}]

\* The task and the reply task each hold the permit while they are there; the budget
\* counts the permits that somebody holds.
Holding(class) == {c \in Conns : Profile[c] = class /\ held[c] # {}}
PermitsKept ==
  /\ \A c \in Conns : /\ "task" \in held[c] <=> session[c] \in InAssoc
                      /\ "reply" \in held[c] <=> reply[c]
                      /\ reply[c] => session[c] \in {"relay", "resolving", "closed"}
  /\ \A class \in Classes : used[class] = Cardinality(Holding(class)) /\ used[class] <= Limit[class]

\* A record's targets are those it has counted for; before an association there are none.
RecordOK(c) ==
  /\ recs[c].open \subseteq recs[c].by
  /\ recs[c].last # NoTarget => recs[c].last \in recs[c].by
  /\ \A t \in Targets \ recs[c].by : recs[c].up[t] = 0
  /\ session[c] \notin {"relay", "resolving"} => recs[c].open = {}
  /\ session[c] = "resolving" => want[c] \in Targets

SentUnits == UNION {{c} \X (1..sent[c]) : c \in Conns}
RecordUnits == UNION {InRecords(c) : c \in Conns}

RecordsKept ==
  /\ \A c \in Conns : RecordOK(c)
  /\ IsFiniteSet(SentUnits) /\ IsFiniteSet(RecordUnits)
  /\ Cardinality(SentUnits) = total + Cardinality(RecordUnits)

\* Of the two clocks one is behind the time nothing passed, and that time is never more
\* than an idle time ahead of the sleep.
AgeOK(a) == /\ a.sleep <= Idle /\ a.quiet < a.sleep + Idle
            /\ a.sleep <= a.quiet \/ a.down <= a.quiet
            /\ a.down < Idle => a.quiet <= a.down
ClocksOK == \A c \in Conns : AgeOK(age[c])

InInv == InTyped /\ PermitsKept /\ RecordsKept

\* In the beginning nobody has sent anything.
LEMMA SessionsStart == InInit => InInv
<1> SUFFICES ASSUME InInit
             PROVE  InInv
  OBVIOUS
<1>1. InTyped
  BY DEF InInit, InTyped, Places, Records, NoRecs, NoAge
<1>2. PermitsKept
  <2>1. \A class \in Classes : Holding(class) = {} /\ used[class] = 0 /\ Limit[class] \in Nat
    BY InboundConstants DEF InInit, Holding
  <2>2. \A class \in Classes : used[class] = Cardinality(Holding(class)) /\ used[class] <= Limit[class]
    BY <2>1, FS_EmptySet
  <2> QED
    BY <2>2 DEF InInit, PermitsKept, InAssoc
<1>3. SentUnits = {} /\ RecordUnits = {}
  <2>1. \A c \in Conns : {c} \X (1..sent[c]) = {} /\ InRecords(c) = {}
    <3> SUFFICES ASSUME NEW c \in Conns
                 PROVE  {c} \X (1..sent[c]) = {} /\ InRecords(c) = {}
      OBVIOUS
    <3>1. sent[c] = 0 /\ recs[c].by = {}
      BY DEF InInit, NoRecs
    <3>2. 1..0 = {}
      OBVIOUS
    <3> QED
      BY <3>1, <3>2 DEF InRecords
  <2> QED
    BY <2>1 DEF SentUnits, RecordUnits
<1>4. RecordsKept
  <2>1. \A c \in Conns : RecordOK(c)
    BY InboundConstants DEF InInit, RecordOK, NoRecs
  <2> QED
    BY <1>3, <2>1, FS_EmptySet DEF RecordsKept, InInit
<1> QED
  BY <1>1, <1>2, <1>4 DEF InInv

\* The permits, when what one association holds changes, and the budget with it.
LEMMA HeldChanges ==
  ASSUME InTyped, PermitsKept, NEW c \in Conns, NEW h \in SUBSET {"task", "reply"},
         held' = [held EXCEPT ![c] = h],
         used' = CASE held[c] = {} /\ h # {} -> [used EXCEPT ![Profile[c]] = @ + 1]
                   [] held[c] # {} /\ h = {} -> [used EXCEPT ![Profile[c]] = @ - 1]
                   [] OTHER -> used,
         held[c] = {} /\ h # {} => used[Profile[c]] < Limit[Profile[c]]
  PROVE  /\ held' \in [Conns -> SUBSET {"task", "reply"}] /\ used' \in [Classes -> Nat]
         /\ \A class \in Classes : used'[class] = Cardinality(Holding(class)') /\ used'[class] <= Limit[class]
<1> DEFINE p == Profile[c]
<1>1. /\ p \in Classes /\ used \in [Classes -> Nat] /\ Limit \in [Classes -> Nat] /\ held \in [Conns -> SUBSET {"task", "reply"}]
      /\ \A class \in Classes : used[class] = Cardinality(Holding(class)) /\ used[class] <= Limit[class]
  BY InboundConstants DEF InTyped, PermitsKept
<1>2. \A class \in Classes : IsFiniteSet(Holding(class)) /\ Holding(class) \subseteq Conns
  <2> SUFFICES ASSUME NEW class \in Classes
               PROVE  IsFiniteSet(Holding(class)) /\ Holding(class) \subseteq Conns
    OBVIOUS
  <2>1. Holding(class) \in SUBSET Conns
    BY DEF Holding
  <2> QED
    BY <2>1, InboundConstants, FS_Subset
<1>3. held' \in [Conns -> SUBSET {"task", "reply"}] /\ held'[c] = h /\ \A d \in Conns \ {c} : held'[d] = held[d]
  BY <1>1
<1>4. \A class \in Classes \ {p} : Holding(class)' = Holding(class)
  BY <1>3 DEF Holding
<1>5. CASE held[c] = {} /\ h # {}
  <2>1. used' = [used EXCEPT ![p] = @ + 1] /\ used[p] < Limit[p]
    BY <1>5
  <2>2. Holding(p)' = Holding(p) \cup {c} /\ c \notin Holding(p)
    BY <1>3, <1>5 DEF Holding
  <2>3. Cardinality(Holding(p)') = Cardinality(Holding(p)) + 1
    BY <1>1, <1>2, <2>2, FS_AddElement
  <2> HIDE DEF p
  <2>4. used' \in [Classes -> Nat] /\ used'[p] = used[p] + 1 /\ \A class \in Classes \ {p} : used'[class] = used[class]
    BY <1>1, <2>1
  <2>5. used[p] \in Nat /\ Limit[p] \in Nat
    BY <1>1
  <2> QED
    BY <1>1, <1>3, <1>4, <2>1, <2>3, <2>4, <2>5
<1>6. CASE held[c] # {} /\ h = {}
  <2>1. used' = [used EXCEPT ![p] = @ - 1]
    BY <1>6
  <2>2. Holding(p)' = Holding(p) \ {c} /\ c \in Holding(p)
    BY <1>3, <1>6 DEF Holding
  <2>3. Cardinality(Holding(p)') = Cardinality(Holding(p)) - 1 /\ Cardinality(Holding(p)') \in Nat
    <3>1. IsFiniteSet(Holding(p) \ {c}) /\ Cardinality(Holding(p) \ {c}) = Cardinality(Holding(p)) - 1
      BY <1>1, <1>2, <2>2, FS_RemoveElement
    <3> QED
      BY <2>2, <3>1, FS_CardinalityType
  <2> HIDE DEF p
  <2>5. used[p] \in Nat /\ Limit[p] \in Nat /\ used[p] - 1 \in Nat
    BY <1>1, <2>3
  <2>4. used' \in [Classes -> Nat] /\ used'[p] = used[p] - 1 /\ \A class \in Classes \ {p} : used'[class] = used[class]
    BY <1>1, <2>1, <2>5
  <2> QED
    BY <1>1, <1>3, <1>4, <2>3, <2>4, <2>5
<1>7. CASE ~(held[c] = {} /\ h # {}) /\ ~(held[c] # {} /\ h = {})
  <2>1. used' = used
    BY <1>7
  <2>2. Holding(p)' = Holding(p)
    BY <1>3, <1>7 DEF Holding
  <2> QED
    BY <1>1, <1>3, <1>4, <2>1, <2>2
<1> QED
  BY <1>5, <1>6, <1>7

\* Steps that only move the session, before and beside an association.
LEMMA SessionMoves ==
  ASSUME InInv, NEW c \in Conns, NEW x \in Places \ InAssoc, session[c] \notin InAssoc,
         reply[c] => x = "closed",
         session' = [session EXCEPT ![c] = x], UNCHANGED <<reply, held, used, recs, sent, total, want>>,
         age' \in [Conns -> [sleep : Nat, down : Nat, quiet : Nat]]
  PROVE  InInv'
<1>1. session' \in [Conns -> Places] /\ session'[c] = x /\ \A d \in Conns \ {c} : session'[d] = session[d]
  BY DEF InInv, InTyped
<1>2. InTyped'
  BY <1>1 DEF InInv, InTyped
<1>3. PermitsKept'
  <2>1. \A class \in Classes : Holding(class)' = Holding(class)
    BY DEF Holding
  <2> QED
    BY <1>1, <2>1 DEF InInv, PermitsKept, InAssoc
<1>4. RecordsKept'
  <2>1. \A d \in Conns : RecordOK(d)'
    BY <1>1 DEF InInv, RecordsKept, RecordOK, InAssoc
  <2>2. UNCHANGED <<SentUnits, RecordUnits>>
    BY DEF SentUnits, RecordUnits, InRecords
  <2> QED
    BY <2>1, <2>2 DEF InInv, RecordsKept
<1> QED
  BY <1>2, <1>3, <1>4 DEF InInv

LEMMA HandshakeKeeps ==
  ASSUME InInv, NEW c \in Conns, HandshakeStep(c)
  PROVE  InInv'
<1>1. /\ session[c] \in {"new", "peek", "greet", "request", "head"} /\ UNCHANGED assocVars
      /\ \E x \in {"closed", "peek", "greet", "head", "request", "served", "permit"} : To(c, x)
  <2>1. session[c] \in {"new", "peek", "greet", "request", "head"} /\ UNCHANGED assocVars
    BY DEF HandshakeStep, Accepts, Peeks, Negotiates, Handshakes, ReadsHead, HandshakeTimesOut
  <2>2. \E x \in {"closed", "peek", "greet", "head", "request", "served", "permit"} : To(c, x)
    BY DEF HandshakeStep, Accepts, Peeks, Negotiates, Handshakes, ReadsHead, HandshakeTimesOut
  <2> QED
    BY <2>1, <2>2
<1>2. PICK x \in {"closed", "peek", "greet", "head", "request", "served", "permit"} : To(c, x)
  BY <1>1
<1>3. ~reply[c]
  BY <1>1 DEF InInv, PermitsKept, InTyped
<1>4. x \in Places \ InAssoc /\ session[c] \notin InAssoc
  BY <1>1 DEF Places, InAssoc
<1>5. age' \in [Conns -> [sleep : Nat, down : Nat, quiet : Nat]]
  BY <1>1 DEF assocVars, InInv, InTyped
<1> QED
  BY <1>1, <1>2, <1>3, <1>4, <1>5, SessionMoves DEF To, assocVars

\* Steps that move the session and a permit.  An association that ends leaves its
\* records to TearsDown.
LEMMA PermitMoves ==
  ASSUME InInv, NEW c \in Conns, NEW x \in Places, NEW b \in BOOLEAN, NEW h \in SUBSET {"task", "reply"},
         session' = [session EXCEPT ![c] = x], reply' = [reply EXCEPT ![c] = b], held' = [held EXCEPT ![c] = h],
         used' = CASE held[c] = {} /\ h # {} -> [used EXCEPT ![Profile[c]] = @ + 1]
                   [] held[c] # {} /\ h = {} -> [used EXCEPT ![Profile[c]] = @ - 1]
                   [] OTHER -> used,
         held[c] = {} /\ h # {} => used[Profile[c]] < Limit[Profile[c]],
         "task" \in h <=> x \in InAssoc, "reply" \in h <=> b, b => x \in {"relay", "resolving", "closed"},
         RecordsKept', recs' \in [Conns -> Records], sent' \in [Conns -> Nat], total' \in Nat,
         want' \in [Conns -> Targets \cup {NoTarget}],
         age' \in [Conns -> [sleep : Nat, down : Nat, quiet : Nat]]
  PROVE  InInv'
<1>1. InTyped /\ PermitsKept
  BY DEF InInv
<1>2. /\ held' \in [Conns -> SUBSET {"task", "reply"}] /\ used' \in [Classes -> Nat]
      /\ \A class \in Classes : used'[class] = Cardinality(Holding(class)') /\ used'[class] <= Limit[class]
  BY <1>1, HeldChanges
<1>3. InTyped'
  BY <1>1, <1>2 DEF InTyped
<1>4. ASSUME NEW d \in Conns
      PROVE  /\ "task" \in held'[d] <=> session'[d] \in InAssoc
             /\ "reply" \in held'[d] <=> reply'[d]
             /\ reply'[d] => session'[d] \in {"relay", "resolving", "closed"}
  <2>1. CASE d = c
    <3>1. held'[d] = h /\ session'[d] = x /\ reply'[d] = b
      BY <1>1, <2>1 DEF InTyped
    <3> QED
      BY <3>1
  <2>2. CASE d # c
    <3>1. held'[d] = held[d] /\ session'[d] = session[d] /\ reply'[d] = reply[d]
      BY <1>1, <2>2 DEF InTyped
    <3> QED
      BY <1>1, <3>1 DEF PermitsKept
  <2> QED
    BY <2>1, <2>2
<1>5. PermitsKept'
  BY <1>2, <1>4 DEF PermitsKept
<1> QED
  BY <1>3, <1>5 DEF InInv

\* The records stay as they are while a session moves.
LEMMA RecordsStay ==
  ASSUME InInv, NEW c \in Conns, NEW x \in Places, session' = [session EXCEPT ![c] = x],
         UNCHANGED <<recs, sent, total>>,
         x \notin {"relay", "resolving"} => session[c] \notin {"relay", "resolving"} \/ recs[c].open = {},
         \A d \in Conns \ {c} : want'[d] = want[d],
         x = "resolving" => want'[c] \in Targets
  PROVE  RecordsKept'
<1>1. \A d \in Conns : session'[d] = IF d = c THEN x ELSE session[d]
  BY DEF InInv, InTyped
<1>2. \A d \in Conns : RecordOK(d)'
  BY <1>1 DEF InInv, RecordsKept, RecordOK
<1>3. UNCHANGED <<SentUnits, RecordUnits>>
  BY DEF SentUnits, RecordUnits, InRecords
<1> QED
  BY <1>2, <1>3 DEF InInv, RecordsKept

LEMMA AcquiresKeeps ==
  ASSUME InInv, NEW c \in Conns, Acquires(c)
  PROVE  InInv'
<1>1. /\ session[c] = "permit" /\ UNCHANGED <<reply, recs, age, sent, total, want>>
      /\ ~reply[c] /\ held[c] = {} /\ reply \in [Conns -> BOOLEAN] /\ held \in [Conns -> SUBSET {"task", "reply"}]
  <2>1. session[c] = "permit" /\ UNCHANGED <<reply, recs, age, sent, total, want>>
    BY DEF Acquires
  <2>2. "task" \notin held[c] /\ "reply" \notin held[c] /\ ~reply[c] /\ reply \in [Conns -> BOOLEAN]
        /\ held \in [Conns -> SUBSET {"task", "reply"}]
    BY <2>1 DEF InInv, PermitsKept, InAssoc, InTyped
  <2> QED
    BY <2>1, <2>2
<1>2. /\ recs' \in [Conns -> Records] /\ sent' \in [Conns -> Nat] /\ total' \in Nat
      /\ want' \in [Conns -> Targets \cup {NoTarget}] /\ age' \in [Conns -> [sleep : Nat, down : Nat, quiet : Nat]]
  BY <1>1 DEF InInv, InTyped
<1>3. CASE To(c, "closed") /\ UNCHANGED <<held, used>>
  <2>1. "closed" \in Places \ InAssoc /\ session[c] \notin InAssoc
    BY <1>1 DEF Places, InAssoc
  <2> QED
    BY <1>1, <1>2, <1>3, <2>1, SessionMoves DEF To
<1>4. CASE /\ To(c, "bind") /\ used[Profile[c]] < Limit[Profile[c]]
           /\ held' = [held EXCEPT ![c] = {"task"}] /\ used' = [used EXCEPT ![Profile[c]] = @ + 1]
  <2>1. RecordsKept'
    <3>1. "bind" \in Places
      BY DEF Places
    <3> QED
      BY <1>1, <1>4, <3>1, RecordsStay DEF To
  <2>2. reply' = [reply EXCEPT ![c] = FALSE]
    BY <1>1
  <2>3. "bind" \in Places /\ "bind" \in InAssoc
    BY DEF Places, InAssoc
  <2>4. used' = CASE held[c] = {} /\ {"task"} # {} -> [used EXCEPT ![Profile[c]] = @ + 1]
                  [] held[c] # {} /\ {"task"} = {} -> [used EXCEPT ![Profile[c]] = @ - 1]
                  [] OTHER -> used
    BY <1>1, <1>4
  <2>5. {"task"} \in SUBSET {"task", "reply"} /\ ("task" \in {"task"}) /\ ("reply" \notin {"task"}) /\ ({"task"} # {})
    OBVIOUS
  <2> QED
    BY <1>1, <1>2, <1>4, <2>1, <2>2, <2>3, <2>4, <2>5, PermitMoves DEF To
<1>5. used[Profile[c]] \in Nat /\ Limit[Profile[c]] \in Nat
  BY InboundConstants DEF InInv, InTyped
<1> QED
  BY <1>3, <1>4, <1>5 DEF Acquires

\* The end of a holder, in the form PermitMoves asks for.
LEMMA LetsGoIs ==
  ASSUME InTyped, NEW c \in Conns, NEW who, LetsGo(c, who), held[c] # {}
  PROVE  LET h == held[c] \ who
         IN  /\ h \in SUBSET {"task", "reply"} /\ held' = [held EXCEPT ![c] = h]
             /\ used' = CASE held[c] = {} /\ h # {} -> [used EXCEPT ![Profile[c]] = @ + 1]
                          [] held[c] # {} /\ h = {} -> [used EXCEPT ![Profile[c]] = @ - 1]
                          [] OTHER -> used
<1>1. held[c] \in SUBSET {"task", "reply"} /\ held' = [held EXCEPT ![c] = @ \ who]
      /\ used' = IF held[c] # {} /\ held[c] \subseteq who THEN [used EXCEPT ![Profile[c]] = @ - 1] ELSE used
  BY DEF LetsGo, InTyped
<1>2. held[c] \subseteq who <=> held[c] \ who = {}
  OBVIOUS
<1> QED
  BY <1>1, <1>2

LEMMA OpensKeeps ==
  ASSUME InInv, NEW c \in Conns, NEW ok \in BOOLEAN, Opens(c, ok)
  PROVE  InInv'
<1>1. /\ session[c] = "bind" /\ UNCHANGED <<recs, sent, total, want>>
      /\ ~reply[c] /\ held[c] = {"task"} /\ reply \in [Conns -> BOOLEAN]
      /\ held \in [Conns -> SUBSET {"task", "reply"}]
  <2>1. session[c] = "bind" /\ UNCHANGED <<recs, sent, total, want>>
    BY DEF Opens
  <2>2. "task" \in held[c] /\ "reply" \notin held[c] /\ ~reply[c] /\ reply \in [Conns -> BOOLEAN]
        /\ held \in [Conns -> SUBSET {"task", "reply"}]
    BY <2>1 DEF InInv, PermitsKept, InAssoc, InTyped
  <2> QED
    BY <2>1, <2>2
<1>2. /\ recs' \in [Conns -> Records] /\ sent' \in [Conns -> Nat] /\ total' \in Nat
      /\ want' \in [Conns -> Targets \cup {NoTarget}]
  BY <1>1 DEF InInv, InTyped
<1>3. age \in [Conns -> [sleep : Nat, down : Nat, quiet : Nat]] /\ InTyped
  BY DEF InInv, InTyped
<1>4. CASE ok
  <2>1. /\ To(c, "relay") /\ reply' = [reply EXCEPT ![c] = TRUE] /\ held' = [held EXCEPT ![c] = {"task", "reply"}]
        /\ age' = [age EXCEPT ![c] = NoAge] /\ UNCHANGED used
    BY <1>4 DEF Opens
  <2>2. "relay" \in Places /\ "relay" \in InAssoc
    BY DEF Places, InAssoc
  <2>3. RecordsKept'
    BY <1>1, <2>1, <2>2, RecordsStay DEF To
  <2>4. age' \in [Conns -> [sleep : Nat, down : Nat, quiet : Nat]]
    BY <1>3, <2>1 DEF NoAge
  <2> QED
    BY <1>1, <1>2, <2>1, <2>2, <2>3, <2>4, PermitMoves DEF To
<1>5. CASE ~ok
  <2>1. To(c, "closed") /\ LetsGo(c, {"task"}) /\ UNCHANGED <<reply, age>>
    BY <1>5 DEF Opens
  <2>2. "closed" \in Places /\ "closed" \notin InAssoc
    BY DEF Places, InAssoc
  <2>3. RecordsKept'
    BY <1>1, <2>1, <2>2, RecordsStay DEF To
  <2>4. reply' = [reply EXCEPT ![c] = FALSE]
    BY <1>1, <2>1
  <2>5. held[c] \ {"task"} = {} /\ held[c] # {}
    BY <1>1
  <2>6. /\ held' = [held EXCEPT ![c] = {}]
        /\ used' = CASE held[c] = {} /\ {} # {} -> [used EXCEPT ![Profile[c]] = @ + 1]
                     [] held[c] # {} /\ {} = {} -> [used EXCEPT ![Profile[c]] = @ - 1]
                     [] OTHER -> used
    BY <1>3, <2>1, <2>5, LetsGoIs
  <2> QED
    BY <1>1, <1>2, <1>3, <2>1, <2>2, <2>3, <2>4, <2>5, <2>6, PermitMoves DEF To
<1> QED
  BY <1>4, <1>5

\* A datagram is charged to one record, its own or the last one that was used.
LEMMA ChargedOne ==
  ASSUME NEW r \in Records, NEW t \in Targets, r.open \subseteq r.by, r.last # NoTarget => r.last \in r.by
  PROVE  /\ Charged(r, t) \in Records /\ Charged(r, t).open \subseteq Charged(r, t).by
         /\ Charged(r, t).last \in Charged(r, t).by
         /\ \E u \in Targets : Charged(r, t).up = [r.up EXCEPT ![u] = @ + 1] /\ Charged(r, t).by = r.by \cup {u}
<1>1. r.by \in SUBSET Targets /\ r.up \in [Targets -> Nat]
  BY DEF Records
<1>2. CASE t \notin r.by /\ Cardinality(r.by) >= MaxTargets /\ r.last # NoTarget
  <2> DEFINE w == [r EXCEPT !.up[r.last] = @ + 1]
  <2>1. Charged(r, t) = w
    BY <1>2 DEF Charged
  <2>2. r.last \in r.by /\ r.last \in Targets
    BY <1>1, <1>2
  <2>3. w = [r EXCEPT !.up = [r.up EXCEPT ![r.last] = @ + 1]]
    BY DEF Records
  <2>4. [r.up EXCEPT ![r.last] = @ + 1] \in [Targets -> Nat]
    BY <1>1, <2>2
  <2>5. w \in Records /\ w.up = [r.up EXCEPT ![r.last] = @ + 1] /\ w.by = r.by /\ w.open = r.open /\ w.last = r.last
    BY <2>3, <2>4 DEF Records
  <2> HIDE DEF w
  <2> QED
    BY <2>1, <2>2, <2>5
<1>3. CASE ~(t \notin r.by /\ Cardinality(r.by) >= MaxTargets /\ r.last # NoTarget)
  <2> DEFINE w == [r EXCEPT !.by = @ \cup {t}, !.open = @ \cup {t}, !.last = t, !.up[t] = @ + 1]
  <2>1. Charged(r, t) = w
    BY <1>3 DEF Charged
  <2>2. w = [r EXCEPT !.by = @ \cup {t}, !.open = @ \cup {t}, !.last = t, !.up = [r.up EXCEPT ![t] = @ + 1]]
    BY DEF Records
  <2>3. [r.up EXCEPT ![t] = @ + 1] \in [Targets -> Nat]
    BY <1>1
  <2>4. /\ w \in Records /\ w.up = [r.up EXCEPT ![t] = @ + 1] /\ w.by = r.by \cup {t} /\ w.open = r.open \cup {t}
        /\ w.last = t
    BY <2>2, <2>3 DEF Records
  <2> HIDE DEF w
  <2> QED
    BY <2>1, <2>4
<1> QED
  BY <1>2, <1>3

LEMMA ChargesKeep ==
  ASSUME InInv, NEW c \in Conns, NEW t \in Targets, session[c] \in {"relay", "resolving"},
         session' = [session EXCEPT ![c] = "relay"],
         recs' = [recs EXCEPT ![c] = Charged(@, t)], sent' = [sent EXCEPT ![c] = @ + 1], UNCHANGED total,
         \A d \in Conns \ {c} : want'[d] = want[d]
  PROVE  RecordsKept' /\ recs' \in [Conns -> Records] /\ sent' \in [Conns -> Nat]
<1> DEFINE r == recs[c]  n == sent[c] + 1
<1>1. /\ recs \in [Conns -> Records] /\ sent \in [Conns -> Nat] /\ total \in Nat /\ RecordOK(c)
      /\ IsFiniteSet(SentUnits) /\ IsFiniteSet(RecordUnits)
      /\ Cardinality(SentUnits) = total + Cardinality(RecordUnits)
  BY DEF InInv, InTyped, RecordsKept
<1>2. r \in Records /\ r.open \subseteq r.by /\ (r.last # NoTarget => r.last \in r.by) /\ sent[c] \in Nat
      /\ \A x \in Targets \ r.by : r.up[x] = 0
  BY <1>1 DEF RecordOK
<1> DEFINE q == Charged(r, t)
<1>3. q \in Records /\ q.open \subseteq q.by /\ q.last \in q.by
  BY <1>2, ChargedOne
<1>4. PICK u \in Targets : q.up = [r.up EXCEPT ![u] = @ + 1] /\ q.by = r.by \cup {u}
  BY <1>2, ChargedOne
<1>5. recs' = [recs EXCEPT ![c] = q]
  OBVIOUS
<1> HIDE DEF q
<1>6. recs' \in [Conns -> Records] /\ recs'[c] = q /\ \A d \in Conns \ {c} : recs'[d] = recs[d]
  BY <1>1, <1>3, <1>5
<1>7. sent' \in [Conns -> Nat] /\ sent'[c] = n /\ \A d \in Conns \ {c} : sent'[d] = sent[d]
  BY <1>1
<1>8. SentUnits' = SentUnits \cup {<<c, n>>} /\ <<c, n>> \notin SentUnits
  <2>1. \A x : x \in SentUnits <=> \E d \in Conns, i \in Nat : i \in 1..sent[d] /\ x = <<d, i>>
    BY <1>1 DEF SentUnits
  <2>2. \A x : x \in SentUnits' <=> \E d \in Conns, i \in Nat : i \in 1..sent'[d] /\ x = <<d, i>>
    BY <1>7 DEF SentUnits
  <2>3. \A i \in Nat : i \in 1..sent'[c] <=> (i \in 1..sent[c] \/ i = n)
    BY <1>2, <1>7
  <2>4. n \in Nat /\ n \notin 1..sent[c] /\ n \in 1..sent'[c]
    BY <1>2, <1>7
  <2>5. <<c, n>> \notin SentUnits
    BY <2>1, <2>4
  <2>6. ASSUME NEW x \in SentUnits'
        PROVE  x \in SentUnits \cup {<<c, n>>}
    <3>1. PICK d \in Conns, i \in Nat : i \in 1..sent'[d] /\ x = <<d, i>>
      BY <2>2
    <3>2. CASE d = c
      BY <2>1, <2>3, <3>1, <3>2
    <3>3. CASE d # c
      BY <1>7, <2>1, <3>1, <3>3
    <3> QED
      BY <3>2, <3>3
  <2>7. ASSUME NEW x \in SentUnits
        PROVE  x \in SentUnits'
    <3>1. PICK d \in Conns, i \in Nat : i \in 1..sent[d] /\ x = <<d, i>>
      BY <2>1
    <3>2. i \in 1..sent'[d]
      BY <1>7, <2>3, <3>1
    <3> QED
      BY <2>2, <3>1, <3>2
  <2>8. <<c, n>> \in SentUnits'
    BY <2>2, <2>4
  <2> QED
    BY <2>5, <2>6, <2>7, <2>8
<1> DEFINE m == r.up[u] + 1
           one == <<<<c, u>>, m>>
<1>9. RecordUnits' = RecordUnits \cup {one} /\ one \notin RecordUnits
  <2>1. r.up \in [Targets -> Nat] /\ r.by \subseteq Targets /\ q.up \in [Targets -> Nat] /\ m \in Nat
    BY <1>2, <1>3 DEF Records
  <2>2. \A x : x \in RecordUnits <=>
               \E d \in Conns : \E v \in recs[d].by : \E i \in 1..recs[d].up[v] : x = <<<<d, v>>, i>>
    BY DEF RecordUnits, InRecords
  <2>3. \A x : x \in RecordUnits' <=>
               \E d \in Conns : \E v \in recs'[d].by : \E i \in 1..recs'[d].up[v] : x = <<<<d, v>>, i>>
    BY DEF RecordUnits, InRecords
  <2>4. m \notin 1..r.up[u] /\ m \in 1..q.up[u] /\ u \in q.by
    BY <1>4, <2>1
  <2>5. one \notin RecordUnits
    BY <2>2, <2>4
  <2>6. one \in RecordUnits'
    BY <1>6, <2>3, <2>4
  <2>7. ASSUME NEW x \in RecordUnits'
        PROVE  x \in RecordUnits \cup {one}
    <3>1. PICK d \in Conns : \E v \in recs'[d].by : \E i \in 1..recs'[d].up[v] : x = <<<<d, v>>, i>>
      BY <2>3
    <3>2. PICK v \in recs'[d].by : \E i \in 1..recs'[d].up[v] : x = <<<<d, v>>, i>>
      BY <3>1
    <3>3. PICK i \in 1..recs'[d].up[v] : x = <<<<d, v>>, i>>
      BY <3>2
    <3>4. CASE d # c
      BY <1>6, <2>2, <3>2, <3>3, <3>4
    <3>5. CASE d = c /\ v # u
      <4>1. v \in r.by /\ i \in 1..r.up[v]
        BY <1>4, <1>6, <2>1, <3>2, <3>3, <3>5
      <4> QED
        BY <2>2, <3>3, <3>5, <4>1
    <3>6. CASE d = c /\ v = u
      <4>1. i \in 1..m
        BY <1>4, <1>6, <2>1, <3>3, <3>6
      <4>2. i = m \/ i \in 1..r.up[u]
        BY <2>1, <4>1
      <4>3. i # m => u \in r.by
        BY <1>2, <2>1, <4>2
      <4> QED
        BY <2>2, <3>3, <3>6, <4>2, <4>3
    <3> QED
      BY <3>4, <3>5, <3>6
  <2>8. ASSUME NEW x \in RecordUnits
        PROVE  x \in RecordUnits'
    <3>1. PICK d \in Conns : \E v \in recs[d].by : \E i \in 1..recs[d].up[v] : x = <<<<d, v>>, i>>
      BY <2>2
    <3>2. PICK v \in recs[d].by : \E i \in 1..recs[d].up[v] : x = <<<<d, v>>, i>>
      BY <3>1
    <3>3. PICK i \in 1..recs[d].up[v] : x = <<<<d, v>>, i>>
      BY <3>2
    <3>4. CASE d # c
      BY <1>6, <2>3, <3>2, <3>3, <3>4
    <3>5. CASE d = c
      <4>1. v \in q.by /\ i \in 1..q.up[v]
        BY <1>4, <2>1, <3>2, <3>3, <3>5
      <4> QED
        BY <1>6, <2>3, <3>3, <3>5, <4>1
    <3> QED
      BY <3>4, <3>5
  <2> QED
    BY <2>5, <2>6, <2>7, <2>8
<1>10. /\ IsFiniteSet(SentUnits') /\ IsFiniteSet(RecordUnits')
       /\ Cardinality(SentUnits') = total' + Cardinality(RecordUnits')
  <2> HIDE DEF n, one
  <2>1. IsFiniteSet(SentUnits') /\ Cardinality(SentUnits') = Cardinality(SentUnits) + 1
    BY <1>1, <1>8, FS_AddElement
  <2>2. IsFiniteSet(RecordUnits') /\ Cardinality(RecordUnits') = Cardinality(RecordUnits) + 1
    BY <1>1, <1>9, FS_AddElement
  <2>3. Cardinality(SentUnits) \in Nat /\ Cardinality(RecordUnits) \in Nat
    BY <1>1, FS_CardinalityType
  <2> QED
    BY <1>1, <2>1, <2>2, <2>3
<1>11. ASSUME NEW d \in Conns
       PROVE  RecordOK(d)'
  <2>1. session'[d] = IF d = c THEN "relay" ELSE session[d]
    BY DEF InInv, InTyped
  <2>2. CASE d = c
    <3>1. \A x \in Targets \ q.by : q.up[x] = 0
      BY <1>2, <1>4 DEF Records
    <3> QED
      BY <1>3, <1>6, <2>1, <2>2, <3>1 DEF RecordOK
  <2>3. CASE d # c
    BY <1>6, <2>1, <2>3 DEF RecordOK, InInv, RecordsKept
  <2> QED
    BY <2>2, <2>3
<1> QED
  BY <1>6, <1>7, <1>10, <1>11 DEF RecordsKept

\* What an association that ends has counted moves from its records to the totals.
LEMMA EndKeeps ==
  ASSUME InInv, NEW c \in Conns, EndsConn(c), session' = [session EXCEPT ![c] = "closed"], UNCHANGED <<sent, want>>
  PROVE  RecordsKept' /\ recs' \in [Conns -> Records] /\ total' \in Nat
<1> DEFINE r == recs[c]
           w == [r EXCEPT !.open = @ \ r.by, !.up = [t \in Targets |-> 0]]
<1>1. /\ recs \in [Conns -> Records] /\ total \in Nat /\ IsFiniteSet(SentUnits) /\ IsFiniteSet(RecordUnits)
      /\ Cardinality(SentUnits) = total + Cardinality(RecordUnits) /\ \A d \in Conns : RecordOK(d)
  BY DEF InInv, InTyped, RecordsKept
<1>2. recs' = [recs EXCEPT ![c] = w] /\ total' = total + Cardinality(InRecords(c))
  BY DEF EndsConn, UpIn
<1>3. /\ w \in Records /\ w.open = {} /\ w.by = r.by /\ w.last = r.last /\ \A t \in Targets : w.up[t] = 0
  <2>1. r \in Records /\ r.open \subseteq r.by
    BY <1>1 DEF RecordOK
  <2> QED
    BY <2>1 DEF Records
<1> HIDE DEF w
<1>4. recs' \in [Conns -> Records] /\ recs'[c] = w /\ \A d \in Conns \ {c} : recs'[d] = recs[d]
  BY <1>1, <1>2, <1>3
<1>5. InRecords(c)' = {}
  <2>1. \A t \in w.by : 1..w.up[t] = {}
    BY <1>3 DEF Records
  <2> QED
    BY <1>4, <2>1 DEF InRecords
<1>6. \A d \in Conns \ {c} : InRecords(d)' = InRecords(d)
  BY <1>4 DEF InRecords
<1>7. \A d \in Conns : \A x \in InRecords(d) : x[1][1] = d
  BY DEF InRecords
<1>8. RecordUnits' = RecordUnits \ InRecords(c) /\ InRecords(c) \subseteq RecordUnits
  <2>1. InRecords(c) \subseteq RecordUnits
    BY DEF RecordUnits
  <2>2. ASSUME NEW x \in RecordUnits'
        PROVE  x \in RecordUnits /\ x \notin InRecords(c)
    <3>1. PICK d \in Conns : x \in InRecords(d)'
      BY DEF RecordUnits
    <3>2. d # c /\ x \in InRecords(d)
      BY <1>5, <1>6, <3>1
    <3> QED
      BY <1>7, <3>2 DEF RecordUnits
  <2>3. ASSUME NEW x \in RecordUnits, x \notin InRecords(c)
        PROVE  x \in RecordUnits'
    <3>1. PICK d \in Conns : x \in InRecords(d)
      BY DEF RecordUnits
    <3>2. x \in InRecords(d)'
      BY <1>6, <2>3, <3>1
    <3> QED
      BY <3>2 DEF RecordUnits
  <2> QED
    BY <2>1, <2>2, <2>3
<1>9. /\ IsFiniteSet(RecordUnits') /\ total' \in Nat /\ UNCHANGED SentUnits
      /\ Cardinality(SentUnits) = total' + Cardinality(RecordUnits')
  <2>1. IsFiniteSet(InRecords(c))
    BY <1>1, <1>8, FS_Subset
  <2>2. RecordUnits \cap InRecords(c) = InRecords(c)
    BY <1>8
  <2>3. IsFiniteSet(RecordUnits') /\ Cardinality(RecordUnits') = Cardinality(RecordUnits) - Cardinality(InRecords(c))
    <3> DEFINE S == RecordUnits  T == InRecords(c)
    <3>1. IsFiniteSet(S)
      BY <1>1
    <3> HIDE DEF S, T
    <3>2. IsFiniteSet(S \ T) /\ Cardinality(S \ T) = Cardinality(S) - Cardinality(S \cap T)
      BY <3>1, FS_Difference
    <3>3. RecordUnits' = S \ T /\ S \cap T = T
      BY <1>8, <2>2 DEF S, T
    <3>4. Cardinality(RecordUnits') = Cardinality(S) - Cardinality(T) /\ IsFiniteSet(RecordUnits')
      BY <3>2, <3>3
    <3> QED
      BY <3>4 DEF S, T
  <2>4. Cardinality(RecordUnits) \in Nat /\ Cardinality(InRecords(c)) \in Nat
    BY <1>1, <2>1, FS_CardinalityType
  <2>5. UNCHANGED SentUnits
    BY DEF SentUnits
  <2> QED
    BY <1>1, <1>2, <2>3, <2>4, <2>5
<1>10. ASSUME NEW d \in Conns
       PROVE  RecordOK(d)'
  <2>1. session'[d] = IF d = c THEN "closed" ELSE session[d]
    BY DEF InInv, InTyped
  <2> QED
    BY <1>1, <1>3, <1>4, <2>1 DEF RecordOK
<1> QED
  <2>1. IsFiniteSet(SentUnits)' /\ Cardinality(SentUnits') = total' + Cardinality(RecordUnits')
    BY <1>1, <1>9
  <2> QED
    BY <1>4, <1>9, <1>10, <2>1 DEF RecordsKept

\* What moves within an association.
LEMMA AssocMoves ==
  ASSUME InInv, NEW c \in Conns, session[c] \in {"relay", "resolving"}, NEW x \in {"relay", "resolving"},
         session' = [session EXCEPT ![c] = x], UNCHANGED <<reply, held, used>>,
         RecordsKept', recs' \in [Conns -> Records], sent' \in [Conns -> Nat], total' \in Nat,
         want' \in [Conns -> Targets \cup {NoTarget}],
         age' \in [Conns -> [sleep : Nat, down : Nat, quiet : Nat]]
  PROVE  InInv'
<1>1. /\ reply \in [Conns -> BOOLEAN] /\ held \in [Conns -> SUBSET {"task", "reply"}]
      /\ "task" \in held[c] /\ ("reply" \in held[c] <=> reply[c])
  BY DEF InInv, InTyped, PermitsKept, InAssoc
<1>2. reply' = [reply EXCEPT ![c] = reply[c]] /\ held' = [held EXCEPT ![c] = held[c]] /\ held[c] # {}
      /\ x \in Places /\ x \in InAssoc
  BY <1>1 DEF Places, InAssoc
<1>3. used' = CASE held[c] = {} /\ held[c] # {} -> [used EXCEPT ![Profile[c]] = @ + 1]
                [] held[c] # {} /\ held[c] = {} -> [used EXCEPT ![Profile[c]] = @ - 1]
                [] OTHER -> used
  BY <1>2
<1>4. reply[c] \in BOOLEAN /\ held[c] \in SUBSET {"task", "reply"}
  BY <1>1
<1> QED
  BY <1>1, <1>2, <1>3, <1>4, PermitMoves

LEMMA ForwardsKeeps ==
  ASSUME InInv, NEW c \in Conns, NEW t \in Targets, Forwards(c, t)
  PROVE  InInv'
<1>1. session[c] = "relay" /\ age' = Rearmed(c) /\ UNCHANGED <<reply, held, used, total>>
  BY DEF Forwards
<1>2. /\ session \in [Conns -> Places] /\ recs \in [Conns -> Records] /\ sent \in [Conns -> Nat] /\ total \in Nat
      /\ want \in [Conns -> Targets \cup {NoTarget}]
      /\ age' \in [Conns -> [sleep : Nat, down : Nat, quiet : Nat]]
  <2>1. /\ session \in [Conns -> Places] /\ recs \in [Conns -> Records] /\ sent \in [Conns -> Nat] /\ total \in Nat
        /\ want \in [Conns -> Targets \cup {NoTarget}] /\ age \in [Conns -> [sleep : Nat, down : Nat, quiet : Nat]]
    BY DEF InInv, InTyped
  <2>2. age' \in [Conns -> [sleep : Nat, down : Nat, quiet : Nat]]
    BY <1>1, <2>1 DEF Rearmed
  <2> QED
    BY <2>1, <2>2
<1>3. CASE UNCHANGED <<session, recs, sent, want>>
  <2>1. session' = [session EXCEPT ![c] = "relay"]
    BY <1>1, <1>2, <1>3
  <2>2. RecordsKept'
    <3>1. "relay" \in Places
      BY DEF Places
    <3> QED
      BY <1>1, <1>3, <2>1, <3>1, RecordsStay
  <2> QED
    BY <1>1, <1>2, <1>3, <2>1, <2>2, AssocMoves
<1>4. CASE To(c, "resolving") /\ want' = [want EXCEPT ![c] = t] /\ UNCHANGED <<recs, sent>>
  <2>1. RecordsKept'
    <3>1. "resolving" \in Places /\ want'[c] = t /\ \A d \in Conns \ {c} : want'[d] = want[d]
      BY <1>2, <1>4 DEF Places
    <3> QED
      BY <1>1, <1>4, <3>1, RecordsStay DEF To
  <2>2. want' \in [Conns -> Targets \cup {NoTarget}]
    BY <1>2, <1>4
  <2> QED
    BY <1>1, <1>2, <1>4, <2>1, <2>2, AssocMoves DEF To
<1>5. CASE recs' = [recs EXCEPT ![c] = Charged(@, t)] /\ sent' = [sent EXCEPT ![c] = @ + 1] /\ UNCHANGED <<session, want>>
  <2>1. session' = [session EXCEPT ![c] = "relay"]
    BY <1>1, <1>2, <1>5
  <2>2. RecordsKept' /\ recs' \in [Conns -> Records] /\ sent' \in [Conns -> Nat]
    BY <1>1, <1>5, <2>1, ChargesKeep
  <2> QED
    BY <1>1, <1>2, <1>5, <2>1, <2>2, AssocMoves
<1> QED
  BY <1>3, <1>4, <1>5 DEF Forwards

LEMMA ResolvedKeeps ==
  ASSUME InInv, NEW c \in Conns, NEW ok \in BOOLEAN, Resolved(c, ok)
  PROVE  InInv'
<1>1. /\ session[c] = "resolving" /\ session' = [session EXCEPT ![c] = "relay"] /\ want' = [want EXCEPT ![c] = NoTarget]
      /\ age' = Rearmed(c) /\ UNCHANGED <<reply, held, used, total>>
  BY DEF Resolved, To
<1>2. /\ recs \in [Conns -> Records] /\ sent \in [Conns -> Nat] /\ total \in Nat
      /\ want' \in [Conns -> Targets \cup {NoTarget}] /\ (\A d \in Conns \ {c} : want'[d] = want[d])
      /\ age' \in [Conns -> [sleep : Nat, down : Nat, quiet : Nat]] /\ want[c] \in Targets
  <2>1. recs \in [Conns -> Records] /\ sent \in [Conns -> Nat] /\ total \in Nat
        /\ want \in [Conns -> Targets \cup {NoTarget}] /\ age \in [Conns -> [sleep : Nat, down : Nat, quiet : Nat]]
    BY DEF InInv, InTyped
  <2>2. want' \in [Conns -> Targets \cup {NoTarget}] /\ (\A d \in Conns \ {c} : want'[d] = want[d])
    BY <1>1, <2>1
  <2>3. age' \in [Conns -> [sleep : Nat, down : Nat, quiet : Nat]]
    BY <1>1, <2>1 DEF Rearmed
  <2>4. want[c] \in Targets
    BY <1>1 DEF InInv, RecordsKept, RecordOK
  <2> QED
    BY <2>1, <2>2, <2>3, <2>4
<1>3. CASE ok
  <2>1. recs' = [recs EXCEPT ![c] = Charged(@, want[c])] /\ sent' = [sent EXCEPT ![c] = @ + 1]
    BY <1>3 DEF Resolved
  <2>2. RecordsKept' /\ recs' \in [Conns -> Records] /\ sent' \in [Conns -> Nat]
    BY <1>1, <1>2, <2>1, ChargesKeep
  <2> QED
    BY <1>1, <1>2, <2>2, AssocMoves
<1>4. CASE ~ok
  <2>1. UNCHANGED <<recs, sent>>
    BY <1>4 DEF Resolved
  <2>2. RecordsKept'
    <3>1. "relay" \in Places
      BY DEF Places
    <3> QED
      BY <1>1, <1>2, <2>1, <3>1, RecordsStay
  <2> QED
    BY <1>1, <1>2, <2>1, <2>2, AssocMoves
<1> QED
  BY <1>3, <1>4

\* Steps that only move the clocks.
LEMMA ClocksMove ==
  ASSUME InInv, UNCHANGED <<session, reply, held, used, recs, sent, total, want>>,
         age' \in [Conns -> [sleep : Nat, down : Nat, quiet : Nat]]
  PROVE  InInv'
<1>1. InTyped'
  BY DEF InInv, InTyped
<1>2. PermitsKept'
  <2>1. \A class \in Classes : Holding(class)' = Holding(class)
    BY DEF Holding
  <2> QED
    BY <2>1 DEF InInv, PermitsKept
<1>3. RecordsKept'
  <2>1. \A d \in Conns : RecordOK(d)'
    BY DEF InInv, RecordsKept, RecordOK
  <2>2. UNCHANGED <<SentUnits, RecordUnits>>
    BY DEF SentUnits, RecordUnits, InRecords
  <2> QED
    BY <2>1, <2>2 DEF InInv, RecordsKept
<1> QED
  BY <1>1, <1>2, <1>3 DEF InInv

LEMMA TearKeeps ==
  ASSUME InInv, NEW c \in Conns, session[c] = "relay", TearsDown(c)
  PROVE  InInv'
<1>1. /\ session' = [session EXCEPT ![c] = "closed"] /\ EndsConn(c) /\ LetsGo(c, {"task"})
      /\ UNCHANGED <<reply, age, sent, want>>
  BY DEF TearsDown, To
<1>2. RecordsKept' /\ recs' \in [Conns -> Records] /\ total' \in Nat
  BY <1>1, EndKeeps
<1>3. /\ reply \in [Conns -> BOOLEAN] /\ held \in [Conns -> SUBSET {"task", "reply"}] /\ "task" \in held[c]
      /\ ("reply" \in held[c] <=> reply[c]) /\ InTyped
  BY DEF InInv, InTyped, PermitsKept, InAssoc
<1> DEFINE h == held[c] \ {"task"}
<1>4. /\ h \in SUBSET {"task", "reply"} /\ held' = [held EXCEPT ![c] = h]
      /\ used' = CASE held[c] = {} /\ h # {} -> [used EXCEPT ![Profile[c]] = @ + 1]
                   [] held[c] # {} /\ h = {} -> [used EXCEPT ![Profile[c]] = @ - 1]
                   [] OTHER -> used
  BY <1>1, <1>3, LetsGoIs
<1>5. "task" \notin h /\ ("reply" \in h <=> reply[c]) /\ held[c] # {} /\ reply[c] \in BOOLEAN
  BY <1>3
<1> HIDE DEF h
<1>6. "closed" \in Places /\ "closed" \notin InAssoc /\ reply' = [reply EXCEPT ![c] = reply[c]]
  BY <1>1, <1>3 DEF Places, InAssoc
<1>7. /\ sent' \in [Conns -> Nat] /\ want' \in [Conns -> Targets \cup {NoTarget}]
      /\ age' \in [Conns -> [sleep : Nat, down : Nat, quiet : Nat]]
  BY <1>1, <1>3 DEF InTyped
<1> QED
  BY <1>1, <1>2, <1>4, <1>5, <1>6, <1>7, PermitMoves

\* The reply task lets its permit go by itself.
LEMMA ReplyKeeps ==
  ASSUME InInv, NEW c \in Conns, ReplyFails(c) \/ ReplyAborted(c)
  PROVE  InInv'
<1>1. /\ reply[c] /\ reply' = [reply EXCEPT ![c] = FALSE] /\ LetsGo(c, {"reply"})
      /\ UNCHANGED <<session, recs, age, sent, total, want>>
  BY DEF ReplyFails, ReplyAborted
<1>2. /\ session \in [Conns -> Places] /\ held \in [Conns -> SUBSET {"task", "reply"}] /\ "reply" \in held[c] /\ InTyped
      /\ ("task" \in held[c] <=> session[c] \in InAssoc)
  BY <1>1 DEF InInv, InTyped, PermitsKept
<1> DEFINE h == held[c] \ {"reply"}  x == session[c]
<1>3. /\ h \in SUBSET {"task", "reply"} /\ held' = [held EXCEPT ![c] = h]
      /\ used' = CASE held[c] = {} /\ h # {} -> [used EXCEPT ![Profile[c]] = @ + 1]
                   [] held[c] # {} /\ h = {} -> [used EXCEPT ![Profile[c]] = @ - 1]
                   [] OTHER -> used
  BY <1>1, <1>2, LetsGoIs
<1>4. "reply" \notin h /\ ("task" \in h <=> x \in InAssoc) /\ held[c] # {}
  BY <1>2
<1>5. x \in Places /\ session' = [session EXCEPT ![c] = x]
  BY <1>1, <1>2
<1>6. RecordsKept'
  <2>1. \A d \in Conns : RecordOK(d)'
    BY <1>1 DEF InInv, RecordsKept, RecordOK
  <2>2. UNCHANGED <<SentUnits, RecordUnits>>
    BY <1>1 DEF SentUnits, RecordUnits, InRecords
  <2> QED
    BY <1>1, <2>1, <2>2 DEF InInv, RecordsKept
<1>7. /\ recs' \in [Conns -> Records] /\ sent' \in [Conns -> Nat] /\ total' \in Nat
      /\ want' \in [Conns -> Targets \cup {NoTarget}] /\ age' \in [Conns -> [sleep : Nat, down : Nat, quiet : Nat]]
  BY <1>1, <1>2 DEF InTyped
<1> HIDE DEF h, x
<1> QED
  BY <1>1, <1>3, <1>4, <1>5, <1>6, <1>7, PermitMoves

\* An association that is not heard of starts its sleep again; a cut ends it.
LEMMA IdleKeeps ==
  ASSUME InInv, NEW c \in Conns, IdleFires(c)
  PROVE  InInv'
<1>1. CASE age' = [age EXCEPT ![c].sleep = 0] /\ UNCHANGED <<session, reply, held, used, recs, sent, total, want>>
  <2>1. age' \in [Conns -> [sleep : Nat, down : Nat, quiet : Nat]]
    BY <1>1 DEF InInv, InTyped
  <2> QED
    BY <1>1, <2>1, ClocksMove
<1>2. CASE TearsDown(c)
  BY <1>2, TearKeeps DEF IdleFires
<1> QED
  BY <1>1, <1>2 DEF IdleFires

\* A tick moves clocks and nothing else.
LEMMA TickKeeps ==
  ASSUME InInv, InTick
  PROVE  InInv'
<1>1. age' = [d \in Conns |-> IF d \in Associated
                              THEN [sleep |-> age[d].sleep + 1, quiet |-> age[d].quiet + 1,
                                    down |-> IF age[d].down < Idle THEN age[d].down + 1 ELSE Idle]
                              ELSE age[d]]
  BY DEF InTick
<1>2. age \in [Conns -> [sleep : Nat, down : Nat, quiet : Nat]] /\ Idle \in Nat
  BY InboundConstants DEF InInv, InTyped
<1>3. age' \in [Conns -> [sleep : Nat, down : Nat, quiet : Nat]]
  BY <1>1, <1>2
<1> QED
  BY <1>3, ClocksMove DEF InTick

\* A step of an association, or of its task.
LEMMA SessionStepKeeps ==
  ASSUME InInv, NEW c \in Conns, SessionStep(c)
  PROVE  InInv'
<1>1. age \in [Conns -> [sleep : Nat, down : Nat, quiet : Nat]]
  BY DEF InInv, InTyped
<1>2. CASE \E t \in Targets : Forwards(c, t)
  BY <1>2, ForwardsKeeps
<1>3. CASE Wakes(c)
  <2>1. age' \in [Conns -> [sleep : Nat, down : Nat, quiet : Nat]]
    BY <1>1, <1>3 DEF Wakes, Rearmed
  <2> QED
    BY <1>3, <2>1, ClocksMove DEF Wakes
<1>4. CASE Delivers(c)
  <2>1. age' \in [Conns -> [sleep : Nat, down : Nat, quiet : Nat]]
    BY <1>1, <1>4 DEF Delivers
  <2> QED
    BY <1>4, <2>1, ClocksMove DEF Delivers
<1>5. CASE ControlEnds(c)
  BY <1>5, TearKeeps DEF ControlEnds
<1>6. CASE ReplyFails(c)
  BY <1>6, ReplyKeeps
<1> QED
  BY <1>2, <1>3, <1>4, <1>5, <1>6 DEF SessionStep

LEMMA AssocStepKeeps ==
  ASSUME InInv, NEW c \in Conns, AssocStep(c)
  PROVE  InInv'
<1>1. CASE Acquires(c)
  BY <1>1, AcquiresKeeps
<1>2. CASE \E ok \in BOOLEAN : Opens(c, ok)
  BY <1>2, OpensKeeps
<1>3. CASE \E ok \in BOOLEAN : Resolved(c, ok)
  BY <1>3, ResolvedKeeps
<1>4. CASE IdleFires(c)
  BY <1>4, IdleKeeps
<1>5. CASE ReplyEndSeen(c)
  BY <1>5, TearKeeps DEF ReplyEndSeen
<1>6. CASE ReplyAborted(c)
  BY <1>6, ReplyKeeps
<1> QED
  BY <1>1, <1>2, <1>3, <1>4, <1>5, <1>6 DEF AssocStep

LEMMA InStepKeeps ==
  ASSUME InInv, [InNext]_inVars
  PROVE  InInv'
<1>1. CASE UNCHANGED inVars
  <2>1. UNCHANGED <<session, reply, held, used, recs, sent, total, want>> /\ UNCHANGED age
    BY <1>1 DEF inVars
  <2>2. age' \in [Conns -> [sleep : Nat, down : Nat, quiet : Nat]]
    BY <2>1 DEF InInv, InTyped
  <2> QED
    BY <2>1, <2>2, ClocksMove
<1>2. CASE InTick
  BY <1>2, TickKeeps
<1>3. ASSUME NEW c \in Conns, HandshakeStep(c) \/ AssocStep(c) \/ SessionStep(c)
      PROVE  InInv'
  BY <1>3, HandshakeKeeps, AssocStepKeeps, SessionStepKeeps
<1> QED
  BY <1>1, <1>2, <1>3 DEF InNext

\* What the invariant says of the budget and of the totals.
LEMMA InInvSafe ==
  ASSUME InInv
  PROVE  InboundSafe
<1>1. ASSUME NEW class \in Classes
      PROVE  {c \in Conns : Profile[c] = class /\ (session[c] \in {"bind", "relay", "resolving"} \/ reply[c])} = Holding(class)
  <2>1. \A c \in Conns : held[c] # {} <=> (session[c] \in {"bind", "relay", "resolving"} \/ reply[c])
    <3> SUFFICES ASSUME NEW c \in Conns
                 PROVE  held[c] # {} <=> (session[c] \in {"bind", "relay", "resolving"} \/ reply[c])
      OBVIOUS
    <3>1. held[c] \subseteq {"task", "reply"} /\ ("task" \in held[c] <=> session[c] \in InAssoc)
          /\ ("reply" \in held[c] <=> reply[c])
      BY DEF InInv, InTyped, PermitsKept
    <3> QED
      BY <3>1 DEF InAssoc
  <2> QED
    BY <2>1 DEF Holding
<1>2. SessionsWithinBudget
  <2>1. \A class \in Classes : used[class] = Cardinality(Holding(class)) /\ used[class] <= Limit[class]
    BY DEF InInv, PermitsKept
  <2> QED
    BY <1>1, <2>1 DEF SessionsWithinBudget
<1>3. UploadsCounted
  <2>1. Cardinality(SentUnits) = total + Cardinality(RecordUnits) /\ \A c \in Conns : RecordOK(c)
    BY DEF InInv, RecordsKept
  <2>2. \A c \in Conns : session[c] = "closed" => recs[c].open = {}
    BY <2>1 DEF RecordOK
  <2> QED
    BY <2>1, <2>2 DEF UploadsCounted, SentUnits, RecordUnits
<1> QED
  BY <1>2, <1>3 DEF InboundSafe

-----------------------------------------------------------------------------
(* The clocks of one association, whichever step moves them. *)

Ages == [sleep : Nat, down : Nat, quiet : Nat]

LEMMA AgesMove ==
  ASSUME Idle \in Nat, Idle > 0, NEW a \in Ages, AgeOK(a)
  PROVE  /\ AgeOK(NoAge) /\ AgeOK([a EXCEPT !.sleep = 0, !.quiet = 0]) /\ AgeOK([a EXCEPT !.down = 0, !.quiet = 0])
         /\ a.sleep < Idle => AgeOK([sleep |-> a.sleep + 1, quiet |-> a.quiet + 1,
                                     down |-> IF a.down < Idle THEN a.down + 1 ELSE Idle])
         /\ a.down < Idle => AgeOK([a EXCEPT !.sleep = 0])
<1>1. a.sleep \in Nat /\ a.down \in Nat /\ a.quiet \in Nat
  BY DEF Ages
<1>2. AgeOK(NoAge)
  BY DEF AgeOK, NoAge
<1>3. AgeOK([a EXCEPT !.sleep = 0, !.quiet = 0])
  <2> DEFINE b == [a EXCEPT !.sleep = 0, !.quiet = 0]
  <2>1. b.sleep = 0 /\ b.down = a.down /\ b.quiet = 0
    BY DEF Ages
  <2> HIDE DEF b
  <2>2. AgeOK(b)
    BY <1>1, <2>1 DEF AgeOK
  <2> QED
    BY <2>2 DEF b
<1>4. AgeOK([a EXCEPT !.down = 0, !.quiet = 0])
  <2> DEFINE b == [a EXCEPT !.down = 0, !.quiet = 0]
  <2>1. b.sleep = a.sleep /\ b.down = 0 /\ b.quiet = 0
    BY DEF Ages
  <2> HIDE DEF b
  <2>2. AgeOK(b)
    BY <1>1, <2>1 DEF AgeOK
  <2> QED
    BY <2>2 DEF b
<1>5. a.down < Idle => AgeOK([a EXCEPT !.sleep = 0])
  <2> DEFINE b == [a EXCEPT !.sleep = 0]
  <2>1. b.sleep = 0 /\ b.down = a.down /\ b.quiet = a.quiet
    BY DEF Ages
  <2> HIDE DEF b
  <2>2. a.down < Idle => AgeOK(b)
    BY <1>1, <2>1 DEF AgeOK
  <2> QED
    BY <2>2 DEF b
<1>7. ASSUME a.sleep < Idle
      PROVE  AgeOK([sleep |-> a.sleep + 1, quiet |-> a.quiet + 1, down |-> IF a.down < Idle THEN a.down + 1 ELSE Idle])
  <2>1. CASE a.down < Idle
    BY <1>1, <1>7, <2>1 DEF AgeOK
  <2>2. CASE ~(a.down < Idle)
    BY <1>1, <1>7, <2>2 DEF AgeOK
  <2> QED
    BY <2>1, <2>2
<1> QED
  BY <1>2, <1>3, <1>4, <1>5, <1>7

\* The clocks of one association are moved by its own steps and by time.
LEMMA ClockKept ==
  ASSUME Idle > 0, InTyped, ClocksOK, [InNext]_inVars
  PROVE  ClocksOK'
<1>1. age \in [Conns -> Ages] /\ Idle \in Nat
  BY InboundConstants DEF InTyped, Ages
<1>2. /\ AgeOK(NoAge)
      /\ \A d \in Conns : /\ age[d] \in Ages /\ AgeOK(age[d])
                          /\ AgeOK([age[d] EXCEPT !.sleep = 0, !.quiet = 0]) /\ AgeOK([age[d] EXCEPT !.down = 0, !.quiet = 0])
                          /\ age[d].sleep < Idle =>
                               AgeOK([sleep |-> age[d].sleep + 1, quiet |-> age[d].quiet + 1,
                                      down |-> IF age[d].down < Idle THEN age[d].down + 1 ELSE Idle])
                          /\ age[d].down < Idle => AgeOK([age[d] EXCEPT !.sleep = 0])
  <2>1. AgeOK(NoAge)
    BY <1>1 DEF AgeOK, NoAge
  <2> QED
    BY <1>1, <2>1, AgesMove DEF ClocksOK
<1>3. ASSUME NEW c \in Conns, NEW a, AgeOK(a), age' = [age EXCEPT ![c] = a]
      PROVE  ClocksOK'
  <2>1. \A d \in Conns : age'[d] = IF d = c THEN a ELSE age[d]
    BY <1>1, <1>3
  <2> QED
    BY <1>2, <1>3, <2>1 DEF ClocksOK, AgeOK
<1>4. CASE UNCHANGED age
  BY <1>4 DEF ClocksOK, AgeOK
<1>5. CASE InTick
  <2>1. \A d \in Associated : d \in Conns /\ age[d].sleep < Idle
    BY <1>5 DEF InTick, Associated
  <2>2. \A d \in Conns : age'[d] = IF d \in Associated
                                   THEN [sleep |-> age[d].sleep + 1, quiet |-> age[d].quiet + 1,
                                         down |-> IF age[d].down < Idle THEN age[d].down + 1 ELSE Idle]
                                   ELSE age[d]
    BY <1>5 DEF InTick
  <2>3. ASSUME NEW d \in Conns
        PROVE  AgeOK(age'[d])
    BY <1>2, <2>1, <2>2
  <2> QED
    BY <2>3 DEF ClocksOK, AgeOK
<1>6. ASSUME NEW c \in Conns, HandshakeStep(c) \/ AssocStep(c) \/ SessionStep(c)
      PROVE  ClocksOK'
  <2>1. \/ UNCHANGED age
        \/ age' = [age EXCEPT ![c] = NoAge]
        \/ age' = Rearmed(c)
        \/ age' = [age EXCEPT ![c].down = 0, ![c].quiet = 0]
        \/ age[c].down < Idle /\ age' = [age EXCEPT ![c].sleep = 0]
    <3>1. CASE HandshakeStep(c)
      BY <3>1 DEF HandshakeStep, Accepts, Peeks, Negotiates, Handshakes, ReadsHead, HandshakeTimesOut, assocVars
    <3>2. CASE AssocStep(c)
      BY <3>2 DEF AssocStep, Acquires, Opens, Resolved, IdleFires, ReplyEndSeen, ReplyAborted, TearsDown
    <3>3. CASE SessionStep(c)
      BY <3>3 DEF SessionStep, Forwards, Wakes, Delivers, ControlEnds, ReplyFails, TearsDown
    <3> QED
      BY <1>6, <3>1, <3>2, <3>3
  <2>2. CASE age' = Rearmed(c)
    <3>1. age' = [age EXCEPT ![c] = [age[c] EXCEPT !.sleep = 0, !.quiet = 0]]
      BY <1>1, <2>2 DEF Rearmed, Ages
    <3> QED
      BY <1>2, <1>3, <3>1
  <2>3. CASE age' = [age EXCEPT ![c].down = 0, ![c].quiet = 0]
    <3>1. age' = [age EXCEPT ![c] = [age[c] EXCEPT !.down = 0, !.quiet = 0]]
      BY <1>1, <2>3 DEF Ages
    <3> QED
      BY <1>2, <1>3, <3>1
  <2>4. CASE age[c].down < Idle /\ age' = [age EXCEPT ![c].sleep = 0]
    <3>1. age' = [age EXCEPT ![c] = [age[c] EXCEPT !.sleep = 0]]
      BY <1>1, <2>4 DEF Ages
    <3> QED
      BY <1>2, <1>3, <2>4, <3>1
  <2>5. CASE age' = [age EXCEPT ![c] = NoAge]
    BY <1>2, <1>3, <2>5
  <2> QED
    BY <1>4, <2>1, <2>2, <2>3, <2>4, <2>5
<1>7. UNCHANGED inVars => UNCHANGED age
  BY DEF inVars
<1> QED
  BY <1>4, <1>5, <1>6, <1>7 DEF InNext

\* The sessions of the proxy ports whose sockets are open are counted one by one in the
\* budget and never exceed it; every datagram sent for a client is in one record or in
\* the totals, and no record outlives its association.  (Budget and Permit, forward_record
\* and UdpAssocRecords::close of inbound_proxy.rs.)
THEOREM SessionsAccounted == InSpec => []InboundSafe
<1>1. InInit => InInv
  BY SessionsStart
<1>2. InInv /\ [InNext]_inVars => InInv'
  BY InStepKeeps
<1>3. InInv => InboundSafe
  BY InInvSafe
<1> QED
  BY <1>1, <1>2, <1>3, PTL DEF InSpec

\* An association of the proxy ports is cut for idleness only when nothing passed for the
\* idle time, and never kept for twice as long, when udp_idle is not zero.  (The idle
\* branch of udp_associate_inbound.)
THEOREM CutWhenIdle == ASSUME Idle > 0 PROVE InSpec => IdleExact
<1>1. InInit => InInv /\ ClocksOK
  <2>1. ASSUME InInit
        PROVE  ClocksOK
    <3>1. Idle \in Nat /\ \A d \in Conns : age[d] = NoAge
      BY <2>1, InboundConstants DEF InInit
    <3> QED
      BY <3>1 DEF ClocksOK, AgeOK, NoAge
  <2> QED
    BY <2>1, SessionsStart
<1>2. InInv /\ ClocksOK /\ [InNext]_inVars => (InInv /\ ClocksOK)'
  BY InStepKeeps, ClockKept DEF InInv
<1>3. InInv /\ (InInv /\ ClocksOK)' /\ ClocksOK =>
        [\A c \in Conns : /\ (session[c] = "relay" /\ IdleFires(c) /\ session'[c] = "closed") => age[c].quiet >= Idle
                          /\ session'[c] = "relay" => age'[c].quiet < 2 * Idle]_inVars
  <2> SUFFICES ASSUME InInv, InInv', ClocksOK, ClocksOK', NEW c \in Conns
               PROVE  /\ (session[c] = "relay" /\ IdleFires(c) /\ session'[c] = "closed") => age[c].quiet >= Idle
                      /\ session'[c] = "relay" => age'[c].quiet < 2 * Idle
    OBVIOUS
  <2>1. /\ Idle \in Nat /\ age[c].sleep \in Nat /\ age[c].down \in Nat /\ age[c].quiet \in Nat
        /\ age'[c].sleep \in Nat /\ age'[c].quiet \in Nat
    BY InboundConstants DEF InInv, InTyped
  <2>2. ASSUME session[c] = "relay", IdleFires(c), session'[c] = "closed"
        PROVE  age[c].quiet >= Idle
    <3>1. age[c].sleep >= Idle /\ ~(age[c].down < Idle)
      BY <2>2 DEF IdleFires
    <3> QED
      BY <2>1, <3>1 DEF ClocksOK, AgeOK
  <2>3. age'[c].quiet < 2 * Idle
    BY <2>1 DEF ClocksOK, AgeOK
  <2> QED
    BY <2>2, <2>3
<1> QED
  BY <1>1, <1>2, <1>3, PTL DEF InSpec, IdleExact
=============================================================================
