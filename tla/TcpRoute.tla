------------------------------ MODULE TcpRoute ------------------------------
(***************************************************************************)
(* Where a TCP connection is dialled (serve_established of                 *)
(* sniffbox/engine.rs, up to the outbound's dial).  A connection comes     *)
(* from the transparent listener, from cloudflared, or from a SOCKS5 or    *)
(* HTTP client that may have named a domain; the program finds a label     *)
(* for its address, perhaps reads what the client sends first, asks the    *)
(* fake-IP pool for a name, and either drops it or dials an address or a   *)
(* name.  Between these steps other connections and the UDP engine change  *)
(* the hints (domain_rules::IpHints), and the pool forgets addresses.      *)
(***************************************************************************)
EXTENDS Naturals, FiniteSets

CONSTANTS
  Conn,        \* connections
  RealAddr,    \* addresses of the internet
  EdgeAddr,    \* those that ip_rules.rs puts in a group
  FakeAddr,    \* addresses of the fake-IP network
  Unspecified, \* 0.0.0.0, the address of a request that names a domain
  PlainName,   \* domains in no group
  GroupName,   \* domains that domain_rules.rs puts in a group
  NoName,      \* no domain
  HintsCap     \* HINTS_CAP

ASSUME RouteConstants ==
  /\ EdgeAddr \subseteq RealAddr
  /\ RealAddr \cap FakeAddr = {}
  /\ Unspecified \notin RealAddr \cup FakeAddr
  /\ NoName \notin PlainName \cup GroupName
  /\ HintsCap \in Nat \ {0}

Addr == RealAddr \cup FakeAddr \cup {Unspecified}
Name == PlainName \cup GroupName
Optional == Name \cup {NoName}

VARIABLES
  route,  \* per connection: see Routes
  hints,  \* IpHints: the addresses that were seen with a domain of a group
  bound,  \* the fake-IP pool's name of each fake address, or NoName
  direct  \* whether the outbound dials itself (free, ovpn) or asks a SOCKS5 server

routeVars == <<route, hints, bound, direct>>
-----------------------------------------------------------------------------
Inbounds == {"tproxy", "socks5", "http", "healthcheck", "cloudflared"}

\* What the sniffers make of the first bytes.
Protocols == {"unknown", "bittorrent", "known"}
Unsniffed == [proto |-> "unknown", name |-> NoName, ech |-> FALSE]
Sniffable ==
  {Unsniffed, [proto |-> "bittorrent", name |-> NoName, ech |-> FALSE]}
    \cup [proto : {"known"}, name : Optional, ech : BOOLEAN]

\* A connection: the step it is at; Established; the label found by address
\* (ip_group) and in the end (group); what was sniffed; what is dialled.
Routes ==
  [pc : {"away", "sniff", "resolve", "dial", "gone"},
   inbound : Inbounds, dest : Addr, named : Optional,
   grouped : BOOLEAN, sniffed : Sniffable,
   to : Addr, name : Optional]

Taken(pc, inbound, dest, named, grouped) ==
  [pc |-> pc, inbound |-> inbound, dest |-> dest, named |-> named, grouped |-> grouped,
   sniffed |-> Unsniffed, to |-> Unspecified, name |-> NoName]

Absent == Taken("away", "tproxy", Unspecified, NoName, FALSE)
Gone == Taken("gone", "tproxy", Unspecified, NoName, FALSE)

RouteInit ==
  /\ route = [c \in Conn |-> Absent]
  /\ hints = {}
  /\ bound = [f \in FakeAddr |-> NoName]
  /\ direct \in BOOLEAN
-----------------------------------------------------------------------------
\* IpHints::evict_oldest drops a quarter, at least one, never the youngest.  Which
\* are the oldest is left open.
Drops(n) == IF n = 1 THEN 0 ELSE IF n < 4 THEN 1 ELSE n \div 4
Evicted(h) == {old \in SUBSET h : Cardinality(old) = Drops(Cardinality(h))}

\* IpHints::note.
Note(a) ==
  IF a \in hints \/ Cardinality(hints) < HintsCap THEN hints' = hints \cup {a}
  ELSE \E old \in Evicted(hints) : hints' = (hints \ old) \cup {a}

\* serve_established looks for a label by address before it sniffs.
IpGroup(inbound, a) == inbound = "cloudflared" \/ a \in EdgeAddr \/ a \in hints

\* Whether the client's first bytes are looked at: not for cloudflared, a health
\* check or a forwarded HTTP request (sniff = FALSE), never when the address has a
\* label, and not on a port where servers speak first or one in the negative
\* cache (skip).
Sniffs(inbound, a, forward, skip) ==
  /\ inbound \in {"tproxy", "socks5", "http"} /\ ~forward /\ ~skip
  /\ ~IpGroup(inbound, a)

Arrives(c, inbound, dest, named) ==
  /\ route[c].pc = "away"
  /\ \E forward \in {FALSE, inbound = "http"}, skip \in BOOLEAN :
       route' = [route EXCEPT ![c] =
         Taken(IF Sniffs(inbound, dest, forward, skip) THEN "sniff" ELSE "resolve",
               inbound, dest, named, IpGroup(inbound, dest))]
  /\ UNCHANGED <<hints, bound, direct>>

\* handle_conn and handle_cf_conn: the address is the one the client dialled.
HandleConn(c) == \E a \in RealAddr \cup FakeAddr : Arrives(c, "tproxy", a, NoName)
HandleCfConn(c) == \E a \in RealAddr \cup FakeAddr : Arrives(c, "cloudflared", a, NoName)

\* dest_to_established and host_port_to_established: an address, or a domain and
\* the unspecified address.
HandleProxy(c) ==
  \E inbound \in {"socks5", "http", "healthcheck"} :
    \/ \E a \in RealAddr \cup FakeAddr : Arrives(c, inbound, a, NoName)
    \/ \E n \in Name : Arrives(c, inbound, Unspecified, n)

\* peek_and_sniff: the client closed, or failed, or something was recognised or not.
ClientLeaves(c) ==
  /\ route[c].pc = "sniff"
  /\ route' = [route EXCEPT ![c] = Gone]
  /\ UNCHANGED <<hints, bound, direct>>

Sniffed(c) ==
  /\ route[c].pc = "sniff"
  /\ \E s \in Sniffable : route' = [route EXCEPT ![c].pc = "resolve", ![c].sniffed = s]
  /\ UNCHANGED <<hints, bound, direct>>
-----------------------------------------------------------------------------
InFakeip(a) == a \in FakeAddr

\* resolve_domains: the domain to route by.
Routing(r) ==
  IF r.named # NoName THEN r.named
  ELSE IF InFakeip(r.dest)
    THEN IF r.sniffed.name # NoName THEN r.sniffed.name ELSE bound[r.dest]
    ELSE IF r.sniffed.ech THEN NoName ELSE r.sniffed.name

FakeipUnresolved(r) ==
  /\ InFakeip(r.dest)
  /\ r.named = NoName /\ r.sniffed.name = NoName /\ bound[r.dest] = NoName

\* The domain of the statistics and of the groups.
StatsName(r) == IF Routing(r) # NoName THEN Routing(r) ELSE r.sniffed.name

\* apply_domain_group: whether the domain has a group, and whether the address is
\* then noted and the domain dropped.
ByDomainGroup(r) == ~r.grouped /\ StatsName(r) \in GroupName
NotesAnyAddress(r) == ByDomainGroup(r)
NotesAddress(r) == ByDomainGroup(r) /\ ~InFakeip(r.dest)

\* should_block, for any values of block_bittorrent and block_unknown.
ShouldBlock(r, bt, unknown) ==
  /\ ~r.grouped /\ ~ByDomainGroup(r)
  /\ \/ FakeipUnresolved(r)
     \/ r.sniffed.proto = "bittorrent" /\ bt
     \/ r.sniffed.proto = "unknown" /\ unknown /\ r.named = NoName

\* Outbound::connect_tcp: dialling itself, the program prefers the address it was
\* given to the name, if the address can be dialled.
DialledName(r) ==
  LET name == IF NotesAddress(r) THEN NoName ELSE Routing(r)
      routable == ~InFakeip(r.dest) /\ r.dest # Unspecified
  IN IF direct /\ routable THEN NoName ELSE name

Resolve(c) ==
  /\ route[c].pc = "resolve"
  /\ \E bt \in BOOLEAN, unknown \in BOOLEAN :
       LET r == route[c] IN
       route' = [route EXCEPT ![c] =
         IF ShouldBlock(r, bt, unknown) THEN Gone
         ELSE [r EXCEPT !.pc = "dial", !.grouped = @ \/ ByDomainGroup(r),
                        !.to = r.dest, !.name = DialledName(r)]]
  /\ IF NotesAddress(route[c]) THEN Note(route[c].dest) ELSE UNCHANGED hints
  /\ UNCHANGED <<bound, direct>>

\* run_proxy and what follows it (ConnTable).
HandsOver(c) ==
  /\ route[c].pc = "dial"
  /\ route' = [route EXCEPT ![c] = Gone]
  /\ UNCHANGED <<hints, bound, direct>>

\* send_symmetric of the UDP engine notes the address of a QUIC flow to a domain
\* of a group, except on a fake address.
UdpNotes(a) == Note(a) /\ UNCHANGED <<route, bound, direct>>

\* The fake-IP pool answers a query, or reuses an address (FakeIpPool).
PoolBinds(f, n) ==
  /\ bound' = [bound EXCEPT ![f] = n]
  /\ UNCHANGED <<route, hints, direct>>

RouteNext ==
  \/ \E c \in Conn :
       \/ HandleConn(c) \/ HandleCfConn(c) \/ HandleProxy(c)
       \/ ClientLeaves(c) \/ Sniffed(c) \/ Resolve(c) \/ HandsOver(c)
  \/ \E a \in RealAddr : UdpNotes(a)
  \/ \E f \in FakeAddr, n \in Optional : PoolBinds(f, n)

RouteSpec == RouteInit /\ [][RouteNext]_routeVars
-----------------------------------------------------------------------------
\* Types; and what has a label from its address is not sniffed.
RouteTypeOK ==
  /\ route \in [Conn -> Routes]
  /\ hints \subseteq Addr
  /\ bound \in [FakeAddr -> Optional]
  /\ direct \in BOOLEAN
  /\ \A c \in Conn : route[c].grouped => route[c].sniffed = Unsniffed \/ route[c].pc = "dial"

\* A fake address means nothing to anybody but this program, so no connection is
\* dialled at one without a domain in its place: it is blocked when neither the
\* client's first bytes nor the pool, which may have forgotten the address since
\* the DNS answer, give a name (should_block).  Only what comes from cloudflared
\* is let through, because its label comes before the test.
FakeNeverDialled ==
  \A c \in Conn :
    route[c].pc = "dial" /\ route[c].to \in FakeAddr /\ route[c].inbound # "cloudflared"
      => route[c].name # NoName

\* Traffic with a label goes to the address its client chose: no domain replaces
\* it ("no domain override for group traffic"), wherever the label came from, the
\* address, an earlier connection's hint or the domain just sniffed.
GroupKeepsAddress ==
  \A c \in Conn :
    route[c].pc = "dial" /\ route[c].grouped /\ route[c].to \in RealAddr
      => route[c].name = NoName

\* apply_domain_group notes addresses of the internet
\* ("domain_group_drops_override_and_notes_real_ip"), so that a hint never labels
\* a connection that has nothing to do with the one that left it.
NotesRealIp == hints \subseteq RealAddr

\* What is dialled is what was asked for: a fake address is never dialled for a
\* client, and labelled traffic to a real address goes to that address.
RouteSafe == RouteTypeOK /\ FakeNeverDialled /\ GroupKeepsAddress

=============================================================================
