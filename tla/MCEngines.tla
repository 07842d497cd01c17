----------------------------- MODULE MCEngines -----------------------------
(***************************************************************************)
(* Small instances of components that carry traffic or keep what others    *)
(* rely on: the UDP engine, the routing of TCP connections, the relay with *)
(* its sniffers and the QUIC sniffer, the scores and the byte counters of  *)
(* cloudflared, the console mirror, the pool of fake addresses, the locks  *)
(* of smart groups, and clash with its geo data.  They have no common      *)
(* state.  part says which of them a behaviour is about; the others stay   *)
(* in one initial state.  Only safety is checked.                          *)
(***************************************************************************)
EXTENDS MCUdpEngine, TcpRoute, Relay, QuicSniff, CfScore, CfMetrics, Screen,
        FakeIpPool, SmartFixed, GeoUpdate

\* Clients that speak TLS (the hello in two records), HTTP (read in part by the
\* inbound proxy, or not), BitTorrent, SSH, something undecided, and nothing.
Script(atoms, early) == [atoms |-> atoms, early |-> early]
ClientScripts ==
  {Script(<<"record", "hello", "record", "hello", "data">>, 0),
   Script(<<"get", "field", "host", "end">>, 0), Script(<<"get", "field", "host", "end">>, 1),
   Script(<<"bt", "torrent">>, 0), Script(<<"ssh">>, 0), Script(<<"get", "ssh">>, 1), Script(<<>>, 0)}
TwoReplies == <<"r1", "r2">>

\* A hello of four cells in two and in three pieces, in and out of order; packets
\* without frames, of another connection id, and that do not decrypt.
Frame(o, n) == [off |-> o, len |-> n]
Packet(cid, good, frames) == [cid |-> cid, good |-> good, frames |-> frames]
InitialPackets ==
  {Packet("own", TRUE, fs) : fs \in {<<Frame(0, 1)>>, <<Frame(1, 2), Frame(3, 1)>>, <<Frame(0, 2)>>,
                                     <<Frame(2, 2)>>, <<Frame(3, 1), Frame(1, 2)>>, <<>>}}
    \cup {Packet("server", TRUE, <<Frame(0, 1)>>), Packet("own", FALSE, <<>>)}

\* Neither is clearly better, by rate one and by latency the other.
TwoScores == {[completed |-> 2, rate |-> 4, ttfb |-> 0], [completed |-> 2, rate |-> 5, ttfb |-> 2]}

\* Incarnations and TCP connections are interchangeable.
EnginesSymmetry == OpenSymmetry \cup Permutations(Conn)

CONSTANT lone

\* Of the 16 hashes 0 .. 7 go to shard 0 and 8 .. 15 to shard 1.
TogetherButOne == [n \in Domain |-> IF n = lone THEN 9 ELSE 2]
OnePlace == [h \in 0 .. 15 |-> 4]
Strides == [h \in 0 .. 15 |-> (5 * h) % 16]

VARIABLE part

trafficVars == <<udpVars, routeVars, relayVars, quicVars, scoreVars, metVars, screenVars>>
keptVars == <<poolVars, fixedVars, clashVars, geoVars>>
enginesVars == <<part, trafficVars, keptVars>>

\* A bound of this instance: the tails of two readers do not overlap, nor does one with
\* a sweep.
OneBreaks ==
  LET tails == {o \in Opens : reader'[o] \in {"tailSlot", "tailFlow", "tailRec"}}
  IN  Cardinality(tails) + (IF sweep'.pc = "idle" THEN 0 ELSE 1) <= 1

\* Another: of two TCP connections one at most is past its sniffing.
OneRouted == Cardinality({c \in Conn : route'[c].pc \in {"resolve", "dial"}}) <= 1

\* Of the update: one file at most comes from a source that lags, and no clash outlives its
\* wait beside that or an end of sniffbox.
OneMishap ==
  LET lagging == lagged' \cup {f \in GeoFiles : job'[f].lag}
  IN  Cardinality(lagging) <= 1 /\ (outlived' = {} \/ (lagging = {} /\ ends' = 0))

EnginesInit ==
  /\ part \in {"udp", "tcp", "relay", "quic", "score", "metrics", "screen", "fakeip", "locks",
               "clash", "geo"}
  /\ UdpInit /\ RouteInit /\ RelayInit /\ QuicInit /\ ScoreInit /\ MetInit /\ ScreenInit
  /\ PoolInit /\ FixedInit /\ GeoInit
  /\ direct => part = "tcp"
  /\ part \notin {"clash", "geo"} => pidSlot = NoPid /\ updateLog = disk
  /\ part = "geo" => pidSlot # NoPid /\ updateLog # disk

TrafficNext ==
  /\ \/ part = "udp" /\ UdpNext /\ OneBreaks
        /\ UNCHANGED <<routeVars, relayVars, quicVars, scoreVars, metVars, screenVars>>
     \/ part = "tcp" /\ RouteNext /\ OneRouted
        /\ UNCHANGED <<udpVars, relayVars, quicVars, scoreVars, metVars, screenVars>>
     \/ part = "relay" /\ RelayNext
        /\ UNCHANGED <<udpVars, routeVars, quicVars, scoreVars, metVars, screenVars>>
     \/ part = "quic" /\ QuicNext
        /\ UNCHANGED <<udpVars, routeVars, relayVars, scoreVars, metVars, screenVars>>
     \/ part = "score" /\ ScoreNext
        /\ UNCHANGED <<udpVars, routeVars, relayVars, quicVars, metVars, screenVars>>
     \/ part = "metrics" /\ MetNext
        /\ UNCHANGED <<udpVars, routeVars, relayVars, quicVars, scoreVars, screenVars>>
     \/ part = "screen" /\ ScreenNext
        /\ UNCHANGED <<udpVars, routeVars, relayVars, quicVars, scoreVars, metVars>>
  /\ UNCHANGED keptVars

KeptNext ==
  /\ \/ part = "fakeip" /\ PoolNext /\ UNCHANGED <<fixedVars, clashVars, geoVars>>
     \/ part = "locks" /\ FixedNext /\ UNCHANGED <<poolVars, clashVars, geoVars>>
     \/ part = "clash" /\ ClashNext /\ UNCHANGED <<poolVars, fixedVars, geoVars>>
     \/ part = "geo" /\ GeoNext /\ OneMishap /\ UNCHANGED <<poolVars, fixedVars, idle>>
  /\ UNCHANGED trafficVars

EnginesNext == (TrafficNext \/ KeptNext) /\ UNCHANGED part

EnginesSpec == EnginesInit /\ [][EnginesNext]_enginesVars
=============================================================================
