------------------------------ MODULE MCFront ------------------------------
(***************************************************************************)
(* Small instances of components that depend on what they do not control:  *)
(* the supervisor of openvpn, the download of cloudflared and the choice   *)
(* of its edges, the front end of the web interface and its list of        *)
(* proxies, the resolvers of the subscription service and of sniffbox, the *)
(* commands that watch clash, and the UDP engine, which must give back     *)
(* what it took.  They have no common state.  part says which of them a    *)
(* behaviour is about; the others stay in one initial state.               *)
(***************************************************************************)
EXTENDS OvpnCtl, CfDownload, CfEdge, Web, WebProxies, Resolve, Resolver, NodeWatch,
        MCUdpEngine

CONSTANTS b1, b2, k1, k2, s1, s2, m1, m2, n1, n2, n3

\* The groups with failover
OneGroup == <<"auto">>

\* One of each kind of request: with a body or none, in chunks or not, to clash, to
\* the program itself, or to nobody.
Request(route, kind, body) ==
  [route |-> route, kind |-> kind, body |-> body, chunked |-> FALSE, ka |-> TRUE, ok |-> TRUE]
RequestKinds ==
  {Request("clash", "group", 0), Request("clash", "put", 1), Request("clash", "ws", 0),
   [Request("clash", "put", 1) EXCEPT !.chunked = TRUE, !.ok = FALSE],
   [Request("clash", "conn_get", 0) EXCEPT !.ka = FALSE],
   Request("blocked", "any", 2), Request("patch", "mode", 1),
   Request("native", "reload", 0), Request("native", "sse", 0), Request("native", "probe", 2),
   [Request("native", "clash_up", 0) EXCEPT !.ok = FALSE]}

VARIABLE part

frontVars == <<part, vars, dlVars, edgeVars, webVars, wpVars, rsVars, rvVars, nwVars, udpVars>>

\* At first no edge answers and IPv6 has a route; both change.
FrontInit ==
  /\ part \in {"ovpn", "download", "edge", "web", "proxies", "resolve", "names", "nodes", "udp"}
  /\ Init /\ (part # "ovpn" => file = 0 /\ procs = {})
  /\ DlInit /\ (part # "download" => onDisk = Absent /\ ~mixRuns)
  /\ EdgeInit /\ (\A k \in DOMAIN net : net[k] = Silent) /\ v6Route
  /\ WebInit /\ (part # "web" => clashUp)
  /\ NwInit /\ (answering = {n1, n2} \/ (part = "nodes" /\ answering = {n2, n3}))
  /\ \A g \in DOMAIN chosen : chosen[g] = n1
  /\ RvInit /\ upstream = s1
  /\ WpInit /\ RsInit /\ UdpInit

\* Bounds of this instance: a fault of openvpn is looked at with one write of its file, a
\* change of clash with one request; the browser b2 asks after b1, and for what needs no
\* body; addresses that nobody can use reach one resolver; the caller k1 asks for one name,
\* both do while a change of the server is recent, and k1 alone asks over TCP or for what
\* does not exist; a health check overlaps the loading of clash while nothing else happens, and
\* a third node answers only while a load is not testing nodes, which it tests first;
\* and the tail of a reader does not overlap a sweep or the tail of another.
FaultAlone == faults' = 0 \/ file' <= 1
UpsetAlone == /\ clashUpsets' = 0 \/ asked' <= 1
              /\ asked' = 1 => conn'[b2].req = NoRequest
              /\ conn'[b2].req # NoRequest => conn'[b2].req.body = 0
UsableForOne == \A i \in DOMAIN ans'[2] : ans'[2][i] # "fake"
FewAsk ==
  /\ call'[k1].name = m1 /\ \A c \in Callers : call'[c].res # "other"
  /\ ~(call'[k2].pc = "tcp" \/ (call'[k2].pc \in Leading /\ call'[k2].res = "notfound"))
  /\ sinceSet' # Long => /\ call'[k2].name = m1
                         /\ \A c \in Callers : /\ call'[c].pc \notin {"tcp", "drop"}
                                               /\ call'[c].res # "notfound"
  /\ upstream = s2 => upstream' = s2
OneWatches ==
  /\ check'.pc # "idle" /\ load'.pc # "idle" =>
       /\ shifts' = 0 /\ check'.pc \notin {"reach", "process"}
       /\ load'.pc \in {"reload", "mark", "kill"}
  /\ n3 \in answering' => load'.pc \notin {"list", "ping", "mode", "select", "proxy"}
  /\ load'.todo \in {{}, Outlets} \/ n3 \notin load'.todo
OneBreaks ==
  LET tails == {o \in Opens : reader'[o] \in {"tailSlot", "tailFlow", "tailRec"}}
  IN  Cardinality(tails) + (IF sweep'.pc = "idle" THEN 0 ELSE 1) <= 1

FrontNext ==
  /\ \/ part = "ovpn" /\ Next /\ FaultAlone
        /\ UNCHANGED <<dlVars, edgeVars, webVars, wpVars, rsVars, rvVars, nwVars, udpVars>>
     \/ part = "download" /\ DlNext
        /\ UNCHANGED <<vars, edgeVars, webVars, wpVars, rsVars, rvVars, nwVars, udpVars>>
     \/ part = "edge" /\ EdgeNext
        /\ UNCHANGED <<vars, dlVars, webVars, wpVars, rsVars, rvVars, nwVars, udpVars>>
     \/ part = "web" /\ WebNext /\ UpsetAlone
        /\ UNCHANGED <<vars, dlVars, edgeVars, wpVars, rsVars, rvVars, nwVars, udpVars>>
     \/ part = "proxies" /\ WpNext
        /\ UNCHANGED <<vars, dlVars, edgeVars, webVars, rsVars, rvVars, nwVars, udpVars>>
     \/ part = "resolve" /\ RsNext /\ UsableForOne
        /\ UNCHANGED <<vars, dlVars, edgeVars, webVars, wpVars, rvVars, nwVars, udpVars>>
     \/ part = "names" /\ RvNext /\ FewAsk
        /\ UNCHANGED <<vars, dlVars, edgeVars, webVars, wpVars, rsVars, nwVars, udpVars>>
     \/ part = "nodes" /\ NwNext /\ OneWatches
        /\ UNCHANGED <<vars, dlVars, edgeVars, webVars, wpVars, rsVars, rvVars, udpVars>>
     \/ part = "udp" /\ UdpNext /\ OneBreaks
        /\ UNCHANGED <<vars, dlVars, edgeVars, webVars, wpVars, rsVars, rvVars, nwVars>>
  /\ UNCHANGED part

\* OvpnFair, DlFair, EdgeFair, WebFair, WpFair, RsFair, RvFair, NwFair and UdpFair, each for the
\* behaviours of its part.  A behaviour is about one part only, so strong fairness of
\* a disjunction of steps of different parts is strong fairness of each.
FrontFairness ==
  /\ WF_vars(part = "ovpn" /\ Monitor) /\ WF_vars(part = "ovpn" /\ Kill)
  /\ \A p \in Pids : /\ WF_vars(part = "ovpn" /\ ProcExits(p))
                     /\ WF_vars(part = "ovpn" /\ ProcLoads(p)) /\ WF_vars(part = "ovpn" /\ TunUp(p))
  /\ WF_dlVars(part = "download" /\ EnsureBinary) /\ WF_dlVars(part = "download" /\ AttemptStep)
  /\ WF_dlVars(part = "download" /\ BackoffEnds) /\ WF_dlVars(part = "download" /\ DownForLong)
  /\ WF_edgeVars(part = "edge" /\ V6Forgiven)
  /\ \A p \in Pickers : /\ WF_edgeVars(part = "edge" /\ PickStep(p))
                        /\ WF_edgeVars(part = "edge" /\ \E m \in EdgeModes : PickStarts(p, m))
  /\ WF_webVars(part = "web" /\ LogsStep)
  /\ \A c \in Browsers : /\ WF_webVars(part = "web" /\ WebStep(c))
                         /\ WF_webVars(part = "web" /\ ClashSilent(c))
  /\ \A t \in Threads : WF_wpVars(part = "proxies" /\ (Refreshes(t) \/ Answers(t)))
  /\ \A t \in Askers : WF_wpVars(part = "proxies" /\ (FixRefused(t) \/ Fixes(t)))
  /\ WF_wpVars(part = "proxies" /\ WarmerStarts) /\ WF_wpVars(part = "proxies" /\ WarmerDone)
  /\ WF_wpVars(part = "proxies" /\ Warms) /\ WF_wpVars(part = "proxies" /\ TimePasses)
  /\ WF_rsVars(part = "resolve" /\ ClockTicks)
  /\ \A w \in Resolvers : WF_rsVars(part = "resolve" /\ RsStep(w))
  /\ \A c \in Callers : WF_rvVars(part = "names" /\ CallStep(c))
  /\ WF_nwVars(part = "nodes" /\ CheckStarts /\ check'.pc # "idle")
  /\ WF_nwVars(part = "nodes" /\ CheckStep) /\ WF_nwVars(part = "nodes" /\ LoadStep)
  /\ \A w \in Workers : WF_udpVars(part = "udp" /\ WorkerStep(w))
  /\ \A o \in Opens : /\ WF_udpVars(part = "udp" /\ OpenerStep(o))
                      /\ WF_udpVars(part = "udp" /\ ReaderTail(o))
  /\ WF_udpVars(part = "udp" /\ SweepStep)
  /\ SF_frontVars(/\ \/ part = "download" /\ OpensStream
                     \/ part = "udp" /\ SweepBegins(SlotsIn(SymmetricKeys))
                  /\ FrontNext)
  /\ SF_frontVars(/\ \/ part = "download" /\ PieceArrives
                     \/ part = "udp" /\ SweepListsFullcone(SlotsIn(FullconeKeys))
                  /\ FrontNext)
  /\ SF_frontVars(/\ \/ part = "download" /\ BodyEnds
                     \/ part = "udp" /\ SweepListsFlows(FlowsIn)
                     \/ part = "names" /\ Ticks
                  /\ FrontNext)

FrontSpec == FrontInit /\ [][FrontNext]_frontVars /\ FrontFairness
-----------------------------------------------------------------------------
\* Recovers, of the behaviours that are about openvpn, and GroupsFollow, of those that are
\* about the nodes of clash: what leads out comes back when there is a way.
OutletsRecover ==
  \/ []<>(part = "nodes" /\ ~Up)
  \/ <>[](/\ part = "ovpn" => Recovered
          /\ part = "nodes" => Followed)

\* AnswersCome, EdgesFound, CallsReturn, LoadsEnd, LogsResume and CatchesUp: no request,
\* nobody in search of an edge or of the addresses of a name, no load of clash, no viewer
\* of the log and no list of proxies waits for ever.  What a part is to do again and again
\* is required of its own behaviours.
Waiting == {[browser |-> b1, family |-> "v4", caller |-> k1], [browser |-> b2, family |-> "v6", caller |-> k2]}
NobodyWaits ==
  \A w \in Waiting : []<>(/\ part = "web" => NothingAsked(w.browser) /\ LogsRun
                          /\ part = "edge" => \A p \in Pickers : FindsOver(p, w.family)
                          /\ part = "names" => Doing(w.caller, "out")
                          /\ part = "nodes" => load.pc = "idle"
                          /\ part = "proxies" => UpToDate)

\* BinaryArrives, of the behaviours that are about the download of cloudflared, BatchEnds,
\* of those about the resolvers of a batch, and Drained, of those about the UDP engine:
\* what is begun is completed, and what was taken for it is given back.
WorkCompletes ==
  <>[](/\ part = "download" => onDisk # Absent
       /\ part = "resolve" => BatchDone
       /\ part = "udp" => AllReturned)
=============================================================================
