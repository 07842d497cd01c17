----------------------------- MODULE HttpForward -----------------------------
(***************************************************************************)
(* A plain HTTP request sent through the proxy port: request_framing and   *)
(* rebuild_origin_request on its head, then relay, where one future copies *)
(* the body upwards and another the response downwards.  What is read of   *)
(* a stream is a token: a piece of a body, a chunk line, a piece of the    *)
(* client's next request.                                                  *)
(***************************************************************************)
EXTENDS Naturals, Sequences, FiniteSets

CONSTANTS MaxHeaders, MaxTokens

VARIABLES proxied, \* the headers that rebuild_origin_request sends
          framing, \* http_forward::Request
          up,      \* the upload future
          down,    \* the download future
          toOrigin, toClient, fromOrigin,   \* tokens written, and those the origin sent
          relayed  \* the result of relay

hfVars == <<proxied, framing, up, down, toOrigin, toClient, fromOrigin, relayed>>

(***************************************************************************)
(* A header is its name and what its value says: a length, a coding, the   *)
(* header names a Connection header lists, a protocol.                     *)
(***************************************************************************)
Headers == {[n |-> "cl", v |-> "1"], [n |-> "cl", v |-> "2"], [n |-> "te", v |-> "chunked"], [n |-> "te", v |-> "gzip"],
            [n |-> "conn", v |-> "cl"], [n |-> "conn", v |-> "te"], [n |-> "conn", v |-> "upgrade"],
            [n |-> "upgrade", v |-> "ws"]}

Rejected == [body |-> "none", upgrade |-> FALSE]
HeadAt(h, n) == {i \in DOMAIN h : h[i].n = n}
Lists(h, name) == \E i \in HeadAt(h, "conn") : h[i].v = name

\* request_framing: anything two readers could read differently is refused.
Framing(h) ==
  LET cl == HeadAt(h, "cl")
      te == HeadAt(h, "te")
  IN IF \/ Cardinality(cl) > 1 \/ Cardinality(te) > 1
        \/ \E i \in te : h[i].v # "chunked"
        \/ Lists(h, "cl") \/ Lists(h, "te")
        \/ cl # {} /\ te # {}
        \/ HeadAt(h, "upgrade") # {} /\ ~Lists(h, "upgrade")
     THEN Rejected
     ELSE [body |-> IF te # {} THEN "chunked" ELSE IF cl = {} THEN "0" ELSE h[CHOOSE i \in cl : TRUE].v,
           upgrade |-> HeadAt(h, "upgrade") # {}]

\* rebuild_origin_request: hop-by-hop headers and those Connection lists go,
\* an upgrade is announced again.  The order of headers says nothing of the body.
Rebuilt(h) ==
  {h[i] : i \in {j \in DOMAIN h : h[j].n \notin {"conn", "upgrade"} /\ ~Lists(h, h[j].n)}}
    \cup IF HeadAt(h, "upgrade") # {}
         THEN {[n |-> "conn", v |-> "upgrade"], [n |-> "upgrade", v |-> "ws"]}
         ELSE {[n |-> "conn", v |-> "close"]}

HfInit == /\ proxied = {} /\ framing = Rejected
          /\ up = "idle" /\ down = "idle" /\ relayed = "none"
          /\ toOrigin = <<>> /\ toClient = <<>> /\ fromOrigin = <<>>

\* parse_http_proxy_request
ReadsRequest(h) ==
  /\ relayed = "none"
  /\ framing' = Framing(h)
  /\ IF framing' = Rejected
     THEN relayed' = "refused" /\ UNCHANGED <<proxied, up, down>>
     ELSE /\ relayed' = "running"
          /\ proxied' = Rebuilt(h)
          /\ up' = IF framing'.body = "chunked" THEN "size" ELSE framing'.body
          /\ down' = IF framing'.upgrade THEN "head" ELSE "copy"
  /\ UNCHANGED <<toOrigin, toClient, fromOrigin>>

-----------------------------------------------------------------------------
(* The upload *)

PumpRuns == relayed = "running"
Sends(t) == Len(toOrigin) < MaxTokens /\ toOrigin' = Append(toOrigin, t)

\* exact: so many bytes and no more.
SendsBody ==
  /\ PumpRuns /\ up \in {"1", "2"}
  /\ up' = IF up = "2" THEN "1" ELSE "0"
  /\ Sends("body")
  /\ UNCHANGED <<proxied, framing, down, toClient, fromOrigin, relayed>>

\* chunked: a size line, the chunk, its end; after the last one trailers, of
\* which the ones that could change the framing are left out.
SendsChunk(t) ==
  /\ PumpRuns
  /\ \/ up = "size" /\ t = "size" /\ up' = "data" /\ Sends(t)
     \/ up = "size" /\ t = "last" /\ up' = "trailers" /\ Sends(t)
     \/ up = "data" /\ t = "chunk" /\ up' = "size" /\ Sends(t)
     \/ up = "trailers" /\ t = "trailer" /\ up' = "trailers" /\ Sends(t)
     \/ up = "trailers" /\ t = "hop" /\ UNCHANGED <<up, toOrigin>>
     \/ up = "trailers" /\ t = "end" /\ up' = "0" /\ Sends(t)
  /\ UNCHANGED <<proxied, framing, down, toClient, fromOrigin, relayed>>

\* A client that stops early or frames its body wrongly fails the relay.
UploadFails ==
  /\ PumpRuns /\ up \in {"1", "2", "size", "data", "trailers"}
  /\ up' = "failed" /\ relayed' = "failed"
  /\ UNCHANGED <<proxied, framing, down, toOrigin, toClient, fromOrigin>>

\* The body is sent: the upload waits for the answer to an upgrade, and
\* otherwise shuts its side down, whatever the client sends next.
BodySent ==
  /\ PumpRuns /\ up = "0"
  /\ framing.upgrade => down # "head"
  /\ up' = IF framing.upgrade /\ down \in {"tunnel", "tshut"} THEN "tunnel" ELSE "shut"
  /\ UNCHANGED <<proxied, framing, down, toOrigin, toClient, fromOrigin, relayed>>

Tunnels ==
  /\ PumpRuns /\ up = "tunnel"
  /\ Sends("next")
  /\ UNCHANGED <<proxied, framing, up, down, toClient, fromOrigin, relayed>>

ClientCloses ==
  /\ PumpRuns /\ up = "tunnel" /\ up' = "shut"
  /\ UNCHANGED <<proxied, framing, down, toOrigin, toClient, fromOrigin, relayed>>

-----------------------------------------------------------------------------
(* The download *)

OriginSends(t) == /\ PumpRuns /\ down \in {"head", "copy", "tunnel"}
              /\ Len(fromOrigin) < MaxTokens
              /\ fromOrigin' = Append(fromOrigin, t)
              /\ UNCHANGED <<proxied, framing, up, down, toOrigin, toClient, relayed>>

Got == Len(toClient) < Len(fromOrigin)
Token == fromOrigin[Len(toClient) + 1]

\* With an upgrade asked for, heads are read until a final one.
ReadsAnswer ==
  /\ PumpRuns /\ down = "head" /\ Got
  /\ IF Token = "101other" THEN down' = "failed" /\ relayed' = "failed" /\ UNCHANGED toClient
     ELSE /\ toClient' = Append(toClient, Token)
          /\ down' = CASE Token = "100" -> "head" [] Token = "101" -> "tunnel" [] Token \notin {"100", "101"} -> "copy"
          /\ UNCHANGED relayed
  /\ UNCHANGED <<proxied, framing, up, toOrigin, fromOrigin>>

Copies ==
  /\ PumpRuns /\ down \in {"copy", "tunnel"} /\ Got
  /\ toClient' = Append(toClient, Token)
  /\ UNCHANGED <<proxied, framing, up, down, toOrigin, fromOrigin, relayed>>

\* The origin's end of stream comes after all it sent.
OriginCloses ==
  /\ PumpRuns /\ down \in {"head", "copy", "tunnel"} /\ ~Got
  /\ IF down = "head" THEN down' = "failed" /\ relayed' = "failed"
     ELSE down' = (IF down = "tunnel" THEN "tshut" ELSE "shut") /\ UNCHANGED relayed
  /\ UNCHANGED <<proxied, framing, up, toOrigin, toClient, fromOrigin>>

\* select: the end of the response is the end of the relay, unless the
\* connection was upgraded; the end of the upload never is.
JoinsBoth ==
  /\ PumpRuns /\ down \in {"shut", "tshut"} /\ up = "shut"
  /\ relayed' = "ok"
  /\ UNCHANGED <<proxied, framing, up, down, toOrigin, toClient, fromOrigin>>

Joins ==
  /\ PumpRuns /\ down \in {"shut", "tshut"}
  /\ down = "tshut" => up = "shut"
  /\ relayed' = "ok"
  /\ UNCHANGED <<proxied, framing, up, down, toOrigin, toClient, fromOrigin>>

-----------------------------------------------------------------------------
HfStep == BodySent \/ ReadsAnswer \/ Copies \/ Joins

HfNext == \/ \E k \in 0..MaxHeaders : \E h \in [1..k -> Headers] : ReadsRequest(h)
          \/ SendsBody \/ \E t \in {"size", "last", "chunk", "trailer", "hop", "end"} : SendsChunk(t)
          \/ UploadFails \/ Tunnels \/ ClientCloses
          \/ \E t \in {"100", "101", "101other", "200", "data"} : OriginSends(t)
          \/ OriginCloses
          \/ HfStep

HfFair == WF_hfVars(HfStep)
HfSpec == HfInit /\ [][HfNext]_hfVars /\ HfFair

-----------------------------------------------------------------------------
(* Properties *)

\* How any reader of the rebuilt head may delimit the body: by each of the
\* headers left in it.
OriginMayRead(head) ==
  {IF x.n = "te" THEN "chunked" ELSE x.v : x \in {y \in head : y.n \in {"cl", "te"}}}

\* The origin gets the body of this request and nothing of the next one: the
\* head it reads can be framed in one way only, which is the proxy's, and
\* what the client sends after the body passes only when the origin took
\* over the connection (101).
OwnRequestOnly ==
  /\ relayed \notin {"none", "refused"} => OriginMayRead(proxied) \subseteq {framing.body}
  /\ \A i \in DOMAIN toOrigin : toOrigin[i] = "next" => \E j \in DOMAIN toClient : toClient[j] = "101"

\* A relay that ends well delivered all the origin sent until it closed, and
\* an upgraded connection ends only when both sides have.
DeliveredWhole == relayed = "ok" => /\ toClient = fromOrigin
                                    /\ down = "tshut" => up = "shut"

\* The end of an ordinary response ends the relay, whether or not the client
\* has sent all of its body or keeps its side open.
Ended == down = "shut" => relayed \in {"ok", "failed"}
ResponseEnds == []<>Ended

\* A request reaches its own server only, and both bodies whole.
ForwardSafe == OwnRequestOnly /\ DeliveredWhole

=============================================================================
