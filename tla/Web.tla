--------------------------------- MODULE Web ---------------------------------
(***************************************************************************)
(* The management server of sb-web: one task per browser connection        *)
(* (handle_conn: heads, routes, bodies and the reverse proxy to clash's    *)
(* unix socket), the streams of server-sent events, the child of           *)
(* /sniffbox/reload and the consumer of clash's log.  A body is a number   *)
(* of pieces; pieces are what a connection can lose count of.              *)
(***************************************************************************)
EXTENDS Naturals, FiniteSets

CONSTANTS Browsers,     \* connections
          Admitted,     \* the connections AdminAcl::allows lets in
          Loopback,     \* the connections that come from 127.0.0.1
          Requests,     \* [route, kind, body, chunked, ka, ok]: what is asked
          ClashOn,      \* clash_enabled
          NativeMax,    \* MAX_NATIVE_BODY, in pieces
          DrainMax,     \* MAX_DRAIN_BODY, in pieces
          Window,       \* IDLE_WINDOW, in ticks of an IdleGate
          MaxRequests, MaxClashUpsets, NoRequest

ASSUME WebConstants ==
  Requests \subseteq [route : STRING, kind : STRING, body : Nat, chunked : BOOLEAN, ka : BOOLEAN, ok : BOOLEAN]

VARIABLES conn,        \* the task of each connection: where it is, its request,
                      \* and how many pieces of the body are still unread
          inflight,   \* group_delay_inflight
          reload,     \* reload_inflight, and the children that run
          logs,       \* the consumer of clash's log and its two IdleGates
          clashUp,    \* clash listens on its socket
          closing,    \* the shutdown channel
          asked, clashUpsets

webVars == <<conn, inflight, reload, logs, clashUp, closing, asked, clashUpsets>>

WebInit == /\ conn = [c \in Browsers |-> [at |-> "new", req |-> NoRequest, left |-> 0,
                                         skipped |-> FALSE]]
           /\ inflight = {}
           /\ reload = [flag |-> FALSE, children |-> 0]
           /\ logs = [at |-> "check", outer |-> 0, inner |-> 0]
           /\ clashUp \in BOOLEAN /\ closing = FALSE
           /\ asked = 0 /\ clashUpsets = 0

taskVars == <<inflight, reload, logs, clashUp, closing, asked, clashUpsets>>
ConnAt(c, at) == conn[c].at = at
Req(c) == conn[c].req
\* A task between two requests, or gone, remembers none.
Goes(c, at, skips) ==
    conn' = [conn EXCEPT ![c] = [at |-> at,
                req |-> IF at \in {"head", "closed"} THEN NoRequest ELSE @.req,
                left |-> IF at = "closed" THEN 0 ELSE @.left,
                skipped |-> at = "head" /\ skips]]
StepsTo(c, at) == Goes(c, at, FALSE)

\* group_delay_target: the request asks clash to test a whole group.
Gated(c) == conn[c].at \notin {"new", "head", "closed"} /\ Req(c).route = "clash" /\ Req(c).kind = "group"
\* Gate::drop, when the task leaves the request however it leaves it.
Proxying(c) == conn[c].at \in {"upload", "await", "answer", "tunnel"}
GateDropped(c) == IF Gated(c) /\ Proxying(c) THEN inflight \ {"g"} ELSE inflight
\* The end of a request: the next head, or the end of the connection.
After(c) == IF Req(c).ka THEN "head" ELSE "closed"

-----------------------------------------------------------------------------
(* A connection *)

\* run and the ACL check of handle_conn
WebAccepts(c) == /\ ConnAt(c, "new") /\ ~closing
                 /\ StepsTo(c, IF c \in Admitted THEN "head" ELSE "closed")
                 /\ UNCHANGED taskVars

\* read_head and parse_request
TakesRequest(c, r) ==
    /\ ConnAt(c, "head") /\ conn[c].left = 0 /\ asked < MaxRequests
    /\ conn' = [conn EXCEPT ![c] = [at |-> "route", req |-> r, left |-> r.body,
                                  skipped |-> FALSE]]
    /\ asked' = asked + 1
    /\ UNCHANGED <<inflight, reload, logs, clashUp, closing, clashUpsets>>

\* What was left of a body is read as a head, which it is not: 400.
ReadsGarbage(c) == /\ ConnAt(c, "head") /\ conn[c].left > 0
                   /\ StepsTo(c, "closed") /\ UNCHANGED taskVars

\* IDLE_TIMEOUT, or the browser closes between two requests
GoesIdle(c) == ConnAt(c, "head") /\ StepsTo(c, "closed") /\ UNCHANGED taskVars

\* An error of the browser's socket wherever a task reads or writes it
HangsUp(c) == /\ conn[c].at \in {"drain", "body", "upload", "answer", "tunnel", "stream"}
              /\ StepsTo(c, "closed")
              /\ inflight' = GateDropped(c)
              /\ UNCHANGED <<reload, logs, clashUp, closing, asked, clashUpsets>>

\* /sniffbox/clash/up is for this machine only and needs no token; every
\* other route but the pages themselves needs one.
Barred(c) == LET local == Req(c).kind = "clash_up" IN
             \/ local /\ c \notin Loopback
             \/ ~local /\ Req(c).route \notin {"root", "static"} /\ ~Req(c).ok

\* /connections is answered from the table, but for a DELETE clash must see.
SelfServed(c) == \/ Req(c).kind = "conn_get"
                 \/ Req(c).kind = "conn_delete" /\ ~ClashOn

GateBusy(c) == Gated(c) /\ inflight # {}

\* The arms of handle_conn that answer at once and then consume_body.
AnswersHere(c) ==
    /\ ConnAt(c, "route")
    /\ \/ Barred(c)
       \/ Req(c).route \in {"root", "static", "data", "blocked", "geo", "config_get"}
       \/ Req(c).route = "clash" /\ (GateBusy(c) \/ SelfServed(c) \/ ~ClashOn)
    /\ StepsTo(c, "drain") /\ UNCHANGED taskVars

DrainsCounted(c) ==
    /\ ConnAt(c, "drain")
    /\ \/ (conn[c].left = 0 \/ Req(c).chunked) /\ StepsTo(c, After(c))
       \/ conn[c].left > 0 /\ Req(c).body > DrainMax /\ StepsTo(c, "closed")
       \/ conn[c].left > 0 /\ Req(c).body <= DrainMax /\ conn' = [conn EXCEPT ![c].left = @ - 1]
    /\ UNCHANGED taskVars
\* consume_body: what the answer left unread is read before the next head, if
\* it is not too large.
Drains(c) ==
    /\ ConnAt(c, "drain")
    /\ \/ conn[c].left = 0 /\ StepsTo(c, After(c))
       \/ conn[c].left > 0 /\ Req(c).body > DrainMax /\ StepsTo(c, "closed")
       \/ conn[c].left > 0 /\ Req(c).body <= DrainMax /\ conn' = [conn EXCEPT ![c].left = @ - 1]
    /\ UNCHANGED taskVars

-----------------------------------------------------------------------------
(* The reverse proxy *)

ToClash(c) == /\ ConnAt(c, "route") /\ ~Barred(c) /\ ClashOn /\ Req(c).route = "clash"
              /\ ~SelfServed(c) /\ ~GateBusy(c)

\* The gate and the connection to clash.  A 502 is sent with the body unread
\* and what has come of it handed back as the next request's first bytes.
Connects(c) ==
    /\ ToClash(c) /\ clashUp
    /\ StepsTo(c, "upload")
    /\ inflight' = IF Gated(c) THEN inflight \cup {"g"} ELSE inflight
    /\ UNCHANGED <<reload, logs, clashUp, closing, asked, clashUpsets>>

Unavailable(c) ==
    /\ ToClash(c) /\ ~clashUp
    /\ Goes(c, After(c), conn[c].left > 0)
    /\ UNCHANGED taskVars

\* relay_body of the request
Uploads(c) ==
    /\ ConnAt(c, "upload") /\ clashUp
    /\ IF conn[c].left > 0 THEN conn' = [conn EXCEPT ![c].left = @ - 1] ELSE StepsTo(c, "await")
    /\ UNCHANGED taskVars

\* The head of the answer, and what it makes of the connection: 101 ends in a
\* tunnel, an answer framed by its end closes.
ClashAnswers(c) ==
    /\ ConnAt(c, "await") /\ clashUp
    /\ \/ Req(c).kind = "ws" /\ StepsTo(c, "tunnel")
       \/ StepsTo(c, "answer")
       \/ conn' = [conn EXCEPT ![c].at = "answer", ![c].req.ka = FALSE]
    /\ UNCHANGED taskVars

\* UPSTREAM_HEAD_TIMEOUT and 504
ClashSilent(c) == /\ ConnAt(c, "await")
                  /\ StepsTo(c, After(c)) /\ inflight' = GateDropped(c)
                  /\ UNCHANGED <<reload, logs, clashUp, closing, asked, clashUpsets>>

\* relay_body of the answer, copy_bidirectional
AnswerRelayed(c) == /\ conn[c].at \in {"answer", "tunnel"}
                    /\ StepsTo(c, IF ConnAt(c, "tunnel") THEN "closed" ELSE After(c))
                    /\ inflight' = GateDropped(c)
                    /\ UNCHANGED <<reload, logs, clashUp, closing, asked, clashUpsets>>

\* clash is gone while its socket is in use.
ClashHangsUp(c) == /\ Proxying(c) /\ ~clashUp
                   /\ StepsTo(c, "closed") /\ inflight' = GateDropped(c)
                   /\ UNCHANGED <<reload, logs, clashUp, closing, asked, clashUpsets>>

-----------------------------------------------------------------------------
(* PATCH /configs and native::handle, which read the body first *)

\* read_body_bounded: a body that is chunked or too large is refused, 413.
ReadsBody(c) ==
    /\ ConnAt(c, "route") /\ ~Barred(c) /\ Req(c).route \in {"patch", "native"}
    /\ StepsTo(c, IF Req(c).chunked \/ Req(c).body > NativeMax THEN "closed" ELSE "body")
    /\ UNCHANGED taskVars

BodyArrives(c) ==
    /\ ConnAt(c, "body")
    /\ IF conn[c].left > 0 THEN conn' = [conn EXCEPT ![c].left = @ - 1] ELSE StepsTo(c, "serve")
    /\ UNCHANGED taskVars

\* Only {"mode": ...} is let through to clash; 403, 502 and 503 go on with the
\* next head.
Patches(c) ==
    /\ ConnAt(c, "serve") /\ Req(c).route = "patch"
    /\ \/ StepsTo(c, After(c))
       \/ ClashOn /\ clashUp /\ StepsTo(c, "await")
    /\ UNCHANGED taskVars

\* reload: one child at a time.
ReloadStarts(c) ==
    /\ ConnAt(c, "serve") /\ Req(c).kind = "reload"
    /\ StepsTo(c, After(c))
    /\ \/ UNCHANGED reload          \* 409, or the command cannot be spawned
       \/ ~reload.flag /\ reload' = [flag |-> TRUE, children |-> reload.children + 1]
    /\ UNCHANGED <<inflight, logs, clashUp, closing, asked, clashUpsets>>

\* The task that waits for the child
ReloadEnds == /\ reload.children > 0
              /\ reload' = [flag |-> FALSE, children |-> reload.children - 1]
              /\ UNCHANGED <<conn, inflight, logs, clashUp, closing, asked, clashUpsets>>

\* The other native operations answer from the state of their component.
NativeAnswers(c) ==
    /\ ConnAt(c, "serve") /\ Req(c).route = "native" /\ Req(c).kind \notin {"reload", "sse"}
    /\ StepsTo(c, After(c)) /\ UNCHANGED taskVars

\* logs_sse, screen_sse, traffic_sse and cloudflared_logs_sse: the connection
\* is a stream until it fails or the process stops.
StreamOpens(c) == /\ ConnAt(c, "serve") /\ Req(c).kind = "sse"
                  /\ StepsTo(c, "stream") /\ UNCHANGED taskVars
StreamEnds(c) == /\ ConnAt(c, "stream") /\ closing
                 /\ StepsTo(c, "closed") /\ UNCHANGED taskVars

-----------------------------------------------------------------------------
(* The consumer of clash's log *)

Subscribers == {c \in Browsers : ConnAt(c, "stream")}

GateTickSticky(since) == IF Subscribers = {} \/ since > 0
                         THEN IF since > Window THEN since ELSE since + 1 ELSE 0

\* IdleGate::tick: the ticks since the first without a subscriber, and whether
\* they fill the window.
GateTick(since) == IF Subscribers = {} THEN IF since > Window THEN since ELSE since + 1
                                       ELSE 0

GateIdle(since) == GateTick(since) > Window

LogTo(at) == logs' = [logs EXCEPT !.at = at]

\* run: the top of the loop
LogsCheck ==
    /\ logs.at = "check"
    /\ logs' = IF closing THEN [logs EXCEPT !.at = "gone"]
               ELSE [logs EXCEPT !.outer = GateTick(logs.outer),
                                 !.at = IF GateIdle(logs.outer) THEN "sleep" ELSE "connect"]

LogsSleep == logs.at = "sleep" /\ LogTo(IF closing THEN "gone" ELSE "check")

\* consume_once: the connection, the head (no timeout) and the lines
LogsConnect == /\ logs.at = "connect"
               /\ IF clashUp THEN logs' = [logs EXCEPT !.at = "head", !.inner = 0]
                             ELSE LogTo("sleep")
LogsHead == logs.at = "head" /\ LogTo(IF clashUp THEN "lines" ELSE "sleep")
LogsLines ==
    /\ logs.at = "lines"
    /\ \/ (closing \/ ~clashUp) /\ LogTo("sleep")
       \/ ~closing /\ clashUp
          /\ logs' = [logs EXCEPT !.inner = GateTick(logs.inner),
                                  !.at = IF GateIdle(logs.inner) THEN "sleep" ELSE @]

LogsStep == /\ ClashOn
            /\ LogsCheck \/ LogsSleep \/ LogsConnect \/ LogsHead \/ LogsLines
            /\ UNCHANGED <<conn, inflight, reload, clashUp, closing, asked, clashUpsets>>

-----------------------------------------------------------------------------
ClashChanges == /\ clashUpsets < MaxClashUpsets
                /\ clashUpsets' = clashUpsets + 1 /\ clashUp' = ~clashUp
                /\ UNCHANGED <<conn, inflight, reload, logs, closing, asked>>
Closes == /\ ~closing /\ closing' = TRUE
          /\ UNCHANGED <<conn, inflight, reload, logs, clashUp, asked, clashUpsets>>

\* What the task of a connection does without being asked for more.
WebStep(c) == \/ AnswersHere(c) \/ Drains(c) \/ Connects(c) \/ Unavailable(c)
              \/ Uploads(c) \/ ClashHangsUp(c) \/ ReadsBody(c) \/ BodyArrives(c)
              \/ Patches(c) \/ ReloadStarts(c) \/ NativeAnswers(c) \/ StreamOpens(c)
              \/ AnswerRelayed(c) \/ StreamEnds(c)

WebNext == \/ \E c \in Browsers :
                \/ WebStep(c) \/ WebAccepts(c) \/ ReadsGarbage(c) \/ GoesIdle(c)
                \/ HangsUp(c) \/ ClashAnswers(c) \/ ClashSilent(c)
                \/ \E r \in Requests : TakesRequest(c, r)
           \/ ReloadEnds \/ LogsStep \/ ClashChanges \/ Closes

\* The server's steps, a browser that sends the body it announced, a clash that
\* finishes the answer it began (the code has no timeout for either) and the
\* timer of UPSTREAM_HEAD_TIMEOUT.
WebFair == /\ WF_webVars(LogsStep)
           /\ \A c \in Browsers : WF_webVars(WebStep(c)) /\ WF_webVars(ClashSilent(c))

WebSpec == WebInit /\ [][WebNext]_webVars /\ WebFair

-----------------------------------------------------------------------------
(* Properties *)

\* handle_conn, consume_body, read_body_bounded and proxy account for the whole
\* body of a request before the next head is read: a connection that waits for
\* a head is at the first byte of one.  The one exit that is not: a 502, which
\* leaves the body where it is (proxy_inner with no clash to connect to).
InStep == \A c \in Browsers : ConnAt(c, "head") /\ ~conn[c].skipped => conn[c].left = 0

\* Two browsers never have clash test the same group at once, the gate is shut
\* exactly while one does, and one reload runs at a time: whatever way the
\* requests end.
OneAtATime ==
    /\ LET testing == {c \in Browsers : Proxying(c) /\ Gated(c)} IN
       /\ Cardinality(testing) <= 1
       /\ inflight = {} <=> testing = {}
    /\ reload.children = IF reload.flag THEN 1 ELSE 0

\* A request that was taken is answered, becomes a stream or ends with its
\* connection, though clash may accept it and say nothing.
NothingAsked(c) == conn[c].at \in {"new", "head", "stream", "closed"}
AnswersCome == \A c \in Browsers : []<>NothingAsked(c)

\* While somebody watches the log and clash serves it, the consumer comes back
\* to clash's stream, however long it was idle before.
LogsRun == ClashOn => logs.at = "lines" \/ Subscribers = {} \/ ~clashUp \/ closing
LogsResume == []<>LogsRun

\* The front end and the browser agree on where a request begins, and requests that
\* must not run beside each other do not.
FrontSafe == InStep /\ OneAtATime

=============================================================================
