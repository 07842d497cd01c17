------------------------------ MODULE CfMetrics ------------------------------
(***************************************************************************)
(* The bytes of the tunnels: cloudflared shows a counter for each of its   *)
(* edge connections, which starts again when the connection does; every    *)
(* request for the status scrapes them and folds the difference into       *)
(* ByteAccum (sniffbox/cf_metrics.rs).  Sent and received bytes are        *)
(* handled alike; one counter stands for both.                             *)
(***************************************************************************)
EXTENDS Naturals, FiniteSets

CONSTANTS Conns,      \* conn_index
          Askers,     \* requests for the status at a time
          MaxSent, MaxResets, MaxAsks

ASSUME MetAssumption == IsFiniteSet(Conns) /\ MaxSent \in Nat

VARIABLES counter,    \* cloudflared's quic_client_sent_bytes, per connection
          really,     \* bytes that were sent
          ask,        \* each request: its step, the body it got, the folds before it
          prev,       \* AccumInner::prev
          up,         \* AccumInner::up
          folds, asks, resets,
          clean       \* every fold so far was of a whole body, and no other came
                      \* between its scrape and it

metVars == <<counter, really, ask, prev, up, folds, asks, resets, clean>>

Empty == [c \in {} |-> 0]
NoAsk == [at |-> "idle", body |-> Empty, whole |-> TRUE, before |-> 0]

MetInit == /\ counter = [c \in Conns |-> 0] /\ really = 0
           /\ ask = [a \in Askers |-> NoAsk]
           /\ prev = Empty /\ up = 0 /\ folds = 0 /\ asks = 0 /\ resets = 0 /\ clean = TRUE

Sends(c) == /\ really < MaxSent /\ really' = really + 1
            /\ counter' = [counter EXCEPT ![c] = @ + 1]
            /\ UNCHANGED <<ask, prev, up, folds, asks, resets, clean>>

\* An edge connection is made anew, or all are with the process.
Reconnects(S) == /\ resets < MaxResets /\ resets' = resets + 1
                 /\ counter' = [c \in Conns |-> IF c \in S THEN 0 ELSE counter[c]]
                 /\ UNCHANGED <<really, ask, prev, up, folds, asks, clean>>

\* http_get and conn_bytes.  A body that is cut off by the timeout or by MAX_BODY
\* is read as far as it goes, and a connection may be missing from it.
Scrapes(a) ==
  /\ ask[a].at = "idle" /\ asks < MaxAsks /\ asks' = asks + 1
  /\ \E S \in SUBSET Conns :
       ask' = [ask EXCEPT ![a] = [at |-> "fold", body |-> [c \in S |-> counter[c]], whole |-> S = Conns, before |-> folds]]
  /\ UNCHANGED <<counter, really, prev, up, folds, resets, clean>>

\* Nobody listens: scrape returns None and folds nothing.
ScrapeFails(a) ==
  /\ ask[a].at = "idle" /\ asks < MaxAsks /\ asks' = asks + 1
  /\ UNCHANGED <<counter, really, ask, prev, up, folds, resets, clean>>

Was(c) == IF c \in DOMAIN prev THEN prev[c] ELSE 0
DeltaStrict(c, now) == IF now > Was(c) THEN now - Was(c) ELSE now
Delta(c, now) == IF now >= Was(c) THEN now - Was(c) ELSE now

\* Each byte is the pair of its connection and its number there.
SumOf(f) == Cardinality({b \in (DOMAIN f) \X (1 .. MaxSent) : b[2] <= f[b[1]]})

\* ByteAccum::fold: a counter that went back has started anew.
Folds(a) ==
  /\ ask[a].at = "fold"
  /\ LET body == ask[a].body IN
     /\ up' = up + SumOf([c \in DOMAIN body |-> Delta(c, body[c])])
     /\ prev' = body
     /\ clean' = (clean /\ ask[a].whole /\ ask[a].before = folds)
  /\ folds' = folds + 1 /\ ask' = [ask EXCEPT ![a] = NoAsk]
  /\ UNCHANGED <<counter, really, asks, resets>>

MetNext == \/ \E c \in Conns : Sends(c) \/ Reconnects({c})
           \/ Reconnects(Conns)
           \/ \E a \in Askers : Scrapes(a) \/ ScrapeFails(a) \/ Folds(a)

MetSpec == MetInit /\ [][MetNext]_metVars

-----------------------------------------------------------------------------
(* Properties *)

\* The total survives restarts of connections and of cloudflared without ever
\* counting a byte twice, as long as the scrapes are whole and folded in the
\* order they were made; without restarts it is exact as of the last scrape.
\* (A connection missing from one body is counted whole again with the next,
\* and of two requests at once the later fold of the earlier scrape looks like
\* a restart: the code takes neither into account.)
NotOvercounted ==
  clean => /\ up <= really
           /\ resets = 0 => up = SumOf(prev)

=============================================================================
