-------------------------------- MODULE Relay --------------------------------
(***************************************************************************)
(* The bytes of a TCP connection: peek_and_sniff reads the client's first  *)
(* ones into a pooled buffer to recognise the protocol, run_proxy hands    *)
(* them to the server and relays the rest, by copying (counting_copy) or   *)
(* by splice after a threshold (adaptive_copy).  A stream is a sequence of *)
(* atoms, the pieces the kernel may deliver apart.                         *)
(***************************************************************************)
EXTENDS Naturals, SequencesExt

CONSTANTS Links,      \* connections at a time
          Scripts,    \* [atoms, early]: what a client sends, and how much of it
                      \* the inbound proxy has read already (est.peeked)
          Reply,      \* what the server sends
          HelloParts, \* records a ClientHello is spread over
          PeekLimit,  \* DEFAULT_PEEK_LIMIT
          PoolSlots,  \* POOL_DEFAULT_SLOTS
          Threshold,  \* splice_threshold
          MaxLinks, NoScript

VARIABLES link,       \* each connection: see NoLink
          peekPool,   \* PeekBufPool::inner: the contents of idle buffers
          accepted

relayVars == <<link, peekPool, accepted>>

Unknown == [proto |-> "unknown", name |-> FALSE, more |-> FALSE]
\* at: the step; sent/fin: what the client has sent; rsent/rfin: the server;
\* read: atoms taken from the client's socket; peek: PeekBuf; verdict: Sniffed;
\* cut: the sniffing ended before it was done; way: how the bytes are relayed;
\* up and down: the two directions [at, hold, got, count].
Direction == [at |-> "idle", hold |-> <<>>, got |-> <<>>, count |-> 0]
NoLink == [at |-> "free", script |-> NoScript, sent |-> 0, fin |-> FALSE, rsent |-> 0, rfin |-> FALSE,
           read |-> 0, rread |-> 0, peek |-> <<>>, pooled |-> FALSE, verdict |-> Unknown, cut |-> FALSE,
           way |-> "none", up |-> Direction, down |-> Direction]

RelayInit == link = [c \in Links |-> NoLink] /\ peekPool = <<>> /\ accepted = 0

SetLink(c, f) == link' = [link EXCEPT ![c] = f]
L(c) == link[c]
Atoms(c) == L(c).script.atoms

-----------------------------------------------------------------------------
(* sniff_all *)

\* collect_handshake and parse_handshake: whole records, as many as the hello needs
IsTls(b) == /\ Len(b) >= 2 * HelloParts
            /\ \A i \in 1..HelloParts : b[2 * i - 1] = "record" /\ b[2 * i] = "hello"
\* parse_head: what is malformed is not HTTP; a head may be incomplete
HeadEnd(b) == IF Contains(b, "end") THEN SelectInSeq(b, LAMBDA a : a = "end") ELSE Len(b)
IsHttp(b) == Len(b) > 0 /\ b[1] = "get" /\ \A i \in 2..HeadEnd(b) : b[i] \in {"host", "field", "end"}
HasHost(b) == Contains(SubSeq(b, 1, HeadEnd(b)), "host")
IsBittorrent(b) == IsPrefix(<<"bt", "torrent">>, b)

SniffAll(b) ==
  CASE IsTls(b) -> [proto |-> "tls", name |-> TRUE, more |-> FALSE]
    [] ~IsTls(b) /\ IsHttp(b) -> [proto |-> "http", name |-> HasHost(b), more |-> ~HasHost(b) /\ ~Contains(b, "end")]
    [] ~IsTls(b) /\ ~IsHttp(b) /\ IsBittorrent(b) -> [Unknown EXCEPT !.proto = "bittorrent"]
    [] OTHER -> Unknown

\* could_start_known_proto
KnownStart(b) == b[1] \in {"record", "bt", "get"}

\* The top of the loop, after a read: the verdict, and whether it is final.
Final(b) == LET v == SniffAll(b) IN (v.proto # "unknown" /\ ~v.more) \/ ~KnownStart(b)
Looked(f) == [f EXCEPT !.verdict = SniffAll(f.peek), !.at = IF Final(f.peek) THEN "dial" ELSE "peek"]

\* The clients that are considered: what is taken for final of the beginning of a
\* stream is right of the whole (a head that goes wrong after its Host line is not).
ASSUME RelayConstants ==
  /\ Reply \in Seq(STRING)
  /\ \A s \in Scripts :
       /\ s.atoms \in Seq(STRING) /\ s.early \in 0 .. Len(s.atoms)
       /\ \A n \in 1 .. Len(s.atoms) :
            LET v == SniffAll(SubSeq(s.atoms, 1, n))  whole == SniffAll(s.atoms) IN
            Final(SubSeq(s.atoms, 1, n)) => v.proto = whole.proto /\ v.name = whole.name

-----------------------------------------------------------------------------
(* The pool *)

\* PeekBufPool::give_back, when a PeekBuf or a ReplayReader is dropped
GiveBackAsIs(c) == peekPool' = IF L(c).pooled /\ Len(peekPool) < PoolSlots THEN Append(peekPool, L(c).peek) ELSE peekPool
GiveBack(c) == peekPool' = IF L(c).pooled /\ Len(peekPool) < PoolSlots THEN Append(peekPool, <<>>) ELSE peekPool

\* An idle buffer, or a new one
Pooled == IF peekPool = <<>> THEN <<>> ELSE Last(peekPool)

-----------------------------------------------------------------------------
(* Peeking *)

\* serve_established: the bytes the inbound read already are seeded; with a
\* port, a group or the negative cache against it nothing is sniffed.
Accepts(c, s, sniff) ==
  /\ L(c).at = "free" /\ accepted < MaxLinks /\ accepted' = accepted + 1
  /\ LET early == SubSeq(s.atoms, 1, s.early)
         new == [NoLink EXCEPT !.script = s, !.sent = s.early, !.read = s.early]
     IN IF sniff
        THEN /\ peekPool' = IF peekPool = <<>> THEN <<>> ELSE Front(peekPool)
             /\ LET f == [new EXCEPT !.peek = Pooled \o early, !.pooled = TRUE, !.at = "peek"]
                IN SetLink(c, IF f.peek = <<>> THEN f ELSE Looked(f))
        ELSE SetLink(c, [new EXCEPT !.peek = early, !.at = "dial", !.cut = TRUE]) /\ UNCHANGED peekPool

\* read_some: what has come, but no more than there is room for
PeekReads(c) ==
  /\ L(c).at = "peek" /\ L(c).read < L(c).sent /\ Len(L(c).peek) < PeekLimit
  /\ \E n \in 1..(L(c).sent - L(c).read) :
       /\ Len(L(c).peek) + n <= PeekLimit
       /\ SetLink(c, Looked([L(c) EXCEPT !.peek = @ \o SubSeq(Atoms(c), L(c).read + 1, L(c).read + n), !.read = @ + n]))
  /\ UNCHANGED <<peekPool, accepted>>

\* The buffer is full, the time is up, or the client has closed.
PeekStops(c) ==
  /\ L(c).at = "peek"
  /\ \/ SetLink(c, [L(c) EXCEPT !.at = "dial", !.cut = TRUE]) /\ UNCHANGED peekPool
     \/ L(c).fin /\ L(c).peek = <<>> /\ L(c).read = L(c).sent /\ SetLink(c, NoLink) /\ GiveBack(c)
  /\ UNCHANGED accepted

-----------------------------------------------------------------------------
(* run_proxy *)

Ends(c) == SetLink(c, NoLink) /\ GiveBack(c) /\ UNCHANGED accepted

\* connect_tcp failed, or the connection was cancelled or blocked
LinkDrops(c) == L(c).at \in {"dial", "prefix", "relay"} /\ Ends(c)

Dialled(c) ==
  /\ L(c).at = "dial"
  /\ SetLink(c, [L(c) EXCEPT !.at = "prefix"]) /\ UNCHANGED <<peekPool, accepted>>

\* splice_copy: the peeked bytes are written first, counted, and the buffer is
\* given back; otherwise they are the first the ReplayReader reads.
WritesPrefix(c) ==
  /\ L(c).at = "prefix"
  /\ SetLink(c, [L(c) EXCEPT !.at = "relay", !.way = "splice", !.peek = <<>>, !.pooled = FALSE,
                         !.up.got = L(c).peek, !.up.count = Len(L(c).peek)])
  /\ GiveBack(c) /\ UNCHANGED accepted

IntoReplay(c) == /\ L(c).at = "prefix"
                 /\ SetLink(c, [L(c) EXCEPT !.at = "relay", !.way = "copy"])
                 /\ UNCHANGED <<peekPool, accepted>>

-----------------------------------------------------------------------------
(* The two directions *)

Pump(c, f) == SetLink(c, f) /\ UNCHANGED <<peekPool, accepted>>
Relaying(c) == L(c).at = "relay"

\* ReplayReader::poll_read: the rest of the buffer before the socket
ReadsUp(c) ==
  /\ Relaying(c) /\ L(c).up.at = "idle"
  /\ IF L(c).way = "copy" /\ L(c).peek # <<>>
     THEN Pump(c, [L(c) EXCEPT !.up.at = "write", !.up.hold = L(c).peek, !.peek = <<>>])
     ELSE /\ L(c).read < L(c).sent
          /\ Pump(c, [L(c) EXCEPT !.up.at = "write", !.up.hold = SubSeq(Atoms(c), L(c).read + 1, L(c).sent), !.read = L(c).sent])

ReadsDown(c) ==
  /\ Relaying(c) /\ L(c).down.at = "idle" /\ L(c).rread < L(c).rsent
  /\ Pump(c, [L(c) EXCEPT !.down.at = "write", !.down.hold = SubSeq(Reply, L(c).rread + 1, L(c).rsent), !.rread = L(c).rsent])

\* Past the threshold splice moves what the socket takes and counts it; below
\* it, and when copying, a whole buffer is written and then counted.
Wrote(d, n) == [at |-> IF n = Len(d.hold) THEN "idle" ELSE "write", hold |-> SubSeq(d.hold, n + 1, Len(d.hold)),
                got |-> d.got \o SubSeq(d.hold, 1, n), count |-> d.count + n]
Moves(c, d) == IF L(c).way = "splice" /\ d.count >= Threshold THEN 1..Len(d.hold) ELSE {Len(d.hold)}
WritesOn(c) ==
  /\ Relaying(c)
  /\ \/ L(c).up.at = "write" /\ \E n \in Moves(c, L(c).up) : Pump(c, [L(c) EXCEPT !.up = Wrote(@, n)])
     \/ L(c).down.at = "write" /\ \E n \in Moves(c, L(c).down) : Pump(c, [L(c) EXCEPT !.down = Wrote(@, n)])

\* Either read returns 0: that direction is done and the other side is told.
EofUp(c) == /\ Relaying(c) /\ L(c).up.at = "idle" /\ L(c).fin /\ L(c).read = L(c).sent
            /\ L(c).way = "copy" => L(c).peek = <<>>
            /\ Pump(c, [L(c) EXCEPT !.up.at = "shut"])
EofDown(c) == /\ Relaying(c) /\ L(c).down.at = "idle" /\ L(c).rfin /\ L(c).rread = L(c).rsent
              /\ Pump(c, [L(c) EXCEPT !.down.at = "shut"])

\* try_join: both are done.  (An error of either, with some of what it held
\* written and not counted, drops both: Drops.)
Joined(c) == Relaying(c) /\ L(c).up.at = "shut" /\ L(c).down.at = "shut" /\ Ends(c)

-----------------------------------------------------------------------------
(* The client and the server *)

ClientSends(c) == /\ L(c).at # "free" /\ ~L(c).fin
                  /\ IF L(c).sent < Len(Atoms(c)) THEN Pump(c, [L(c) EXCEPT !.sent = @ + 1])
                                                  ELSE Pump(c, [L(c) EXCEPT !.fin = TRUE])
ServerSends(c) == /\ Relaying(c) /\ ~L(c).rfin
                  /\ IF L(c).rsent < Len(Reply) THEN Pump(c, [L(c) EXCEPT !.rsent = @ + 1])
                                                ELSE Pump(c, [L(c) EXCEPT !.rfin = TRUE])

RelayStep(c) == \/ PeekReads(c) \/ PeekStops(c) \/ Dialled(c) \/ WritesPrefix(c) \/ IntoReplay(c)
                \/ ReadsUp(c) \/ ReadsDown(c) \/ WritesOn(c) \/ EofUp(c) \/ EofDown(c) \/ Joined(c)

RelayNext == \E c \in Links :
  \/ RelayStep(c) \/ LinkDrops(c) \/ ClientSends(c) \/ ServerSends(c)
  \/ \E s \in Scripts, sniff \in BOOLEAN : Accepts(c, s, sniff)

RelaySpec == RelayInit /\ [][RelayNext]_relayVars

-----------------------------------------------------------------------------
(* Properties *)

\* Sniffing, replay, the pool and the change from copying to splicing leave the
\* streams as they were: what the server has got is a beginning of what this
\* client sent, what is in a buffer on its way comes next, and every byte
\* passed on is counted once.  When a direction is shut, it is complete.
StreamIntact == \A c \in Links : L(c).at # "free" =>
  LET pending == IF L(c).at = "relay" /\ L(c).way = "splice" THEN <<>> ELSE L(c).peek
  IN /\ L(c).up.got \o L(c).up.hold \o pending = SubSeq(Atoms(c), 1, L(c).read)
     /\ L(c).down.got \o L(c).down.hold = SubSeq(Reply, 1, L(c).rread)
     /\ L(c).up.count = Len(L(c).up.got) /\ L(c).down.count = Len(L(c).down.got)
     /\ L(c).up.at = "shut" => L(c).up.got = Atoms(c)

\* However the client's bytes are cut into reads, the verdict is the one on
\* the whole stream, unless the buffer, the time or the client ended it early.
VerdictOfTheStream == \A c \in Links : L(c).at \notin {"free", "peek"} /\ ~L(c).cut =>
  LET whole == SniffAll(Atoms(c)) IN
  L(c).verdict.proto = whole.proto /\ L(c).verdict.name = whole.name

\* A link is faithful to its client: the server gets the client's bytes, and the
\* sniffers' verdict is the one on those bytes.
RelayFaithful == StreamIntact /\ VerdictOfTheStream

=============================================================================
