------------------------------ MODULE QuicSniff ------------------------------
(***************************************************************************)
(* The name a QUIC client asks for: IncrementalSniffer puts the CRYPTO     *)
(* frames of a session's Initial packets together, in whatever order the   *)
(* network brings them, until the ClientHello is whole or its budget is    *)
(* spent.  A frame is a range of the hello's cells.                        *)
(***************************************************************************)
EXTENDS Naturals, FiniteSets, Sequences

CONSTANTS Packets,    \* [cid, good, frames]: frames is a sequence of [off, len]
          FirstCid,   \* the connection id the client chose, and keys are made from
          HelloLen,   \* cells of the hello
          MaxPieces,  \* MAX_PIECES
          MaxCrypto,  \* MAX_TOTAL_CRYPTO, in cells
          MaxFeeds    \* MAX_FEED_ATTEMPTS

Frames == {f \in [off : 0 .. HelloLen - 1, len : 1 .. HelloLen] : f.off + f.len <= HelloLen}

ASSUME QuicAssumption ==
  /\ HelloLen \in Nat \ {0} /\ MaxCrypto \in Nat /\ HelloLen <= MaxCrypto /\ MaxPieces \in Nat
  /\ \A p \in Packets : p.frames \in Seq(Frames)

VARIABLES pieces,     \* offset -> length of the data kept for it
          totalBytes, \* total_bytes
          feeds,
          finished,   \* done
          sni,        \* what try_take_sni returned
          came        \* the frames that were decrypted, for the properties

quicVars == <<pieces, totalBytes, feeds, finished, sni, came>>

NoPieces == [o \in {} |-> 0]

QuicInit == /\ pieces = NoPieces /\ totalBytes = 0 /\ feeds = 0
            /\ finished = FALSE /\ sni = FALSE /\ came = {}

\* The cells kept: each the pair of its piece's offset and its number there.
KeptCells(kept) == {b \in (DOMAIN kept) \X (1 .. MaxCrypto) : b[2] <= kept[b[1]]}
KeptLength(kept) == Cardinality(KeptCells(kept))
LengthBefore(kept, o) == Cardinality({b \in KeptCells(kept) : b[1] < o})

Overflown == [kept |-> NoPieces, total |-> 0, full |-> TRUE]
Keep(kept, f) == [o \in (DOMAIN kept) \cup {f.off} |-> IF o = f.off THEN f.len ELSE kept[o]]

\* ingest_piece: a frame already known by its offset and length is ignored, one
\* of another length replaces the old one, and a frame too many ends it all.
IngestKeepingLength(buf, f) ==
  LET known == f.off \in DOMAIN buf.kept
      total == buf.total + f.len
  IN  IF buf.full \/ (known /\ buf.kept[f.off] = f.len) THEN buf
      ELSE IF (~known /\ Cardinality(DOMAIN buf.kept) >= MaxPieces) \/ total > MaxCrypto THEN Overflown
      ELSE [kept |-> Keep(buf.kept, f), total |-> total, full |-> FALSE]

Ingest(buf, f) ==
  LET known == f.off \in DOMAIN buf.kept
      old == IF known THEN buf.kept[f.off] ELSE 0
      total == buf.total - old + f.len
  IN  IF buf.full \/ (known /\ old = f.len) THEN buf
      ELSE IF (~known /\ Cardinality(DOMAIN buf.kept) >= MaxPieces) \/ total > MaxCrypto THEN Overflown
      ELSE [kept |-> Keep(buf.kept, f), total |-> total, full |-> FALSE]

\* The buffer after the frames of a packet, taken one by one.
Ingested(buf, frames) ==
  LET after[i \in 0 .. Len(frames)] == IF i = 0 THEN buf ELSE Ingest(after[i - 1], frames[i])
  IN  after[Len(frames)]

\* try_reassemble_handshake_record: from 0 on without a hole, and long enough.
Whole(kept) ==
  /\ \A o \in DOMAIN kept : o = LengthBefore(kept, o)
  /\ KeptLength(kept) >= HelloLen

\* parse_long_header_initial, derive_initial_keys and decrypt_initial: the keys
\* follow from the id a packet carries, and open it when that is the id the
\* client began with.
Readable(p) == p.good /\ p.cid = FirstCid

\* feed, for one packet of the session.
Keeps(kept, total) == pieces' = kept /\ totalBytes' = total

Spent == /\ feeds' = feeds + 1 /\ finished' = TRUE /\ Keeps(NoPieces, 0)
         /\ UNCHANGED <<sni, came>>

Unread == /\ feeds' = feeds + 1
          /\ UNCHANGED <<pieces, totalBytes, finished, sni, came>>

\* try_take_sni, which forward_symmetric calls after every packet, included.
Absorbed(p) ==
  LET b == Ingested([kept |-> pieces, total |-> totalBytes, full |-> FALSE], p.frames)
      whole == ~b.full /\ Whole(b.kept)
  IN /\ feeds' = feeds + 1
     /\ came' = came \cup {p.frames[i] : i \in DOMAIN p.frames}
     /\ sni' = whole /\ finished' = (whole \/ b.full)
     /\ IF whole THEN Keeps(NoPieces, 0) ELSE Keeps(b.kept, b.total)

Feed(p) == /\ ~finished
           /\ \/ feeds >= MaxFeeds /\ Spent
              \/ feeds < MaxFeeds /\ Readable(p) /\ Absorbed(p)
              \/ feeds < MaxFeeds /\ ~Readable(p) /\ Unread

QuicNext == \E p \in Packets : Feed(p)
QuicSpec == QuicInit /\ [][QuicNext]_quicVars

-----------------------------------------------------------------------------
(* Properties *)

Cells(f) == f.off .. f.off + f.len - 1
Covered == UNION {Cells(f) : f \in came}
\* One way to cut the hello: no two frames overlap.
OneCut == \A f, g \in came : f = g \/ Cells(f) \cap Cells(g) = {}

\* The sniffer's account of its buffer is right after any sequence of packets,
\* the buffer keeps within its bounds, and a name is never taken from a hello
\* with a hole in it.  When the client cuts its hello in one way, the name is
\* known as soon as every part has come, whatever the order, the repetitions
\* and the packets that could not be read; a client that cuts it anew when it
\* repeats itself may never be recognised (a longer piece hides what follows).
NameFromWholeHello ==
  /\ totalBytes = KeptLength(pieces) /\ totalBytes <= MaxCrypto
  /\ Cardinality(DOMAIN pieces) <= MaxPieces
  /\ sni => 0 .. HelloLen - 1 \subseteq Covered
  /\ OneCut /\ 0 .. HelloLen - 1 \subseteq Covered /\ Cardinality(came) <= MaxPieces => sni

=============================================================================
