----------------------------- MODULE CfDownload -----------------------------
(***************************************************************************)
(* How the cloudflared binary gets onto the disk and is kept up to date    *)
(* (cf_ctl.rs: ensure_binary, throttle, download_binary_inner, run_update; *)
(* sb-ppgw/download.rs: stream_to_file).  These steps are made by the tick *)
(* that holds start_lock, so one variable holds the attempt in progress.   *)
(*                                                                         *)
(* A file is the sequence of its pieces, and a piece is told by the        *)
(* release it is of and its place in it.  Time is whether the backoff since the last attempt   *)
(* is over, and for how long no egress passed the probe.                   *)
(***************************************************************************)
EXTENDS Naturals, Sequences

CONSTANTS
  FullLen,     \* pieces of a release
  MaxDlReleases, MaxUpsets   \* bounds: releases; everything that upsets a download

ASSUME DlConstants ==
  /\ FullLen \in Nat \ {0}
  /\ MaxDlReleases \in Nat \ {0} /\ MaxUpsets \in Nat

Arms == {"proxied", "direct"}

VARIABLES
  onDisk,      \* CF_BIN
  partial,     \* CF_BIN.download
  oldPartial,  \* it is older than PARTIAL_MAX_AGE
  dlGate,        \* Global: download_fails (whether any), last_download, link_ok, egress_down_since
  try,         \* the attempt: its step, the arms left, the length of the partial at its
               \* start, and of the answer the release and how far it was read
  latest,      \* the release that the servers have
  inUse,       \* a replica runs CF_BIN
  mixRuns,     \* whether a file that is not one release answers --version
  cutCopy,     \* history: sniffbox ended in the middle of the copy over CF_BIN
  upsets

dlVars == <<onDisk, partial, oldPartial, dlGate, try, latest, inUse, mixRuns, cutCopy, upsets>>
-----------------------------------------------------------------------------
Absent == <<>>
Piece(r, i) == [of |-> r, at |-> i]
Whole(r) == [i \in 1 .. FullLen |-> Piece(r, i)]
IsWhole(f) == \E r \in 1 .. MaxDlReleases : f = Whole(r)
\* Every piece is there and in its place, of whatever release.
InPlace(f) == Len(f) = FullLen /\ \A i \in 1 .. FullLen : f[i].at = i

\* It answers what cloudflared is asked.
Runs(f) == IsWhole(f) \/ (mixRuns /\ f # Absent)

NoTry == [pc |-> "rest", arms |-> {}, had |-> 0, of |-> 0, at |-> 0]
NewGate == [fails |-> FALSE, waited |-> TRUE, linkOk |-> FALSE, down |-> "no"]

\* The image may hold a binary.
DlInit ==
  /\ onDisk \in {Absent, Whole(1)}
  /\ partial = Absent /\ oldPartial = FALSE
  /\ dlGate = NewGate
  /\ try = NoTry
  /\ latest = 1
  /\ inUse = FALSE /\ mixRuns \in BOOLEAN /\ cutCopy = FALSE
  /\ upsets = 0

TryAt(pc) == try.pc = pc
Upset == upsets < MaxUpsets /\ upsets' = upsets + 1
-----------------------------------------------------------------------------
(* ensure_binary *)

\* There is a file: the leftover of a download is swept away.
BinaryIsThere ==
  /\ TryAt("rest") /\ onDisk # Absent /\ partial # Absent
  /\ partial' = Absent /\ oldPartial' = FALSE
  /\ UNCHANGED <<onDisk, dlGate, try, latest, inUse, mixRuns, cutCopy, upsets>>

\* throttle(FALSE): no arm passes its probe.  After EGRESS_DOWN_FORCE_AFTER, and the
\* backoff, the attempt is made all the same.
ForcedNow == dlGate.down = "long" /\ dlGate.waited

\* throttle(TRUE): an arm passes, and either none did before or the backoff is over.
LetThrough == ~dlGate.linkOk \/ dlGate.waited

\* The attempt begins, with the arms that the probes leave.
Begins(arms) == try' = [NoTry EXCEPT !.pc = "arm", !.arms = arms, !.had = Len(partial)]

EnsureBinaryDown ==
  /\ TryAt("rest") /\ onDisk = Absent
  /\ IF ForcedNow
     THEN /\ dlGate' = [dlGate EXCEPT !.linkOk = FALSE, !.waited = FALSE]
          /\ \E more \in SUBSET {"direct"} : Begins({"proxied"} \cup more)
     ELSE /\ dlGate' = [dlGate EXCEPT !.linkOk = FALSE, !.down = IF @ = "no" THEN "short" ELSE @]
          /\ UNCHANGED try
  /\ UNCHANGED <<onDisk, partial, oldPartial, latest, inUse, mixRuns, cutCopy, upsets>>

EnsureBinaryUp(arms) ==
  /\ TryAt("rest") /\ onDisk = Absent /\ arms # {}
  /\ dlGate' = [fails  |-> dlGate.fails /\ dlGate.linkOk,
              waited |-> IF LetThrough THEN FALSE ELSE dlGate.waited,
              linkOk |-> TRUE, down |-> "no"]
  /\ IF LetThrough THEN Begins(arms) ELSE UNCHANGED try
  /\ UNCHANGED <<onDisk, partial, oldPartial, latest, inUse, mixRuns, cutCopy, upsets>>

\* The first arm is the proxied one.
FirstArm == IF "proxied" \in try.arms THEN "proxied" ELSE "direct"
ArmFails == try' = [try EXCEPT !.pc = "arm", !.arms = @ \ {FirstArm}]
\* An answer with the latest release, from a place on
Streams(from) == try' = [try EXCEPT !.pc = "stream", !.arms = @ \ {FirstArm}, !.of = latest, !.at = from]

\* discard_stale_partial
Kept == IF oldPartial THEN Absent ELSE partial

\* 416 leaves the partial where it is.
OpensStreamKeeping ==
  /\ TryAt("arm") /\ try.arms # {}
  /\ partial' = Kept
  /\ IF Len(Kept) < FullLen THEN Streams(Len(Kept)) ELSE ArmFails
  /\ oldPartial' = FALSE
  /\ UNCHANGED <<onDisk, dlGate, latest, inUse, mixRuns, cutCopy, upsets>>

\* The request asks for what is missing.  The answer is 206 (append), 200 (start
\* over), or 416 when nothing is missing: then the partial is removed.
OpensStream ==
  /\ TryAt("arm") /\ try.arms # {}
  /\ \/ /\ Len(Kept) < FullLen /\ Streams(Len(Kept))
        /\ partial' = Kept /\ UNCHANGED upsets
     \/ /\ Kept # Absent /\ Streams(0)
        /\ partial' = Absent /\ Upset
     \/ /\ Len(Kept) = FullLen /\ ArmFails
        /\ partial' = Absent /\ UNCHANGED upsets
  /\ oldPartial' = FALSE
  /\ UNCHANGED <<onDisk, dlGate, latest, inUse, mixRuns, cutCopy>>

\* No answer, or an error.
RequestFails ==
  /\ TryAt("arm") /\ try.arms # {}
  /\ ArmFails
  /\ partial' = Kept /\ oldPartial' = FALSE
  /\ UNCHANGED <<onDisk, dlGate, latest, inUse, mixRuns, cutCopy, upsets>>

\* The next piece of the answer arrives and is appended, whatever release the partial is of.
PieceArrives ==
  /\ TryAt("stream") /\ try.at < FullLen
  /\ partial' = Append(partial, Piece(try.of, try.at + 1))
  /\ try' = [try EXCEPT !.at = @ + 1]
  /\ UNCHANGED <<onDisk, oldPartial, dlGate, latest, inUse, mixRuns, cutCopy, upsets>>

\* The budget of the arm is spent, or the stream stalls or breaks.
StreamBreaks ==
  /\ TryAt("stream")
  /\ try' = [try EXCEPT !.pc = "arm", !.of = 0, !.at = 0]
  /\ UNCHANGED <<onDisk, partial, oldPartial, dlGate, latest, inUse, mixRuns, cutCopy, upsets>>

BodyEnds ==
  /\ TryAt("stream") /\ try.at = FullLen
  /\ try' = [try EXCEPT !.pc = "verify", !.of = 0, !.at = 0]
  /\ UNCHANGED <<onDisk, partial, oldPartial, dlGate, latest, inUse, mixRuns, cutCopy, upsets>>

\* Mutant: the file is not run.
VerifiedUnrun == Len(partial) = FullLen

\* verify_elf looks at the beginning of the file, verify_runs runs it.
Verified == Runs(partial)

\* renamed into place ...
Installs ==
  /\ TryAt("verify") /\ Verified
  /\ onDisk' = partial /\ partial' = Absent
  /\ dlGate' = [dlGate EXCEPT !.fails = FALSE]
  /\ try' = NoTry
  /\ UNCHANGED <<oldPartial, latest, inUse, mixRuns, cutCopy, upsets>>

\* ... or removed, and the next arm begins anew.
Rejects ==
  /\ TryAt("verify") /\ ~Verified
  /\ partial' = Absent
  /\ try' = [try EXCEPT !.pc = "arm"]
  /\ UNCHANGED <<onDisk, oldPartial, dlGate, latest, inUse, mixRuns, cutCopy, upsets>>

\* No arm is left: progress forgives the failures, so that the next wait is short.
GivesUp ==
  /\ TryAt("arm") /\ try.arms = {}
  /\ dlGate' = [dlGate EXCEPT !.fails = Len(partial) <= try.had]
  /\ try' = NoTry
  /\ UNCHANGED <<onDisk, partial, oldPartial, latest, inUse, mixRuns, cutCopy, upsets>>
-----------------------------------------------------------------------------
(* run_update: cloudflared updates a copy of itself, which is copied back. *)

UpdateStages ==
  /\ TryAt("rest") /\ Runs(onDisk) /\ onDisk # Whole(latest)
  /\ try' = [NoTry EXCEPT !.pc = "staged", !.had = latest]
  /\ UNCHANGED <<onDisk, partial, oldPartial, dlGate, latest, inUse, mixRuns, cutCopy, upsets>>

\* std::fs::copy opens CF_BIN for writing, which the kernel refuses while it runs;
\* otherwise it empties the file and fills it.
CopyOpens ==
  /\ TryAt("staged")
  /\ IF inUse THEN try' = NoTry /\ UNCHANGED onDisk
     ELSE try' = [try EXCEPT !.pc = "copy"] /\ onDisk' = <<Piece(try.had, 1)>>
  /\ UNCHANGED <<partial, oldPartial, dlGate, latest, inUse, mixRuns, cutCopy, upsets>>

CopyEnds ==
  /\ TryAt("copy")
  /\ onDisk' = Whole(try.had)
  /\ try' = NoTry
  /\ UNCHANGED <<partial, oldPartial, dlGate, latest, inUse, mixRuns, cutCopy, upsets>>

AttemptStep ==
  \/ OpensStream \/ RequestFails \/ StreamBreaks \/ BodyEnds \/ Installs \/ Rejects \/ GivesUp
  \/ CopyOpens \/ CopyEnds
EnsureBinary == EnsureBinaryDown \/ \E arms \in SUBSET Arms : EnsureBinaryUp(arms)
-----------------------------------------------------------------------------
(* Around it. *)

\* start_replica and kill_one, in the same tick or another one.
ReplicaUses ==
  /\ TryAt("rest") /\ Runs(onDisk)
  /\ inUse' = ~inUse
  /\ UNCHANGED <<onDisk, partial, oldPartial, dlGate, try, latest, mixRuns, cutCopy, upsets>>

BackoffEnds ==
  /\ dlGate' = [dlGate EXCEPT !.waited = TRUE]
  /\ UNCHANGED <<onDisk, partial, oldPartial, try, latest, inUse, mixRuns, cutCopy, upsets>>

DownForLong ==
  /\ dlGate.down = "short" /\ dlGate' = [dlGate EXCEPT !.down = "long"]
  /\ UNCHANGED <<onDisk, partial, oldPartial, try, latest, inUse, mixRuns, cutCopy, upsets>>

PartialAges ==
  /\ TryAt("rest") /\ partial # Absent /\ ~oldPartial /\ Upset
  /\ oldPartial' = TRUE
  /\ UNCHANGED <<onDisk, partial, dlGate, try, latest, inUse, mixRuns, cutCopy>>

NewRelease ==
  /\ latest < MaxDlReleases
  /\ latest' = latest + 1
  /\ UNCHANGED <<onDisk, partial, oldPartial, dlGate, try, inUse, mixRuns, cutCopy, upsets>>

\* sniffbox ends anywhere and starts again; the files stay.
SupervisorRestarts ==
  /\ Upset
  /\ cutCopy' = (cutCopy \/ TryAt("copy"))
  /\ dlGate' = NewGate /\ try' = NoTry /\ inUse' = FALSE
  /\ UNCHANGED <<onDisk, partial, oldPartial, latest, mixRuns>>

DlNext ==
  \/ BinaryIsThere \/ EnsureBinary \/ PieceArrives \/ AttemptStep \/ UpdateStages
  \/ ReplicaUses \/ BackoffEnds \/ DownForLong \/ PartialAges \/ NewRelease \/ SupervisorRestarts

\* A tick comes again, backoffs end, and an attempt goes on; again and again the
\* server answers, a piece arrives and a stream ends.
DlFair ==
  /\ WF_dlVars(EnsureBinary) /\ WF_dlVars(AttemptStep)
  /\ WF_dlVars(BackoffEnds) /\ WF_dlVars(DownForLong)
  /\ SF_dlVars(OpensStream) /\ SF_dlVars(PieceArrives) /\ SF_dlVars(BodyEnds)

DlSpec == DlInit /\ [][DlNext]_dlVars /\ DlFair
-----------------------------------------------------------------------------
\* What a tick can start has every piece once and in its place, whether downloads were
\* resumed, begun anew or refused, over new releases and restarts.  It is one release,
\* or the check by running it let a file pass that was resumed over a new one.  An update
\* that is copied back is not seen half-way, unless sniffbox ended then.
BinaryWhole == onDisk # Absent => \/ InPlace(onDisk) /\ (IsWhole(onDisk) \/ mixRuns)
                                  \/ TryAt("copy") \/ cutCopy

\* No leftover on disk, no probe that always fails and no backoff keeps the binary
\* from being downloaded, as long as pieces arrive in some of the attempts.
BinaryArrives == <>[](onDisk # Absent)
=============================================================================
