----------------------------- MODULE FrontProofs -----------------------------
(***************************************************************************)
(* Theorems about components that MCFront checks side by side: the         *)
(* supervisor of openvpn (OvpnCtl), the download of cloudflared            *)
(* (CfDownload), the resolver of ppsub (Resolve), that of sniffbox         *)
(* (Resolver), and the commands that watch clash (NodeWatch).              *)
(***************************************************************************)
EXTENDS OvpnCtl, CfDownload, Resolve, Resolver, NodeWatch,
        FiniteSetTheorems, SequenceTheorems, TLAPS

-----------------------------------------------------------------------------
(***************************************************************************)
(* OvpnCtl.  Tracked for any number of pids, restarts, writes and faults.  *)
(*                                                                         *)
(* Tracked is not inductive: cold_restart forgets the pid in one section   *)
(* of the mutex and sets it in another.  What carries it over the gap is   *)
(* that a section that ends by forgetting the pid has signalled every      *)
(* process (SectionKills), that nobody records one in between (GapEmpty),  *)
(* and that the sections exclude each other (LockHeld).                    *)
(***************************************************************************)
(* The mutex is held exactly in the sections that keep it over a wait. *)
LockHeld ==
  /\ (mon.pc \in {"bootmark", "killing", "mark"}) <=> (lock = "mon")
  /\ (killer = "killing") <=> (lock = "kill")

(* In kill_locked, after the signal, every process was told to end. *)
SectionKills == mon.pc = "killing" \/ killer = "killing" => procs \subseteq dying

(* Between the halves of cold_restart no pid is recorded. *)
GapEmpty == mon.pc \in {"deltun", "spawn"} => pid = None

OvpnInv == TypeOK /\ LockHeld /\ SectionKills /\ GapEmpty /\ Tracked

LEMMA InitInv == Init => OvpnInv
  <1> SUFFICES ASSUME Init PROVE OvpnInv
    OBVIOUS
  <1> USE OvpnConstants DEF Init, Found
  <1>1. TypeOK
    <2>1. gate \in BOOLEAN /\ unseen \in BOOLEAN /\ stopping \in BOOLEAN
      BY ZenonT(20) DEF Healthy
    <2>2. mon \in [pc : MonPcs, left : Nat, reload : BOOLEAN, up : BOOLEAN]
      BY DEF MonPcs
    <2>3. PICK p \in Pids : procs \in {{}, {p}}
      OBVIOUS
    <2>4. /\ procs \subseteq Pids /\ dying \subseteq procs
          /\ tun \in Pids \cup {None} /\ pid \in Pids \cup {None}
      BY <2>3
    <2>5. loaded \in [Pids -> Nat] /\ file \in Nat /\ mtime \in Nat
      OBVIOUS
    <2> QED
      BY <2>1, <2>2, <2>4, <2>5 DEF TypeOK, KillerPcs
  <1>2. LockHeld /\ SectionKills /\ GapEmpty
    BY DEF LockHeld, SectionKills, GapEmpty
  <1>3. Tracked
    BY DEF Tracked
  <1> QED
    BY <1>1, <1>2, <1>3 DEF OvpnInv

(* What a failed attempt leads to is a state of the monitor, outside every  *)
(* section of the mutex and outside the gap.                                *)
LEMMA AttemptType ==
  ASSUME TypeOK
  PROVE  /\ NextAttempt \in [pc : MonPcs, left : Nat, reload : BOOLEAN, up : BOOLEAN]
         /\ Failed \in [pc : MonPcs, left : Nat, reload : BOOLEAN, up : BOOLEAN]
         /\ NextAttempt.pc \in {"restart", "refresh"}
         /\ Failed.pc \in {"wait", "restart", "refresh"}
  <1>1. mon.left > 0 => mon.left - 1 \in Nat
    BY DEF TypeOK
  <1> QED
    BY <1>1 DEF TypeOK, NextAttempt, Failed, At, MonPcs

LEMMA StepInv == OvpnInv /\ [Next]_vars => OvpnInv'
  <1> SUFFICES ASSUME OvpnInv, [Next]_vars PROVE OvpnInv'
    OBVIOUS
  <1> USE OvpnConstants DEF OvpnInv
  <1>1. ASSUME NEW p \in Pids, ProcExits(p) \/ ProcCrashes(p) PROVE OvpnInv'
    BY <1>1 DEF ProcExits, ProcCrashes, Gone, TypeOK, LockHeld, SectionKills, GapEmpty, Tracked
  <1>2. ASSUME NEW p \in Pids, ProcLoads(p) \/ TunUp(p) PROVE OvpnInv'
    BY <1>2 DEF ProcLoads, TunUp, TypeOK, LockHeld, SectionKills, GapEmpty, Tracked
  <1>3. CASE TunLost
    BY <1>3 DEF TunLost, TypeOK, LockHeld, SectionKills, GapEmpty, Tracked
  <1>24. CASE WriteConfig
    <2>1. unseen' \in BOOLEAN
      BY <1>24, Zenon DEF WriteConfig
    <2> QED
      BY <1>24, <2>1 DEF WriteConfig, TypeOK, LockHeld, SectionKills, GapEmpty, Tracked
  <1>4. ASSUME NEW p \in Pids, EnsureUpSpawns(p) PROVE OvpnInv'
    BY <1>4 DEF EnsureUpSpawns, Spawn, At, TypeOK, LockHeld, SectionKills, GapEmpty, Tracked,
                MonPcs
  <1>5. CASE EnsureUpFinds
    BY <1>5 DEF EnsureUpFinds, At, world, TypeOK, LockHeld, SectionKills, GapEmpty, Tracked,
                MonPcs
  <1>6. CASE EnsureUpFails
    BY <1>6 DEF EnsureUpFails, At, world, TypeOK, LockHeld, SectionKills, GapEmpty, Tracked,
                MonPcs
  <1>7. CASE MarkConfig
    BY <1>7 DEF MarkConfig, At, world, TypeOK, LockHeld, SectionKills, GapEmpty, Tracked, MonPcs
  <1>8. CASE BootWaited \/ MonitorEnds \/ Tick
    BY <1>8 DEF BootWaited, WaitedTun, MonitorEnds, Tick, At, world, TypeOK, LockHeld,
                SectionKills, GapEmpty, Tracked, MonPcs
  <1>9. CASE TickLooks
    <2>0. \/ mon' = At("refresh") \/ mon' = At("check")
          \/ mon' = [mon EXCEPT !.pc = "restart", !.left = 0, !.reload = TRUE]
      BY <1>9 DEF TickLooks
    <2>1. mon' \in [pc : MonPcs, left : Nat, reload : BOOLEAN, up : BOOLEAN]
      <3>1. At("refresh") \in [pc : MonPcs, left : Nat, reload : BOOLEAN, up : BOOLEAN]
        BY DEF At, TypeOK, MonPcs
      <3>2. At("check") \in [pc : MonPcs, left : Nat, reload : BOOLEAN, up : BOOLEAN]
        BY DEF At, TypeOK, MonPcs
      <3>3. [mon EXCEPT !.pc = "restart", !.left = 0, !.reload = TRUE]
               \in [pc : MonPcs, left : Nat, reload : BOOLEAN, up : BOOLEAN]
        BY DEF TypeOK, MonPcs
      <3> QED
        BY <2>0, <3>1, <3>2, <3>3
    <2>2. mon'.pc \in {"refresh", "restart", "check"}
      BY <2>0 DEF At, TypeOK
    <2> QED
      BY <1>9, <2>1, <2>2 DEF TickLooks, world, TypeOK, LockHeld, SectionKills, GapEmpty,
                              Tracked
  <1>10. CASE TickChecks
    <2>1. MaxRestarts # 0 => MaxRestarts - 1 \in Nat
      OBVIOUS
    <2> QED
      BY <1>10, <2>1 DEF TickChecks, At, world, TypeOK, LockHeld, SectionKills, GapEmpty,
                         Tracked, MonPcs
  <1>11. CASE RestartRefused
    BY <1>11, AttemptType DEF RestartRefused, world, TypeOK, LockHeld, SectionKills, GapEmpty,
                              Tracked
  <1>12. CASE RestartKills
    BY <1>12 DEF RestartKills, KillLocked, Target, Found, At, TypeOK, LockHeld, SectionKills,
                 GapEmpty, Tracked, MonPcs
  <1>13. CASE RestartKilled
    BY <1>13 DEF RestartKilled, WaitedGone, At, world, TypeOK, LockHeld, SectionKills,
                 GapEmpty, Tracked, MonPcs
  <1>14. CASE RestartDeletesTun
    BY <1>14, AttemptType DEF RestartDeletesTun, At, TypeOK, LockHeld, SectionKills, GapEmpty,
                              Tracked, MonPcs
  <1>15. ASSUME NEW p \in Pids, RestartSpawns(p) PROVE OvpnInv'
    BY <1>15 DEF RestartSpawns, Spawn, At, TypeOK, LockHeld, SectionKills, GapEmpty, Tracked,
                 MonPcs
  <1>16. CASE RestartFails
    BY <1>16, AttemptType DEF RestartFails, world, TypeOK, LockHeld, SectionKills, GapEmpty,
                              Tracked
  <1>17. CASE Waited
    <2>1. /\ mon' \in [pc : MonPcs, left : Nat, reload : BOOLEAN, up : BOOLEAN]
          /\ mon'.pc \in {"refresh", "restart", "confirm"}
      BY <1>17, AttemptType DEF Waited, At, TypeOK, MonPcs
    <2>2. faults' \in Nat
      BY <1>17 DEF Waited, WaitedTun, TypeOK
    <2> QED
      BY <1>17, <2>1, <2>2 DEF Waited, world, TypeOK, LockHeld, SectionKills, GapEmpty, Tracked
  <1>18. CASE Confirms
    <2>1. /\ mon' \in [pc : MonPcs, left : Nat, reload : BOOLEAN, up : BOOLEAN]
          /\ mon'.pc \in {"refresh", "restart"}
      <3>1. [mon EXCEPT !.pc = "refresh", !.left = 0] \in [pc : MonPcs, left : Nat, reload : BOOLEAN, up : BOOLEAN]
        BY DEF TypeOK, MonPcs
      <3>2. mon' = NextAttempt \/ mon' = [mon EXCEPT !.pc = "refresh", !.left = 0]
        BY <1>18, Zenon DEF Confirms
      <3> QED
        BY <3>1, <3>2, AttemptType DEF TypeOK
    <2> QED
      BY <1>18, <2>1 DEF Confirms, world, TypeOK, LockHeld, SectionKills, GapEmpty, Tracked
  <1>19. CASE RefreshLooks \/ RefreshChecks \/ RefreshStores
    <2>1. Healthy \in BOOLEAN
      BY Zenon DEF Healthy
    <2>2. /\ mon' \in [pc : MonPcs, left : Nat, reload : BOOLEAN, up : BOOLEAN]
          /\ mon'.pc \in {"health", "store", "idle"}
      <3> DEFINE Mons == [pc : MonPcs, left : Nat, reload : BOOLEAN, up : BOOLEAN]
      <3>1. mon \in Mons /\ {"health", "store", "idle"} \subseteq MonPcs
        BY DEF TypeOK, MonPcs
      <3>2. PICK q \in {"health", "store", "idle"}, b \in BOOLEAN : mon' = [mon EXCEPT !.pc = q, !.up = b]
        BY <1>19, <2>1 DEF RefreshLooks, RefreshChecks, RefreshStores
      <3> QED
        BY <3>1, <3>2
    <2>3. gate' \in BOOLEAN
      BY <1>19 DEF RefreshLooks, RefreshChecks, RefreshStores, TypeOK
    <2> QED
      BY <1>19, <2>2, <2>3 DEF RefreshLooks, RefreshChecks, RefreshStores, world, TypeOK,
                               LockHeld, SectionKills, GapEmpty, Tracked
  <1>20. CASE Shutdown \/ KillLatches \/ KillCloses
    BY <1>20 DEF Shutdown, KillLatches, KillCloses, world, TypeOK, LockHeld, SectionKills,
                 GapEmpty, Tracked, KillerPcs
  <1>21. CASE KillKills
    BY <1>21 DEF KillKills, KillLocked, Target, Found, TypeOK, LockHeld, SectionKills,
                 GapEmpty, Tracked, KillerPcs
  <1>22. CASE KillEnds
    BY <1>22 DEF KillEnds, WaitedGone, TypeOK, LockHeld, SectionKills, GapEmpty, Tracked,
                 KillerPcs
  <1>23. CASE UNCHANGED vars
    BY <1>23 DEF vars, world, TypeOK, LockHeld, SectionKills, GapEmpty, Tracked
  <1> QED
    BY <1>1, <1>2, <1>3, <1>4, <1>5, <1>6, <1>7, <1>8, <1>9, <1>10, <1>11, <1>12, <1>13,
       <1>14, <1>15, <1>16, <1>17, <1>18, <1>19, <1>20, <1>21, <1>22, <1>23, <1>24
    DEF Next, Monitor, Kill, Openvpn, Surroundings

(* The whole invariant holds in every behaviour of the supervisor. *)
THEOREM OvpnInvariant == Spec => []OvpnInv
  BY InitInv, StepInv, PTL DEF Spec

(* However restarts and a shutdown meet, every openvpn not told to end is   *)
(* the one in Inner.pid.                                                    *)
THEOREM OvpnTracked == Spec => []Tracked
  BY OvpnInvariant, PTL DEF OvpnInv

-----------------------------------------------------------------------------
(***************************************************************************)
(* CfDownload.  What is downloaded is in place because a stream is appended *)
(* at the place it was asked from (PartialOK, StreamOK); that it is one    *)
(* release is the check's business, and that of the copy of an update.     *)
(***************************************************************************)
Pieces == [of : Nat, at : Nat]

\* The partial is the beginning of a file, maybe all of it.
PartialOK(f) == f \in Seq(Pieces) /\ Len(f) <= FullLen /\ \A i \in 1 .. Len(f) : f[i].at = i

\* The answer goes on where the partial ends; what is verified is complete; and an update
\* that is staged is a release, from 1 on.
StreamOK(t, f) ==
  /\ t = [pc |-> t.pc, arms |-> t.arms, had |-> t.had, of |-> t.of, at |-> t.at]
  /\ t.pc = "stream" => t.of \in Nat /\ t.at = Len(f)
  /\ t.pc = "verify" => Len(f) = FullLen
  /\ t.pc \in {"staged", "copy"} => t.had \in 1 .. MaxDlReleases

DlInv ==
  /\ latest \in 1 .. MaxDlReleases
  /\ PartialOK(partial) /\ StreamOK(try, partial)
  /\ BinaryWhole

LEMMA NoTryOK == ASSUME NEW f PROVE StreamOK(NoTry, f) /\ NoTry.pc = "rest"
  BY DEF StreamOK, NoTry

LEMMA AbsentOK == PartialOK(Absent) /\ Len(Absent) = 0
  BY DlConstants DEF PartialOK, Absent

LEMMA WholeOK == \A r \in 1 .. MaxDlReleases : IsWhole(Whole(r)) /\ InPlace(Whole(r))
<1> SUFFICES ASSUME NEW r \in 1 .. MaxDlReleases
             PROVE  IsWhole(Whole(r)) /\ InPlace(Whole(r))
  OBVIOUS
<1>1. Len(Whole(r)) = FullLen /\ \A i \in 1 .. FullLen : Whole(r)[i].at = i
  BY DlConstants DEF Whole, Piece
<1> QED
  BY <1>1 DEF IsWhole, InPlace

\* A tick, or a step of an attempt, that leaves the binary alone
LEMMA BinaryKept ==
  ASSUME DlInv, PartialOK(partial'), StreamOK(try', partial'), ~TryAt("copy"),
         latest' \in 1 .. MaxDlReleases, UNCHANGED <<onDisk, mixRuns, cutCopy>>
  PROVE  DlInv'
<1>1. BinaryWhole'
  BY DEF DlInv, BinaryWhole, TryAt, IsWhole, InPlace
<1> QED
  BY <1>1 DEF DlInv, PartialOK, StreamOK

\* What leaves the attempt alone as well
LEMMA TryKept ==
  ASSUME DlInv, UNCHANGED <<onDisk, partial, try, mixRuns>>, latest' \in 1 .. MaxDlReleases,
         UNCHANGED cutCopy
  PROVE  DlInv'
  BY DEF DlInv, BinaryWhole, TryAt, IsWhole, InPlace, PartialOK, StreamOK

\* A step of the downloads while nothing is copied
LEMMA DownloadsKeep ==
  ASSUME DlInv,
         BinaryIsThere \/ EnsureBinary \/ OpensStream \/ RequestFails \/ PieceArrives
           \/ StreamBreaks \/ BodyEnds \/ Rejects \/ GivesUp
  PROVE  DlInv'
<1> USE DlConstants
<1>1. /\ UNCHANGED <<onDisk, latest, mixRuns, cutCopy>> /\ latest \in 1 .. MaxDlReleases
      /\ PartialOK(partial) /\ StreamOK(try, partial) /\ ~TryAt("copy")
  BY DEF DlInv, TryAt, BinaryIsThere, EnsureBinary, EnsureBinaryDown, EnsureBinaryUp, OpensStream, RequestFails,
         PieceArrives, StreamBreaks, BodyEnds, Rejects, GivesUp
<1>2. PartialOK(Kept)
  BY <1>1, AbsentOK DEF Kept
<1>3. ASSUME try.pc = "arm", ArmFails, PartialOK(partial')
      PROVE  DlInv'
  <2>1. StreamOK(try', partial')
    BY <1>1, <1>3 DEF ArmFails, StreamOK
  <2> QED
    BY <1>1, <1>3, <2>1, BinaryKept
<1>4. ASSUME Streams(Len(partial')), PartialOK(partial')
      PROVE  DlInv'
  <2> DEFINE arms == try.arms \ {FirstArm}
             from == Len(partial')
  <2>1. try' = [try EXCEPT !.pc = "stream", !.arms = arms, !.of = latest, !.at = from]
    BY <1>4 DEF Streams
  <2> HIDE DEF arms, from
  <2>2. try = [pc |-> try.pc, arms |-> try.arms, had |-> try.had, of |-> try.of, at |-> try.at]
    BY <1>1 DEF StreamOK
  <2>3. try' = [pc |-> "stream", arms |-> arms, had |-> try.had, of |-> latest, at |-> from]
    BY <2>1, <2>2
  <2>4. StreamOK(try', partial')
    <3>1. latest \in Nat
      BY <1>1
    <3> QED
      BY <2>3, <3>1 DEF StreamOK, from
  <2> QED
    BY <1>1, <1>4, <2>4, BinaryKept
<1>5. CASE BinaryIsThere
  <2>1. StreamOK(try', partial') /\ PartialOK(partial')
    BY <1>1, <1>5, AbsentOK DEF BinaryIsThere, TryAt, StreamOK
  <2> QED
    BY <1>1, <2>1, BinaryKept
<1>6. CASE EnsureBinary
  <2>1. UNCHANGED partial /\ (UNCHANGED try \/ \E arms : Begins(arms))
    BY <1>6 DEF EnsureBinary, EnsureBinaryDown, EnsureBinaryUp
  <2>2. StreamOK(try', partial')
    BY <1>1, <2>1 DEF Begins, NoTry, StreamOK
  <2>3. PartialOK(partial')
    BY <1>1, <2>1
  <2> QED
    BY <1>1, <2>2, <2>3, BinaryKept
<1>7. CASE OpensStream
  <2>1. try.pc = "arm"
    BY <1>7 DEF OpensStream, TryAt
  <2>2. \/ Streams(Len(Kept)) /\ partial' = Kept
        \/ Streams(0) /\ partial' = Absent
        \/ ArmFails /\ partial' = Absent
    BY <1>7 DEF OpensStream
  <2> QED
    BY <1>2, <1>3, <1>4, <2>1, <2>2, AbsentOK
<1>8. CASE RequestFails
  BY <1>2, <1>3, <1>8 DEF RequestFails, TryAt
<1>9. CASE PieceArrives
  <2> DEFINE p == Piece(try.of, try.at + 1)
  <2>1. try.pc = "stream" /\ try.at = Len(partial) /\ try.of \in Nat /\ Len(partial) < FullLen /\ partial \in Seq(Pieces)
    BY <1>1, <1>9 DEF PieceArrives, TryAt, StreamOK, PartialOK
  <2>2. p \in Pieces /\ p.at = Len(partial) + 1
    BY <2>1 DEF Piece, Pieces
  <2>3. partial' = Append(partial, p)
    BY <1>9 DEF PieceArrives
  <2> HIDE DEF p
  <2>4. Len(partial') = Len(partial) + 1 /\ partial' \in Seq(Pieces)
    BY <2>1, <2>2, <2>3
  <2>5. \A i \in 1 .. Len(partial') : partial'[i].at = i
    <3>1. ASSUME NEW i \in 1 .. Len(partial')
          PROVE  partial'[i].at = i
      <4>1. CASE i <= Len(partial)
        BY <1>1, <2>1, <2>3, <3>1, <4>1 DEF PartialOK
      <4>2. CASE i = Len(partial) + 1
        BY <2>1, <2>2, <2>3, <4>2
      <4> QED
        BY <2>1, <2>4, <4>1, <4>2
    <3> QED
      BY <3>1
  <2>6. PartialOK(partial')
    BY <2>1, <2>4, <2>5 DEF PartialOK
  <2>7. StreamOK(try', partial')
    BY <1>1, <1>9, <2>1, <2>4 DEF PieceArrives, StreamOK
  <2> QED
    BY <1>1, <2>6, <2>7, BinaryKept
<1>10. CASE StreamBreaks \/ BodyEnds
  <2>1. UNCHANGED partial /\ StreamOK(try', partial')
    BY <1>1, <1>10 DEF StreamBreaks, BodyEnds, TryAt, StreamOK
  <2> QED
    BY <1>1, <2>1, BinaryKept
<1>11. CASE Rejects
  <2>1. PartialOK(partial') /\ StreamOK(try', partial')
    BY <1>1, <1>11, AbsentOK DEF Rejects, StreamOK
  <2> QED
    BY <1>1, <2>1, BinaryKept
<1>12. CASE GivesUp
  <2>1. UNCHANGED partial /\ StreamOK(try', partial')
    BY <1>12, NoTryOK DEF GivesUp
  <2> QED
    BY <1>1, <2>1, BinaryKept
<1> QED
  BY <1>5, <1>6, <1>7, <1>8, <1>9, <1>10, <1>11, <1>12

\* What replaces the binary
LEMMA InstallsKeep ==
  ASSUME DlInv, Installs \/ CopyEnds
  PROVE  DlInv'
<1>1. /\ latest' \in 1 .. MaxDlReleases /\ PartialOK(partial) /\ StreamOK(try, partial)
      /\ UNCHANGED <<mixRuns, cutCopy>>
  BY DEF DlInv, Installs, CopyEnds
<1>2. StreamOK(try', partial')
  BY NoTryOK DEF Installs, CopyEnds
<1>3. CASE Installs
  <2>1. partial' = Absent /\ onDisk' = partial /\ (IsWhole(partial) \/ mixRuns)
    BY <1>3 DEF Installs, Verified, Runs
  <2>2. InPlace(partial)
    BY <1>1, <1>3 DEF Installs, TryAt, StreamOK, PartialOK, InPlace
  <2>3. BinaryWhole'
    BY <1>1, <2>1, <2>2 DEF BinaryWhole, IsWhole, InPlace
  <2> QED
    BY <1>1, <1>2, <2>1, <2>3, AbsentOK DEF DlInv, PartialOK, StreamOK
<1>4. CASE CopyEnds
  <2>1. UNCHANGED partial /\ onDisk' = Whole(try.had) /\ try.had \in 1 .. MaxDlReleases
    BY <1>1, <1>4 DEF CopyEnds, TryAt, StreamOK
  <2>2. IsWhole(onDisk') /\ InPlace(onDisk')
    BY <2>1, WholeOK
  <2>3. BinaryWhole'
    BY <2>2 DEF BinaryWhole, IsWhole, InPlace
  <2> QED
    BY <1>1, <1>2, <2>1, <2>3 DEF DlInv, PartialOK, StreamOK
<1> QED
  BY <1>3, <1>4

LEMMA UpdateKeeps ==
  ASSUME DlInv, UpdateStages \/ CopyOpens
  PROVE  DlInv'
<1>1. /\ latest' \in 1 .. MaxDlReleases /\ latest \in 1 .. MaxDlReleases
      /\ PartialOK(partial) /\ StreamOK(try, partial)
      /\ UNCHANGED <<partial, mixRuns, cutCopy>> /\ ~TryAt("copy")
  BY DEF DlInv, UpdateStages, CopyOpens, TryAt
<1>2. CASE UpdateStages
  <2>1. try' = [pc |-> "staged", arms |-> {}, had |-> latest, of |-> 0, at |-> 0]
    BY <1>2 DEF UpdateStages, NoTry
  <2>2. StreamOK(try', partial') /\ UNCHANGED onDisk
    BY <1>1, <1>2, <2>1 DEF StreamOK, UpdateStages
  <2> QED
    BY <1>1, <2>2, BinaryKept
<1>3. CASE CopyOpens /\ inUse
  <2>1. StreamOK(try', partial') /\ UNCHANGED onDisk
    BY <1>3, NoTryOK DEF CopyOpens
  <2> QED
    BY <1>1, <2>1, BinaryKept
<1>4. CASE CopyOpens /\ ~inUse
  <2>1. try' = [try EXCEPT !.pc = "copy"] /\ try.pc = "staged"
    BY <1>4 DEF CopyOpens, TryAt
  <2>2. StreamOK(try', partial') /\ try'.pc = "copy"
    BY <1>1, <2>1 DEF StreamOK
  <2>3. BinaryWhole'
    BY <2>2 DEF BinaryWhole, TryAt
  <2> QED
    BY <1>1, <2>2, <2>3 DEF DlInv, PartialOK, StreamOK
<1> QED
  BY <1>2, <1>3, <1>4

LEMMA DlInvKept ==
  ASSUME DlInv, [DlNext]_dlVars
  PROVE  DlInv'
<1>1. CASE UNCHANGED dlVars
  BY <1>1, TryKept DEF dlVars, DlInv
<1>2. CASE ReplicaUses \/ BackoffEnds \/ DownForLong \/ PartialAges
  BY <1>2, TryKept DEF ReplicaUses, BackoffEnds, DownForLong, PartialAges, DlInv
<1>3. CASE NewRelease
  <2>1. latest' \in 1 .. MaxDlReleases
    BY <1>3, DlConstants DEF NewRelease, DlInv
  <2> QED
    BY <1>3, <2>1, TryKept DEF NewRelease
<1>4. CASE SupervisorRestarts
  <2>1. StreamOK(try', partial') /\ PartialOK(partial') /\ latest' \in 1 .. MaxDlReleases
    BY <1>4, NoTryOK DEF SupervisorRestarts, DlInv, PartialOK
  <2>2. BinaryWhole'
    BY <1>4 DEF SupervisorRestarts, DlInv, BinaryWhole, TryAt, IsWhole, InPlace
  <2> QED
    BY <2>1, <2>2 DEF DlInv, PartialOK, StreamOK
<1> QED
  BY <1>1, <1>2, <1>3, <1>4, DownloadsKeep, InstallsKeep, UpdateKeeps DEF DlNext, AttemptStep

\* What is started has every piece once and in its place, wherever downloads were broken
\* off, resumed over a new release, begun anew or refused, and wherever an update or
\* sniffbox itself ended, and whether or not a file of two releases passes the check: if
\* none does, it is one release.
THEOREM BinaryStaysWhole == DlSpec => []BinaryWhole
<1>1. DlInit => DlInv
  <2> SUFFICES ASSUME DlInit PROVE DlInv
    OBVIOUS
  <2>1. PartialOK(partial) /\ StreamOK(try, partial) /\ 1 \in 1 .. MaxDlReleases
    BY AbsentOK, NoTryOK, DlConstants DEF DlInit
  <2> QED
    BY <2>1, WholeOK DEF DlInit, DlInv, BinaryWhole
<1>2. DlInv /\ [DlNext]_dlVars => DlInv'
  BY DlInvKept
<1>3. DlInv => BinaryWhole
  BY DEF DlInv
<1> QED
  BY <1>1, <1>2, <1>3, PTL DEF DlSpec

-----------------------------------------------------------------------------
(***************************************************************************)
(* Resolve.  A deadline is looked at before each look-up, and a look-up is  *)
(* one question, or two with IPv6.  The invariant says for each place of   *)
(* the work what has been set and until when it waits.                     *)
(***************************************************************************)
RsPlaces == {"next", "done", "boot", "booting", "booting6", "turn", "wait", "fb", "asking", "asking6"}
Booting == {"booting", "booting6"}

\* A wait for one server ends at the deadline, one look-up past it at the latest, and its
\* first question one question past it.
WaitOK(j) ==
  /\ j.at \in {"boot", "turn", "fb"} => now <= j.dl + Slack
  /\ j.at = "wait" => now <= j.until /\ j.until <= j.dl
  /\ j.at \in {"booting", "asking", "booting6", "asking6"} => now <= j.until /\ j.until <= now + Query
  /\ j.at \in {"booting", "asking"} => j.until <= j.dl + Query
  /\ j.at \in {"booting6", "asking6"} => Ipv6 /\ j.until <= j.dl + Slack

\* With one question before it, a look-up ends Slack after it was begun.
LEMMA SlackIs == /\ Slack \in Nat /\ Query <= Slack
                 /\ Ipv6 => Slack = Query + Query
  BY ResolveAssumption DEF Slack

\* Who waits for another to resolve the servers' names came before its own deadline,
\* and the other is not longer at it than one look-up.
BootingFor(w) == \A v \in Resolvers : /\ work[v].at = "booting" => work[v].until <= work[w].dl + Query
                                      /\ work[v].at = "booting6" => work[v].until <= work[w].dl + Slack
BootOK ==
  /\ boot = "new" => \A v \in Resolvers : work[v].at \notin Booting
  /\ boot = "busy" => \E v \in Resolvers : work[v].at \in Booting
  /\ \A w \in Resolvers :
       work[w].at = "boot" =>
         /\ boot = "new" => now <= work[w].dl
         /\ boot = "busy" => BootingFor(w)

Works == [at : RsPlaces, d : Nat, dl : Nat, i : Nat, until : Nat, got : SUBSET Nat]
RsTypes ==
  /\ now \in Nat /\ next \in Nat
  /\ boot \in {"new", "busy", "done"}
  /\ work \in [Resolvers -> Works]
  /\ outcome \in [1 .. Domains -> {"none", "skipped", "failed", "resolved"}]

\* A domain that was taken has its verdict or is being worked on.
VerdictsDue == \A d \in 1..Domains : d < next => outcome[d] # "none" \/ \E w \in Resolvers : work[w].d = d

RsInv ==
  /\ RsTypes
  /\ \A w \in Resolvers : WaitOK(work[w])
  /\ \A w \in Resolvers : work[w].at \in {"next", "done"} => work[w].d = 0
  /\ BootOK
  /\ VerdictsDue

\* What one resolver does for its domain, while no time passes.
LEMMA OneWorks ==
  ASSUME RsInv, NEW w \in Resolvers, NEW f \in Works,
         work' = [work EXCEPT ![w] = f], now' = now, WaitOK(f),
         f.at \in {"next", "done"} => f.d = 0
  PROVE  /\ work' \in [Resolvers -> Works] /\ work'[w] = f
         /\ \A v \in Resolvers : v # w => work'[v] = work[v]
         /\ \A v \in Resolvers : WaitOK(work[v])'
         /\ \A v \in Resolvers : work'[v].at \in {"next", "done"} => work'[v].d = 0
<1>1. work' \in [Resolvers -> Works] /\ work'[w] = f /\ \A v \in Resolvers : v # w => work'[v] = work[v]
  BY DEF RsInv, RsTypes
<1> QED
  BY <1>1 DEF RsInv, WaitOK

\* The bootstrap is none of its concern, when it neither begins nor ends it nor waits.
LEMMA OthersBoot ==
  ASSUME RsInv, NEW w \in Resolvers, boot' = boot, now' = now, work' \in [Resolvers -> Works],
         \A v \in Resolvers : v # w => work'[v] = work[v],
         work[w].at \notin Booting, work'[w].at \notin {"boot"} \cup Booting
  PROVE  BootOK'
<1>1. \A v \in Resolvers : /\ work'[v].at \in Booting => v # w /\ work'[v] = work[v]
                           /\ work[v].at \in Booting => v # w /\ work'[v] = work[v]
                           /\ work'[v].at = "boot" => v # w /\ work'[v] = work[v]
  BY DEF Booting
<1>2. boot' = "new" => \A v \in Resolvers : work'[v].at \notin Booting
  BY <1>1 DEF RsInv, BootOK
<1>3. boot' = "busy" => \E v \in Resolvers : work'[v].at \in Booting
  BY <1>1 DEF RsInv, BootOK
<1>4. ASSUME NEW x \in Resolvers, work'[x].at = "boot"
      PROVE  /\ boot' = "new" => now' <= work'[x].dl
             /\ boot' = "busy" => BootingFor(x)'
  BY <1>1, <1>4 DEF RsInv, BootOK, BootingFor, Booting
<1> QED
  BY <1>2, <1>3, <1>4 DEF BootOK

\* It goes on with its domain ...
LEMMA GoesOn ==
  ASSUME RsInv, NEW w \in Resolvers, NEW f \in Works, WaitOK(f), WorkerGoes(w, f), f.d = work[w].d,
         f.at \notin {"next", "done", "boot"} \cup Booting, work[w].at \notin Booting,
         UNCHANGED <<now, next, boot, outcome>>
  PROVE  RsInv'
<1>1. /\ work' \in [Resolvers -> Works] /\ work'[w] = f
      /\ \A v \in Resolvers : v # w => work'[v] = work[v]
      /\ \A v \in Resolvers : WaitOK(work[v])'
      /\ \A v \in Resolvers : work'[v].at \in {"next", "done"} => work'[v].d = 0
  BY OneWorks DEF WorkerGoes
<1>2. BootOK'
  <2>1. now' = now /\ boot' = boot
    OBVIOUS
  <2> QED
    BY <1>1, <2>1, OthersBoot
<1>3. VerdictsDue'
  BY <1>1 DEF RsInv, VerdictsDue
<1> QED
  BY <1>1, <1>2, <1>3 DEF RsInv, RsTypes

\* ... or takes one.
LEMMA TakesKeeps ==
  ASSUME RsInv, NEW w \in Resolvers, Takes(w)
  PROVE  RsInv'
<1>1. work[w] \in Works /\ work \in [Resolvers -> Works] /\ work[w].at = "next"
  BY DEF RsInv, RsTypes, Takes
<1>2. now \in Nat /\ next \in Nat /\ UNCHANGED <<now, boot, ans>> /\ work[w].d = 0
  BY <1>1 DEF RsInv, RsTypes, Takes
<1>3. CASE next > Domains
  <2> DEFINE f == [work[w] EXCEPT !.at = "done"]
  <2>1. f \in Works /\ f.d = 0 /\ f.at = "done"
    BY <1>1, <1>2 DEF Works, RsPlaces
  <2>2. work' = [work EXCEPT ![w] = f] /\ UNCHANGED <<next, outcome>>
    BY <1>2, <1>3, ResolveAssumption DEF Takes, WorkerGoes
  <2> HIDE DEF f
  <2>3. WaitOK(f)
    BY <2>1 DEF WaitOK
  <2>4. /\ work' \in [Resolvers -> Works] /\ work'[w] = f
        /\ \A v \in Resolvers : v # w => work'[v] = work[v]
        /\ \A v \in Resolvers : WaitOK(work[v])'
        /\ \A v \in Resolvers : work'[v].at \in {"next", "done"} => work'[v].d = 0
    BY <1>2, <2>1, <2>2, <2>3, OneWorks
  <2>5. BootOK'
    BY <1>1, <1>2, <2>1, <2>4, OthersBoot DEF Booting
  <2>6. VerdictsDue'
    BY <1>2, <2>1, <2>2, <2>4 DEF RsInv, VerdictsDue
  <2> QED
    BY <1>2, <2>2, <2>4, <2>5, <2>6 DEF RsInv, RsTypes
<1>4. CASE next <= Domains /\ now >= Total
  <2>1. work' = work /\ next' = next + 1 /\ outcome' = [outcome EXCEPT ![next] = "skipped"]
    BY <1>2, <1>4, ResolveAssumption DEF Takes
  <2>2. VerdictsDue'
    BY <1>2, <1>4, <2>1, ResolveAssumption DEF RsInv, RsTypes, VerdictsDue
  <2>3. BootOK' /\ \A v \in Resolvers : WaitOK(work[v])'
    BY <1>2, <2>1 DEF RsInv, BootOK, BootingFor, WaitOK
  <2>4. next' \in Nat
    BY <1>2, <2>1
  <2>5. outcome' \in [1 .. Domains -> {"none", "skipped", "failed", "resolved"}]
    <3>1. outcome \in [1 .. Domains -> {"none", "skipped", "failed", "resolved"}]
      BY DEF RsInv, RsTypes
    <3> QED
      BY <2>1, <3>1
  <2> QED
    BY <1>2, <2>1, <2>2, <2>3, <2>4, <2>5 DEF RsInv, RsTypes
<1>5. CASE next <= Domains /\ now < Total
  <2> DEFINE until == LeastOf(now + PerDomain, Total)
             f == [RsFree EXCEPT !.at = "boot", !.d = next, !.dl = until]
  <2>1. until \in Nat /\ now <= until
    BY <1>2, <1>5, ResolveAssumption DEF LeastOf
  <2>2. work' = [work EXCEPT ![w] = f] /\ next' = next + 1 /\ outcome' = outcome
    BY <1>2, <1>5, ResolveAssumption DEF Takes, WorkerGoes
  <2> HIDE DEF until
  <2>3. f \in Works /\ f.at = "boot" /\ f.d = next /\ f.dl = until
    <3>1. RsFree \in Works
      BY DEF RsFree, Works, RsPlaces
    <3>2. next \in Nat
      BY <1>2
    <3> QED
      BY <2>1, <3>1, <3>2 DEF Works, RsPlaces
  <2> HIDE DEF f
  <2>4. WaitOK(f)
    BY <1>2, <2>1, <2>3, SlackIs DEF WaitOK
  <2>5. /\ work' \in [Resolvers -> Works] /\ work'[w] = f
        /\ \A v \in Resolvers : v # w => work'[v] = work[v]
        /\ \A v \in Resolvers : WaitOK(work[v])'
        /\ \A v \in Resolvers : work'[v].at \in {"next", "done"} => work'[v].d = 0
    BY <1>2, <2>2, <2>3, <2>4, OneWorks
  <2>6. BootOK'
    <3>1. ASSUME NEW v \in Resolvers, work[v].at \in Booting
          PROVE  work[v].until <= f.dl + Query /\ work[v].until <= f.dl + Slack
      <4>1. work[v].until <= now + Query /\ work[v].until \in Nat
        BY <3>1 DEF RsInv, RsTypes, WaitOK, Works, Booting
      <4> QED
        BY <1>2, <2>1, <2>3, <4>1, SlackIs, ResolveAssumption
    <3>2. \A v \in Resolvers : /\ work'[v].at \in Booting => v # w /\ work'[v] = work[v]
                               /\ work[v].at \in Booting => v # w /\ work'[v] = work[v]
                               /\ work'[v].at = "boot" => v = w \/ work'[v] = work[v]
      BY <1>1, <2>3, <2>5 DEF Booting
    <3>3. now' <= work'[w].dl
      BY <1>2, <2>1, <2>3, <2>5
    <3>4. ASSUME NEW x \in Resolvers, work'[x].at = "boot", boot' = "busy"
          PROVE  BootingFor(x)'
      <4>1. CASE x = w
        BY <2>3, <2>5, <3>1, <3>2, <4>1 DEF BootingFor, Booting
      <4>2. CASE x # w
        BY <1>2, <2>5, <3>2, <3>4, <4>2 DEF RsInv, BootOK, BootingFor, Booting
      <4> QED
        BY <4>1, <4>2
    <3>5. ASSUME NEW x \in Resolvers, work'[x].at = "boot", boot' = "new"
          PROVE  now' <= work'[x].dl
      BY <1>2, <2>5, <3>2, <3>3, <3>5 DEF RsInv, BootOK
    <3>6. /\ boot' = "new" => \A v \in Resolvers : work'[v].at \notin Booting
          /\ boot' = "busy" => \E v \in Resolvers : work'[v].at \in Booting
      BY <1>2, <3>2 DEF RsInv, BootOK
    <3> QED
      BY <3>4, <3>5, <3>6 DEF BootOK
  <2>7. VerdictsDue'
    BY <1>2, <2>2, <2>3, <2>5 DEF RsInv, VerdictsDue
  <2> QED
    BY <1>2, <2>2, <2>5, <2>6, <2>7 DEF RsInv, RsTypes
<1> QED
  BY <1>2, <1>3, <1>4, <1>5, ResolveAssumption

\* It resolves the names of the servers, for itself and for all who wait ...
LEMMA BootstrapsKeeps ==
  ASSUME RsInv, NEW w \in Resolvers, Bootstraps(w)
  PROVE  RsInv'
<1> DEFINE end == now + Query
           f == [work[w] EXCEPT !.at = "booting", !.until = end]
<1>1. work[w] \in Works
  BY DEF RsInv, RsTypes
<1>2. now \in Nat /\ now' = now /\ work[w].dl \in Nat /\ now < work[w].dl
  BY <1>1 DEF RsInv, RsTypes, Bootstraps, Expired, Works
<1>3. end \in Nat /\ now <= end /\ end <= work[w].dl + Query
  BY <1>2, ResolveAssumption
<1>4. work' = [work EXCEPT ![w] = f] /\ boot = "new" /\ boot' = "busy" /\ UNCHANGED <<next, outcome>>
  BY DEF Bootstraps, WorkerGoes
<1>5. end = now + Query
  OBVIOUS
<1> HIDE DEF end
<1>6. f \in Works /\ f.at = "booting" /\ f.until = end /\ f.d = work[w].d /\ f.dl = work[w].dl
  <2>1. end \in Nat
    BY <1>3
  <2> QED
    BY <1>1, <2>1 DEF Works, RsPlaces
<1> HIDE DEF f
<1>7. WaitOK(f)
  BY <1>2, <1>3, <1>5, <1>6 DEF WaitOK
<1>8. /\ work' \in [Resolvers -> Works] /\ work'[w] = f
      /\ \A v \in Resolvers : v # w => work'[v] = work[v]
      /\ \A v \in Resolvers : WaitOK(work[v])'
      /\ \A v \in Resolvers : work'[v].at \in {"next", "done"} => work'[v].d = 0
  BY <1>2, <1>4, <1>6, <1>7, OneWorks
<1>9. BootOK'
  <2>1. ASSUME NEW x \in Resolvers, work'[x].at = "boot", NEW v \in Resolvers, work'[v].at \in Booting
        PROVE  work'[v].at = "booting" /\ work'[v].until <= work'[x].dl + Query
    <3>1. v = w /\ x # w /\ work'[x] = work[x]
      BY <1>4, <1>6, <1>8, <2>1 DEF RsInv, BootOK
    <3>2. now <= work[x].dl /\ work[x].dl \in Nat
      BY <1>4, <2>1, <3>1 DEF RsInv, BootOK, RsTypes, Works
    <3> QED
      BY <1>2, <1>5, <1>6, <1>8, <3>1, <3>2, ResolveAssumption
  <2>2. \A x \in Resolvers : work'[x].at = "boot" => BootingFor(x)'
    BY <2>1 DEF BootingFor, Booting
  <2>3. work'[w].at \in Booting
    BY <1>6, <1>8 DEF Booting
  <2> QED
    BY <1>4, <2>2, <2>3 DEF BootOK
<1>10. VerdictsDue'
  BY <1>4, <1>6, <1>8 DEF RsInv, VerdictsDue
<1> QED
  BY <1>2, <1>4, <1>8, <1>9, <1>10 DEF RsInv, RsTypes

\* ... with a second question for the other family ...
LEMMA AsksAgainKeeps ==
  ASSUME RsInv, NEW w \in Resolvers, AsksAgain(w)
  PROVE  RsInv'
<1> DEFINE end == now + Query
           f == [work[w] EXCEPT !.at = "booting6", !.until = end]
<1>1. work[w] \in Works
  BY DEF RsInv, RsTypes
<1>2. /\ now \in Nat /\ now' = now /\ work[w].dl \in Nat /\ work[w].until \in Nat
      /\ Ipv6 /\ work[w].at = "booting" /\ now <= work[w].until /\ work[w].until <= work[w].dl + Query
  BY <1>1 DEF RsInv, RsTypes, AsksAgain, WaitOK, Works
<1>3. end \in Nat /\ now <= end /\ end <= work[w].until + Query /\ end <= work[w].dl + Slack
  BY <1>2, SlackIs, ResolveAssumption
<1>4. work' = [work EXCEPT ![w] = f] /\ UNCHANGED <<next, boot, outcome>>
  BY DEF AsksAgain, WorkerGoes
<1>5. end = now + Query
  OBVIOUS
<1> HIDE DEF end
<1>6. f \in Works /\ f.at = "booting6" /\ f.until = end /\ f.d = work[w].d /\ f.dl = work[w].dl
  <2>1. end \in Nat
    BY <1>3
  <2> QED
    BY <1>1, <2>1 DEF Works, RsPlaces
<1> HIDE DEF f
<1>7. WaitOK(f)
  BY <1>2, <1>3, <1>5, <1>6, ResolveAssumption DEF WaitOK
<1>8. /\ work' \in [Resolvers -> Works] /\ work'[w] = f
      /\ \A v \in Resolvers : v # w => work'[v] = work[v]
      /\ \A v \in Resolvers : WaitOK(work[v])'
      /\ \A v \in Resolvers : work'[v].at \in {"next", "done"} => work'[v].d = 0
  BY <1>2, <1>4, <1>6, <1>7, OneWorks
<1>9. BootOK'
  <2>1. boot' = boot /\ boot # "new" /\ work'[w].at \in Booting
    BY <1>2, <1>4, <1>6, <1>8 DEF RsInv, BootOK, Booting
  <2>2. ASSUME NEW x \in Resolvers, work'[x].at = "boot", boot' = "busy"
        PROVE  BootingFor(x)'
    <3>1. x # w /\ work'[x] = work[x] /\ BootingFor(x) /\ work[x].dl \in Nat
      BY <1>6, <1>8, <2>1, <2>2 DEF RsInv, BootOK, RsTypes, Works
    <3>2. end <= work[x].dl + Slack
      BY <1>2, <1>3, <3>1, SlackIs, ResolveAssumption DEF BootingFor
    <3> QED
      BY <1>6, <1>8, <3>1, <3>2 DEF BootingFor
  <2> QED
    BY <2>1, <2>2 DEF BootOK
<1>10. VerdictsDue'
  BY <1>4, <1>6, <1>8 DEF RsInv, VerdictsDue
<1> QED
  BY <1>2, <1>4, <1>8, <1>9, <1>10 DEF RsInv, RsTypes

\* ... and has them.
LEMMA BootstrappedKeeps ==
  ASSUME RsInv, NEW w \in Resolvers, Bootstrapped(w)
  PROVE  RsInv'
<1> DEFINE f == [work[w] EXCEPT !.at = "boot", !.until = 0]
<1>1. work[w] \in Works
  BY DEF RsInv, RsTypes
<1>2. /\ now \in Nat /\ now' = now /\ work[w].at \in Booting /\ WaitOK(work[w])
      /\ work[w].dl \in Nat /\ work[w].until \in Nat
  BY <1>1 DEF RsInv, RsTypes, Bootstrapped, Works, Booting
<1>3. f \in Works /\ f.at = "boot" /\ f.d = work[w].d /\ f.dl = work[w].dl
  BY <1>1 DEF Works, RsPlaces
<1>4. work' = [work EXCEPT ![w] = f] /\ boot' = "done" /\ UNCHANGED <<next, outcome>>
  BY DEF Bootstrapped, WorkerGoes
<1> HIDE DEF f
<1>5. WaitOK(f)
  BY <1>2, <1>3, SlackIs, ResolveAssumption DEF WaitOK, Booting
<1>6. /\ work' \in [Resolvers -> Works] /\ work'[w] = f
      /\ \A v \in Resolvers : v # w => work'[v] = work[v]
      /\ \A v \in Resolvers : WaitOK(work[v])'
      /\ \A v \in Resolvers : work'[v].at \in {"next", "done"} => work'[v].d = 0
  BY <1>2, <1>3, <1>4, <1>5, OneWorks
<1>7. BootOK'
  BY <1>4 DEF BootOK
<1>8. VerdictsDue'
  BY <1>3, <1>4, <1>6 DEF RsInv, VerdictsDue
<1> QED
  BY <1>2, <1>4, <1>6, <1>7, <1>8 DEF RsInv, RsTypes

\* The servers that were named are asked at once and listened to in turn ...
LEMMA TurnKeeps ==
  ASSUME RsInv, NEW w \in Resolvers, AsksServer(w) \/ Turn(w) \/ Absorbs(w)
  PROVE  RsInv'
<1>1. work[w] \in Works
  BY DEF RsInv, RsTypes
<1>2. /\ now \in Nat /\ WaitOK(work[w]) /\ UNCHANGED <<now, next, boot, outcome>>
      /\ work[w].dl \in Nat /\ work[w].until \in Nat /\ work[w].at \notin Booting
  BY <1>1 DEF RsInv, RsTypes, AsksServer, Turn, Absorbs, Works, Booting
<1>3. work[w].i + 1 \in Nat
  BY <1>1 DEF Works
<1>4. CASE AsksServer(w)
  <2> DEFINE f == [work[w] EXCEPT !.at = "turn", !.i = 1]
  <2>1. f \in Works /\ f.d = work[w].d /\ f.at = "turn" /\ f.dl = work[w].dl
    BY <1>1 DEF Works, RsPlaces
  <2>2. WorkerGoes(w, f) /\ work[w].at = "boot"
    BY <1>4 DEF AsksServer
  <2> HIDE DEF f
  <2>3. WaitOK(f)
    BY <1>2, <2>1, <2>2 DEF WaitOK
  <2> QED
    BY <1>2, <2>1, <2>2, <2>3, GoesOn DEF Booting
<1>5. CASE Absorbs(w)
  <2> DEFINE got == IF ans[w][work[w].i] = "ip" THEN work[w].got \cup {work[w].i} ELSE work[w].got
             f == [work[w] EXCEPT !.at = "turn", !.i = @ + 1, !.until = 0, !.got = got]
  <2>1. got \in SUBSET Nat
    BY <1>1 DEF Works
  <2>2. WorkerGoes(w, f) /\ work[w].at = "wait"
    BY <1>5 DEF Absorbs
  <2> HIDE DEF got
  <2>3. f \in Works /\ f.d = work[w].d /\ f.at = "turn" /\ f.dl = work[w].dl
    BY <1>1, <1>3, <2>1 DEF Works, RsPlaces
  <2> HIDE DEF f
  <2>4. WaitOK(f)
    BY <1>2, <2>2, <2>3, SlackIs DEF WaitOK
  <2> QED
    BY <1>2, <2>2, <2>3, <2>4, GoesOn DEF Booting
<1>6. CASE Turn(w)
  <2>1. work[w].at = "turn" /\ work[w].i \in Nat
    BY <1>1, <1>6 DEF Turn, Works
  <2>2. CASE work[w].i > Specs /\ WorkerGoes(w, [work[w] EXCEPT !.at = "fb", !.i = 1, !.until = 0])
    <3> DEFINE f == [work[w] EXCEPT !.at = "fb", !.i = 1, !.until = 0]
    <3>1. f \in Works /\ f.d = work[w].d /\ f.at = "fb" /\ f.dl = work[w].dl
      BY <1>1 DEF Works, RsPlaces
    <3>2. WorkerGoes(w, f)
      BY <2>2
    <3> HIDE DEF f
    <3>3. WaitOK(f)
      BY <1>2, <2>1, <3>1 DEF WaitOK
    <3> QED
      BY <1>2, <3>1, <3>2, <3>3, GoesOn DEF Booting
  <2>3. CASE Expired(w) /\ WorkerGoes(w, [work[w] EXCEPT !.i = @ + 1])
    <3> DEFINE f == [work[w] EXCEPT !.i = @ + 1]
    <3>1. f \in Works /\ f.d = work[w].d /\ f.at = work[w].at /\ f.dl = work[w].dl
      BY <1>1, <1>3 DEF Works, RsPlaces
    <3>2. WorkerGoes(w, f)
      BY <2>3
    <3> HIDE DEF f
    <3>3. WaitOK(f)
      BY <1>2, <2>1, <3>1 DEF WaitOK
    <3> QED
      BY <1>2, <2>1, <3>1, <3>2, <3>3, GoesOn DEF Booting
  <2>4. CASE ~Expired(w) /\ WorkerGoes(w, [work[w] EXCEPT !.at = "wait", !.until = Clamp(w, Hard)])
    <3> DEFINE end == Clamp(w, Hard)
               f == [work[w] EXCEPT !.at = "wait", !.until = end]
    <3>1. end \in Nat /\ now <= end /\ end <= work[w].dl
      BY <1>2, <2>4, ResolveAssumption DEF Clamp, Expired
    <3>2. WorkerGoes(w, f)
      BY <2>4
    <3> HIDE DEF end
    <3>3. f \in Works /\ f.d = work[w].d /\ f.at = "wait" /\ f.until = end /\ f.dl = work[w].dl
      <4>1. end \in Nat
        BY <3>1
      <4> QED
        BY <1>1, <4>1 DEF Works, RsPlaces
    <3> HIDE DEF f
    <3>4. WaitOK(f)
      BY <1>2, <3>1, <3>3 DEF WaitOK
    <3> QED
      BY <1>2, <3>2, <3>3, <3>4, GoesOn DEF Booting
  <2> QED
    BY <1>6, <2>2, <2>3, <2>4 DEF Turn
<1> QED
  BY <1>4, <1>5, <1>6

\* ... and the public ones one by one.
LEMMA FallbackKeeps ==
  ASSUME RsInv, NEW w \in Resolvers, Fallback(w) \/ \E a \in {"ip", "none"} : FallbackAnswers(w, a)
  PROVE  RsInv'
<1>1. work[w] \in Works
  BY DEF RsInv, RsTypes
<1>2. /\ now \in Nat /\ WaitOK(work[w]) /\ UNCHANGED <<now, next, boot>>
      /\ work[w].dl \in Nat /\ work[w].until \in Nat /\ work[w].at \notin Booting
  BY <1>1 DEF RsInv, RsTypes, Fallback, FallbackAnswers, Works, Booting
<1>3. work[w].i + 1 \in Nat
  BY <1>1 DEF Works
<1>4. CASE Fallback(w)
  <2>1. CASE ~Expired(w) /\ WorkerGoes(w, [work[w] EXCEPT !.at = "asking", !.until = now + Query]) /\ UNCHANGED outcome
    <3> DEFINE end == now + Query
               f == [work[w] EXCEPT !.at = "asking", !.until = end]
    <3>1. end \in Nat /\ now <= end /\ end <= now + Query /\ end <= work[w].dl + Query
      BY <1>2, <2>1, ResolveAssumption DEF Expired
    <3>2. WorkerGoes(w, f)
      BY <2>1
    <3> HIDE DEF end
    <3>3. f \in Works /\ f.d = work[w].d /\ f.at = "asking" /\ f.until = end /\ f.dl = work[w].dl
      <4>1. end \in Nat
        BY <3>1
      <4> QED
        BY <1>1, <4>1 DEF Works, RsPlaces
    <3> HIDE DEF f
    <3>4. WaitOK(f)
      BY <1>2, <3>1, <3>3 DEF WaitOK
    <3> QED
      BY <1>2, <2>1, <3>2, <3>3, <3>4, GoesOn DEF Booting
  <2>2. CASE /\ WorkerGoes(w, RsFree)
             /\ outcome' = [outcome EXCEPT ![work[w].d] = IF work[w].got = {} THEN "failed" ELSE "resolved"]
    <3>1. RsFree \in Works /\ RsFree.at = "next" /\ RsFree.d = 0 /\ WaitOK(RsFree)
      BY DEF RsFree, Works, RsPlaces, WaitOK
    <3>2. PICK o \in {"failed", "resolved"} : outcome' = [outcome EXCEPT ![work[w].d] = o]
      BY <2>2
    <3> DEFINE f == RsFree
    <3> HIDE DEF f
    <3>3. /\ work' \in [Resolvers -> Works] /\ work'[w] = f
          /\ \A v \in Resolvers : v # w => work'[v] = work[v]
          /\ \A v \in Resolvers : WaitOK(work[v])'
          /\ \A v \in Resolvers : work'[v].at \in {"next", "done"} => work'[v].d = 0
      BY <1>2, <2>2, <3>1, OneWorks DEF WorkerGoes, f
    <3>4. outcome' \in [1 .. Domains -> {"none", "skipped", "failed", "resolved"}]
      BY <3>2 DEF RsInv, RsTypes
    <3>5. VerdictsDue'
      BY <1>2, <3>2, <3>3 DEF RsInv, RsTypes, VerdictsDue
    <3>6. BootOK'
      BY <1>2, <3>1, <3>3, OthersBoot DEF f, Booting
    <3> QED
      BY <1>2, <3>3, <3>4, <3>5, <3>6 DEF RsInv, RsTypes
  <2> QED
    BY <1>4, <2>1, <2>2 DEF Fallback
<1>5. ASSUME NEW a \in {"ip", "none"}, FallbackAnswers(w, a)
      PROVE  RsInv'
  <2> DEFINE got == IF a = "ip" THEN {Specs + work[w].i} ELSE work[w].got
  <2>1. got \in SUBSET Nat
    BY <1>1, ResolveAssumption DEF Works
  <2>2. CASE Ipv6 /\ work[w].at = "asking"
    <3> DEFINE end == now + Query
               f == [work[w] EXCEPT !.at = "asking6", !.until = end, !.got = got]
    <3>1. WorkerGoes(w, f) /\ UNCHANGED outcome
      BY <1>5, <2>2 DEF FallbackAnswers
    <3>2. now <= work[w].until /\ work[w].until <= work[w].dl + Query
      BY <1>2, <2>2 DEF WaitOK
    <3>3. end \in Nat /\ end = now + Query /\ now <= end
      BY <1>2, ResolveAssumption
    <3>4. end <= work[w].dl + Slack
      BY <1>2, <2>2, <3>2, <3>3, SlackIs, ResolveAssumption
    <3> HIDE DEF got, end
    <3>5. f \in Works /\ f.d = work[w].d /\ f.at = "asking6" /\ f.until = end /\ f.dl = work[w].dl
      <4>1. end \in Nat
        BY <3>3
      <4> QED
        BY <1>1, <2>1, <4>1 DEF Works, RsPlaces
    <3> HIDE DEF f
    <3>6. WaitOK(f)
      BY <2>2, <3>3, <3>4, <3>5 DEF WaitOK
    <3> QED
      BY <1>2, <3>1, <3>5, <3>6, GoesOn DEF Booting
  <2>3. CASE ~(Ipv6 /\ work[w].at = "asking")
    <3> DEFINE f == [work[w] EXCEPT !.at = "fb", !.i = @ + 1, !.until = 0, !.got = got]
    <3>1. WorkerGoes(w, f) /\ work[w].at \in {"asking", "asking6"} /\ UNCHANGED outcome
      BY <1>5, <2>3 DEF FallbackAnswers
    <3> HIDE DEF got
    <3>2. f \in Works /\ f.d = work[w].d /\ f.at = "fb" /\ f.dl = work[w].dl
      BY <1>1, <1>3, <2>1 DEF Works, RsPlaces
    <3> HIDE DEF f
    <3>3. WaitOK(f)
      BY <1>2, <3>1, <3>2, SlackIs, ResolveAssumption DEF WaitOK
    <3> QED
      BY <1>2, <3>1, <3>2, <3>3, GoesOn DEF Booting
  <2> QED
    BY <2>2, <2>3
<1> QED
  BY <1>4, <1>5

\* A tick passes only while everybody waits for something that comes first.
LEMMA ClockKeeps ==
  ASSUME RsInv, ClockTicks
  PROVE  RsInv'
<1>1. now \in Nat /\ now' = now + 1 /\ UNCHANGED <<work, next, boot, ans, outcome>>
  BY DEF ClockTicks, RsInv, RsTypes
<1>2. ASSUME NEW w \in Resolvers
      PROVE  WaitOK(work[w])'
  <2>1. WorkerRests(w)
    BY DEF ClockTicks
  <2>2. work[w] \in Works /\ work[w].dl \in Nat /\ work[w].until \in Nat /\ WaitOK(work[w])
    BY DEF RsInv, RsTypes, Works
  <2>3. CASE work[w].at = "boot"
    <3>1. boot = "busy"
      BY <2>1, <2>3 DEF WorkerRests, Waits
    <3>2. PICK v \in Resolvers : work[v].at \in Booting
      BY <3>1 DEF RsInv, BootOK
    <3>3. now < work[v].until
      BY <3>2 DEF ClockTicks, WorkerRests, Booting
    <3>4. work[v].until \in Nat
      BY DEF RsInv, RsTypes, Works
    <3>5. work[v].until <= work[w].dl + Slack
      BY <2>2, <2>3, <3>1, <3>2, <3>4, SlackIs, ResolveAssumption DEF RsInv, BootOK, BootingFor, Booting
    <3> QED
      BY <1>1, <2>2, <2>3, <3>3, <3>4, <3>5, SlackIs DEF WaitOK
  <2>4. CASE work[w].at # "boot"
    BY <1>1, <2>1, <2>2, <2>4, ResolveAssumption DEF WaitOK, WorkerRests, Waits
  <2> QED
    BY <2>3, <2>4
<1>3. BootOK'
  <2>1. \A w \in Resolvers : work[w].at = "boot" => boot # "new"
    BY DEF ClockTicks, WorkerRests, Waits
  <2> QED
    BY <1>1, <2>1 DEF RsInv, BootOK, BootingFor
<1> QED
  BY <1>1, <1>2, <1>3 DEF RsInv, RsTypes, VerdictsDue

LEMMA RsInvKept ==
  ASSUME RsInv, [RsNext]_rsVars
  PROVE  RsInv'
<1>1. CASE UNCHANGED rsVars
  BY <1>1 DEF rsVars, RsInv, RsTypes, WaitOK, BootOK, BootingFor, VerdictsDue
<1>2. ASSUME NEW w \in Resolvers, NEW i \in 1..Specs, NEW a \in {"ip", "fake"}, ServerAnswers(w, i, a)
      PROVE  RsInv'
  BY <1>2 DEF ServerAnswers, RsInv, RsTypes, WaitOK, BootOK, BootingFor, VerdictsDue
<1>3. ASSUME NEW w \in Resolvers, RsStep(w)
      PROVE  RsInv'
  BY <1>3, TakesKeeps, BootstrapsKeeps, AsksAgainKeeps, BootstrappedKeeps, TurnKeeps, FallbackKeeps DEF RsStep
<1> QED
  BY <1>1, <1>2, <1>3, ClockKeeps DEF RsNext

\* The wait for a server never passes the domain's deadline, and the domain is left at
\* most one look-up (one question, or one for each family with IPv6) after it, whatever
\* answers late or never and whoever waits for whom; every domain that was taken has its
\* verdict or is still worked on.
THEOREM BudgetsHold == RsSpec => []WithinBudget
<1>1. RsInit => RsInv
  <2> SUFFICES ASSUME RsInit
               PROVE  RsInv
    OBVIOUS
  <2>1. RsFree \in Works /\ RsFree.at = "next" /\ RsFree.d = 0 /\ WaitOK(RsFree)
    BY DEF RsFree, Works, WaitOK, RsPlaces
  <2>2. work = [w \in Resolvers |-> RsFree]
    BY DEF RsInit
  <2> QED
    BY <2>1, <2>2, ResolveAssumption DEF RsInit, RsInv, RsTypes, BootOK, VerdictsDue, Booting
<1>2. RsInv /\ [RsNext]_rsVars => RsInv'
  BY RsInvKept
<1>3. RsInv => WithinBudget
  <2> SUFFICES ASSUME RsInv, NEW w \in Resolvers, work[w].at \notin {"next", "done"}
               PROVE  now <= work[w].dl + IF work[w].at = "wait" THEN 0 ELSE Slack
    BY DEF WithinBudget, RsInv, VerdictsDue
  <2>1. work[w] \in Works /\ WaitOK(work[w]) /\ now \in Nat
    BY DEF RsInv, RsTypes
  <2> QED
    BY <2>1, SlackIs, ResolveAssumption DEF WaitOK, Works, RsPlaces
<1> QED
  BY <1>1, <1>2, <1>3, PTL DEF RsSpec

-----------------------------------------------------------------------------
(***************************************************************************)
(* Resolver.  OneLeader and NobodyStranded need each other: a follower is  *)
(* told because the entry that it followed was its leader's.  That answers *)
(* of an old server end is inductive once the time that a query and an     *)
(* entry have left is counted with the time since the server was set.      *)
(***************************************************************************)
RvPcs == {"out", "look", "enter", "wait", "bind", "udp", "tcp", "room", "insert", "send", "leave", "drop"}
Outcomes == Upstreams \cup {"none", "closed", "timeout", "notfound", "other"}
Calls == [pc : RvPcs, name : Names, left : Nat, lead : Callers \cup {NoOne}, srv : Upstreams \cup {NoOne},
          sent : Nat, age : Nat, ttl : Nat, res : Outcomes]

RvTypes ==
  /\ upstream \in Upstreams /\ sinceSet \in Nat
  /\ cached \in [Names -> [from : Upstreams \cup {NoOne}, ttl : Nat]]
  /\ leaders \in [Names -> Callers \cup {NoOne}]
  /\ call \in [Callers -> Calls]

\* A task that asks a server which is no longer set will not do so for long, and what a
\* leader has found is of the server that it asked.
CallOK(k) ==
  /\ k.left <= Patience
  /\ k.srv = upstream \/ k.srv = NoOne \/ sinceSet + k.left <= Patience
  /\ k.pc \in {"out", "look", "enter", "wait", "bind"} => k.srv = NoOne
  /\ k.pc \in {"udp", "tcp", "room", "insert"} => k.srv \in Upstreams
  /\ k.pc \in {"room", "insert"} => k.res \in Upstreams
  /\ k.pc \in {"room", "insert", "send", "leave"} => k.res # "none" /\ (k.res \in Upstreams => k.res = k.srv)
  /\ k.pc = "wait" /\ k.res \in Upstreams \ {upstream} => sinceSet <= Patience

EntryOK(e) ==
  /\ e.ttl <= TtlMax
  /\ e.from # NoOne /\ e.ttl > 0 /\ e.from # upstream => sinceSet + e.ttl <= Patience + TtlMax

RvInv ==
  /\ RvTypes
  /\ \A c \in Callers : CallOK(call[c])
  /\ \A n \in Names : EntryOK(cached[n])
  /\ OneLeader /\ NobodyStranded

Owning == (Leading \ {"leave"}) \cup {"drop"}
\* What a follower that was told nothing needs of its leader
LedBy(k, l) == l \in Callers /\ NameOf(l) = k.name /\ call[l].pc \in Owning

LEMMA CallPlaces ==
  /\ Leading = {"bind", "room", "insert", "udp", "tcp", "send", "leave"}
  /\ Owning = {"bind", "room", "insert", "udp", "tcp", "send", "drop"}
  /\ Awaiting = {"udp", "tcp"}
  BY DEF Leading, Owning, Awaiting, Telling

\* A task writes its record, and nothing else changes.
LEMMA CallWritten ==
  ASSUME RvInv, NEW c \in Callers, NEW r \in Calls, Becomes(c, r)
  PROVE  /\ call' \in [Callers -> Calls] /\ call'[c] = r
         /\ \A f \in Callers : f # c => call'[f] = call[f]
  BY DEF RvInv, RvTypes, Becomes

LEMMA OneWrites ==
  ASSUME RvInv, NEW c \in Callers, NEW r \in Calls, Becomes(c, r),
         UNCHANGED <<upstream, sinceSet, leaders>>,
         cached' \in [Names -> [from : Upstreams \cup {NoOne}, ttl : Nat]],
         \A n \in Names : EntryOK(cached'[n]),
         CallOK(r),
         r.pc \in Leading <=> call[c].pc \in Leading,
         call[c].pc \in Leading \cup {"drop"} => r.name = call[c].name,
         call[c].pc \in Owning => r.pc \in Owning,
         r.pc = "wait" /\ r.res = "none" => r.lead # c /\ LedBy(r, r.lead)
  PROVE  RvInv'
<1>1. /\ call' \in [Callers -> Calls] /\ call'[c] = r
      /\ \A f \in Callers : f # c => call'[f] = call[f]
  BY CallWritten
<1>2. \A f \in Callers : CallOK(call[f])'
  BY <1>1 DEF RvInv, CallOK
<1>3. \A n \in Names : EntryOK(cached[n])'
  BY DEF EntryOK
<1>4. OneLeader'
  <2>1. ASSUME NEW f \in Callers, call'[f].pc \in Leading
        PROVE  leaders'[call'[f].name] = f
    BY <1>1, <2>1 DEF RvInv, OneLeader, NameOf
  <2>2. ASSUME NEW n \in Names, leaders'[n] # NoOne
        PROVE  leaders'[n] \in Callers /\ call'[leaders'[n]].pc \in Leading /\ call'[leaders'[n]].name = n
    <3>1. leaders[n] \in Callers /\ call[leaders[n]].pc \in Leading /\ call[leaders[n]].name = n
      BY <2>2 DEF RvInv, OneLeader, NameOf
    <3> QED
      BY <1>1, <3>1
  <2> QED
    BY <2>1, <2>2 DEF OneLeader, NameOf
<1>5. NobodyStranded'
  <2>1. ASSUME NEW f \in Callers, call'[f].pc = "wait", call'[f].res = "none"
        PROVE  LET l == call'[f].lead
               IN  l \in Callers /\ call'[l].name = call'[f].name /\ call'[l].pc \in Owning
    <3>1. CASE f = c
      BY <1>1, <2>1, <3>1 DEF LedBy, NameOf
    <3>2. CASE f # c
      <4> DEFINE l == call[f].lead
      <4>1. l \in Callers /\ call[l].name = call[f].name /\ call[l].pc \in Owning
        BY <1>1, <2>1, <3>2 DEF RvInv, NobodyStranded, NameOf, Doing, Owning
      <4>2. CASE l # c
        BY <1>1, <3>2, <4>1, <4>2
      <4>3. CASE l = c
        <5>1. r.pc \in Owning
          BY <4>1, <4>3
        <5>2. call[c].pc = "drop" => r.pc = "drop"
          BY <5>1, CallPlaces
        <5>3. r.name = call[c].name
          BY <4>1, <4>3, CallPlaces
        <5> QED
          BY <1>1, <3>2, <4>1, <4>3, <5>1, <5>3
      <4> QED
        BY <4>2, <4>3
    <3> QED
      BY <3>1, <3>2
  <2> QED
    BY <2>1 DEF NobodyStranded, NameOf, Doing, Owning
<1> QED
  BY <1>1, <1>2, <1>3, <1>4, <1>5 DEF RvInv, RvTypes

LEMMA OutsideOK ==
  ASSUME RvInv
  PROVE  /\ Outside \in Calls /\ Outside.pc = "out" /\ Outside.srv = NoOne /\ Outside.left = 0
         /\ Outside.res = "none" /\ CallOK(Outside)
<1>1. Outside.name \in Names
  BY ResolverAssumption DEF Outside
<1>2. Outside \in Calls
  BY <1>1 DEF Outside, Calls, RvPcs, Outcomes
<1>3. Outside.pc = "out" /\ Outside.srv = NoOne /\ Outside.left = 0 /\ Outside.res = "none"
  BY DEF Outside
<1> QED
  BY <1>2, <1>3, ResolverAssumption DEF CallOK

\* What stays of the cache when no answer is put there
LEMMA CacheKept ==
  ASSUME RvInv, UNCHANGED cached
  PROVE  /\ cached' \in [Names -> [from : Upstreams \cup {NoOne}, ttl : Nat]]
         /\ \A n \in Names : EntryOK(cached'[n])
  BY DEF RvInv, RvTypes

\* A call begins, or ends without having led.
LEMMA EntersOrLeaves ==
  ASSUME RvInv, NEW c \in Callers,
         \/ \E n \in Names : Resolves(c, n)
         \/ Looks(c) \/ FollowerReturns(c) \/ FollowerRetries(c)
  PROVE  RvInv'
<1>1. call[c] \in Calls /\ CallOK(call[c])
  BY DEF RvInv, RvTypes
<1>2. UNCHANGED <<upstream, sinceSet, cached, leaders>> /\ call[c].pc \in {"out", "look", "wait"}
  BY DEF Resolves, Looks, FollowerReturns, FollowerRetries, Doing
<1>3. ASSUME NEW r \in Calls, Becomes(c, r), CallOK(r), r.pc \in {"out", "look", "enter"}
      PROVE  RvInv'
  BY <1>2, <1>3, CacheKept, OneWrites, CallPlaces
<1>4. ASSUME NEW n \in Names, NEW left \in Nat, left <= Patience,
             Becomes(c, [Outside EXCEPT !.pc = "look", !.name = n, !.left = left])
      PROVE  RvInv'
  <2> DEFINE r == [Outside EXCEPT !.pc = "look", !.name = n, !.left = left]
  <2>1. r \in Calls /\ r.pc = "look" /\ r.left = left /\ r.srv = NoOne
    BY OutsideOK DEF Calls, RvPcs
  <2> HIDE DEF r
  <2>2. CallOK(r)
    BY <1>4, <2>1, ResolverAssumption DEF CallOK
  <2> QED
    BY <1>3, <1>4, <2>1, <2>2 DEF r
<1>5. CASE Becomes(c, Outside)
  BY <1>3, <1>5, OutsideOK
<1>6. CASE \E n \in Names : Resolves(c, n)
  <2>1. Patience \in Nat /\ Patience <= Patience
    BY ResolverAssumption
  <2> QED
    BY <1>4, <1>6, <2>1 DEF Resolves
<1>7. CASE Looks(c)
  <2>1. CASE Turns(c, "enter")
    <3> DEFINE r == [call[c] EXCEPT !.pc = "enter"]
    <3>1. r \in Calls /\ r.pc = "enter" /\ r.left = call[c].left /\ r.srv = call[c].srv
      BY <1>1 DEF Calls, RvPcs
    <3>2. Becomes(c, r) /\ call[c].pc = "look"
      BY <1>7, <2>1 DEF Turns, Looks, Doing
    <3> HIDE DEF r
    <3>3. CallOK(r)
      BY <1>1, <3>1, <3>2 DEF CallOK
    <3> QED
      BY <1>3, <3>1, <3>2, <3>3
  <2> QED
    BY <1>5, <1>7, <2>1 DEF Looks
<1>8. CASE FollowerReturns(c)
  BY <1>5, <1>8 DEF FollowerReturns
<1>9. CASE FollowerRetries(c)
  <2>1. call[c].name \in Names /\ call[c].left \in Nat /\ call[c].left <= Patience
    BY <1>1 DEF Calls, CallOK
  <2> QED
    BY <1>4, <1>9, <2>1 DEF FollowerRetries, NameOf
<1> QED
  BY <1>6, <1>7, <1>8, <1>9

\* A task follows another: it is told at once what was told already.
LEMMA FollowsKeeps ==
  ASSUME RvInv, NEW c \in Callers, Follows(c)
  PROVE  RvInv'
<1> DEFINE l == leaders[call[c].name]
           res == IF Doing(l, "leave") THEN call[l].res ELSE "none"
           r == [call[c] EXCEPT !.pc = "wait", !.lead = l, !.res = res]
<1>1. call[c] \in Calls /\ CallOK(call[c]) /\ call[c].pc = "enter" /\ call[c].name \in Names
  BY DEF RvInv, RvTypes, Calls, Follows, Doing
<1>2. l \in Callers /\ call[l].pc \in Leading /\ call[l].name = call[c].name
  BY <1>1 DEF RvInv, OneLeader, Follows, NameOf
<1>3. call[l] \in Calls /\ CallOK(call[l])
  BY <1>2 DEF RvInv, RvTypes
<1>4. Becomes(c, r) /\ UNCHANGED <<upstream, sinceSet, cached, leaders>>
  BY DEF Follows, NameOf
<1>5. res \in Outcomes
  BY <1>3 DEF Calls, Outcomes
<1>6. /\ res = "none" => call[l].pc # "leave"
      /\ res \in Upstreams \ {upstream} => sinceSet <= Patience
  <2>1. CASE call[l].pc = "leave"
    <3>1. res = call[l].res /\ call[l].left \in Nat /\ call[l].srv \in Upstreams \cup {NoOne}
      BY <1>3, <2>1 DEF Doing, Calls
    <3>2. sinceSet \in Nat
      BY DEF RvInv, RvTypes
    <3> QED
      BY <1>3, <2>1, <3>1, <3>2, ResolverAssumption DEF CallOK
  <2>2. CASE call[l].pc # "leave"
    BY <2>2, ResolverAssumption DEF Doing
  <2> QED
    BY <2>1, <2>2
<1>7. l # c
  BY <1>1, <1>2, CallPlaces
<1> HIDE DEF res, l
<1>8. r \in Calls /\ r.pc = "wait" /\ r.lead = l /\ r.res = res /\ r.name = call[c].name /\ r.left = call[c].left /\ r.srv = call[c].srv
  BY <1>1, <1>2, <1>5 DEF Calls, RvPcs
<1> HIDE DEF r
<1>9. CallOK(r)
  BY <1>1, <1>6, <1>8 DEF CallOK
<1>10. res = "none" => LedBy(r, l)
  BY <1>2, <1>6, <1>8, CallPlaces DEF LedBy, NameOf
<1> QED
  BY <1>1, <1>4, <1>7, <1>8, <1>9, <1>10, CacheKept, OneWrites, CallPlaces

\* The leader asks, and asks again, ...
LEMMA AsksKeeps ==
  ASSUME RvInv, NEW c \in Callers, Queries(c) \/ Resends(c) \/ Truncated(c)
  PROVE  RvInv'
<1>1. call[c] \in Calls /\ CallOK(call[c]) /\ call[c].pc \in {"bind", "udp"}
  BY DEF RvInv, RvTypes, Queries, Resends, Truncated, Doing
<1>2. UNCHANGED <<upstream, sinceSet, cached, leaders>> /\ upstream \in Upstreams
  BY DEF Queries, Resends, Truncated, RvInv, RvTypes
<1>3. ASSUME NEW r \in Calls, Becomes(c, r), CallOK(r), r.pc \in {"udp", "tcp"}, r.name = call[c].name
      PROVE  RvInv'
  BY <1>1, <1>2, <1>3, CacheKept, OneWrites, CallPlaces
<1>4. CASE Queries(c)
  <2> DEFINE r == [call[c] EXCEPT !.pc = "udp", !.srv = upstream, !.sent = 1, !.age = 0]
  <2>1. r \in Calls /\ r.pc = "udp" /\ r.name = call[c].name /\ r.left = call[c].left /\ r.srv = upstream
    BY <1>1, <1>2 DEF Calls, RvPcs
  <2>2. Becomes(c, r)
    BY <1>4 DEF Queries
  <2> HIDE DEF r
  <2>3. CallOK(r)
    BY <1>1, <1>2, <2>1 DEF CallOK
  <2> QED
    BY <1>3, <2>1, <2>2, <2>3
<1>5. CASE Resends(c)
  <2> DEFINE r == [call[c] EXCEPT !.sent = @ + 1]
  <2>1. /\ r \in Calls /\ r.pc = call[c].pc /\ r.name = call[c].name /\ r.left = call[c].left
        /\ r.srv = call[c].srv /\ r.res = call[c].res
    BY <1>1 DEF Calls
  <2>2. Becomes(c, r) /\ call[c].pc = "udp"
    BY <1>5 DEF Resends, Doing
  <2> HIDE DEF r
  <2>3. CallOK(r)
    BY <1>1, <2>1, <2>2 DEF CallOK
  <2> QED
    BY <1>3, <2>1, <2>2, <2>3
<1>6. CASE Truncated(c)
  <2> DEFINE r == [call[c] EXCEPT !.pc = "tcp"]
  <2>1. r \in Calls /\ r.pc = "tcp" /\ r.name = call[c].name /\ r.left = call[c].left /\ r.srv = call[c].srv
    BY <1>1 DEF Calls, RvPcs
  <2>2. Becomes(c, r) /\ call[c].pc = "udp"
    BY <1>6 DEF Truncated, Turns, Doing
  <2> HIDE DEF r
  <2>3. CallOK(r)
    BY <1>1, <2>1, <2>2 DEF CallOK
  <2> QED
    BY <1>3, <2>1, <2>2, <2>3
<1> QED
  BY <1>4, <1>5, <1>6

\* ... has an answer or none, ...
LEMMA AnswerKeeps ==
  ASSUME RvInv, NEW c \in Callers,
         \/ \E ttl \in Ttls : Answered(c, ttl)
         \/ \E kind \in {"notfound", "other"} : Refused(c, kind)
         \/ TimesOut(c)
  PROVE  RvInv'
<1>1. call[c] \in Calls /\ CallOK(call[c]) /\ call[c].pc \in {"udp", "tcp"}
  BY CallPlaces DEF RvInv, RvTypes, Answered, Refused, TimesOut
<1>2. UNCHANGED <<upstream, sinceSet, cached, leaders>>
  BY DEF Answered, Refused, TimesOut
<1>3. ASSUME NEW r \in Calls, Becomes(c, r), CallOK(r), r.pc \in {"room", "send"}, r.name = call[c].name
      PROVE  RvInv'
  BY <1>1, <1>2, <1>3, CacheKept, OneWrites, CallPlaces
<1>4. ASSUME NEW ttl \in Ttls, Answered(c, ttl)
      PROVE  RvInv'
  <2> DEFINE r == [call[c] EXCEPT !.pc = "room", !.res = call[c].srv, !.ttl = ttl]
  <2>0. call[c].srv \in Upstreams /\ call[c].srv \in Outcomes /\ ttl \in Nat /\ call[c].srv # "none"
    BY <1>1, ResolverAssumption DEF CallOK, Outcomes
  <2>1. /\ r \in Calls /\ r.pc = "room" /\ r.name = call[c].name /\ r.left = call[c].left
        /\ r.srv = call[c].srv /\ r.res = call[c].srv
    BY <1>1, <2>0 DEF Calls, RvPcs
  <2>2. Becomes(c, r)
    BY <1>4 DEF Answered
  <2> HIDE DEF r
  <2>3. CallOK(r)
    BY <1>1, <2>0, <2>1 DEF CallOK
  <2> QED
    BY <1>3, <2>1, <2>2, <2>3
<1>5. ASSUME NEW kind \in {"notfound", "other", "timeout"}, Becomes(c, [call[c] EXCEPT !.pc = "send", !.res = kind])
      PROVE  RvInv'
  <2> DEFINE r == [call[c] EXCEPT !.pc = "send", !.res = kind]
  <2>0. kind \in Outcomes /\ kind \notin Upstreams /\ kind # "none"
    BY ResolverAssumption DEF Outcomes
  <2>1. /\ r \in Calls /\ r.pc = "send" /\ r.name = call[c].name /\ r.left = call[c].left
        /\ r.srv = call[c].srv /\ r.res = kind
    BY <1>1, <2>0 DEF Calls, RvPcs
  <2>2. Becomes(c, r)
    BY <1>5
  <2> HIDE DEF r
  <2>3. CallOK(r)
    BY <1>1, <2>0, <2>1 DEF CallOK
  <2> QED
    BY <1>3, <2>1, <2>2, <2>3
<1> QED
  BY <1>4, <1>5 DEF Refused, TimesOut

\* ... has it kept, if there is room, ...
LEMMA KeepsKeeps ==
  ASSUME RvInv, NEW c \in Callers, MakesRoom(c) \/ Inserts(c)
  PROVE  RvInv'
<1>1. call[c] \in Calls /\ CallOK(call[c]) /\ call[c].pc \in {"room", "insert"}
  BY DEF RvInv, RvTypes, MakesRoom, Inserts, Doing
<1>2. UNCHANGED <<upstream, sinceSet, leaders>> /\ upstream \in Upstreams /\ sinceSet \in Nat
  BY DEF RvInv, RvTypes, MakesRoom, Inserts
<1>3. PICK pc \in {"insert", "send"} : Turns(c, pc) /\ (pc = "insert" => call[c].pc = "room")
  BY DEF MakesRoom, Inserts, Doing
<1> DEFINE r == [call[c] EXCEPT !.pc = pc]
<1>4. /\ r \in Calls /\ r.pc = pc /\ r.name = call[c].name /\ r.left = call[c].left
      /\ r.srv = call[c].srv /\ r.res = call[c].res
  BY <1>1 DEF Calls, RvPcs
<1>5. Becomes(c, r)
  BY <1>3 DEF Turns
<1> HIDE DEF r
<1>6. CallOK(r)
  BY <1>1, <1>3, <1>4 DEF CallOK
<1>7. /\ cached' \in [Names -> [from : Upstreams \cup {NoOne}, ttl : Nat]]
      /\ \A n \in Names : EntryOK(cached'[n])
  <2>0. cached \in [Names -> [from : Upstreams \cup {NoOne}, ttl : Nat]] /\ \A n \in Names : EntryOK(cached[n])
    BY DEF RvInv, RvTypes
  <2>1. CASE UNCHANGED cached
    BY <2>0, <2>1
  <2>2. CASE cached' = Purged
    <3>1. NoEntry \in [from : Upstreams \cup {NoOne}, ttl : Nat] /\ EntryOK(NoEntry)
      BY ResolverAssumption DEF NoEntry, EntryOK
    <3>2. \A n \in Names : cached'[n] = cached[n] \/ cached'[n] = NoEntry
      BY <2>2 DEF Purged
    <3>3. cached' \in [Names -> [from : Upstreams \cup {NoOne}, ttl : Nat]]
      BY <2>0, <2>2, <3>1 DEF Purged
    <3> QED
      BY <2>0, <3>1, <3>2, <3>3
  <2>3. CASE Inserts(c)
    <3> DEFINE ttl == Clamped(call[c].ttl)
               e == [from |-> call[c].srv, ttl |-> ttl]
    <3>1. ttl \in Nat /\ ttl <= TtlMax
      BY <1>1, ResolverAssumption DEF Clamped, Calls
    <3>2. call[c].srv \in Upstreams /\ call[c].left \in Nat
      BY <1>1 DEF CallOK, Calls
    <3>3. cached' = [cached EXCEPT ![call[c].name] = e]
      BY <2>3 DEF Inserts, NameOf
    <3> HIDE DEF ttl
    <3>4. e \in [from : Upstreams \cup {NoOne}, ttl : Nat] /\ e.from = call[c].srv /\ e.ttl = ttl
      BY <3>1, <3>2
    <3> HIDE DEF e
    <3>5. EntryOK(e)
      <4>1. call[c].srv = upstream \/ sinceSet <= Patience
        BY <1>1, <1>2, <3>2, ResolverAssumption DEF CallOK
      <4> QED
        BY <1>2, <3>1, <3>4, <4>1, ResolverAssumption DEF EntryOK
    <3>6. \A n \in Names : cached'[n] = cached[n] \/ cached'[n] = e
      BY <2>0, <3>3
    <3>7. cached' \in [Names -> [from : Upstreams \cup {NoOne}, ttl : Nat]]
      BY <2>0, <3>3, <3>4
    <3> QED
      BY <2>0, <3>5, <3>6, <3>7
  <2> QED
    BY <2>1, <2>2, <2>3 DEF MakesRoom
<1> QED
  BY <1>1, <1>2, <1>3, <1>4, <1>5, <1>6, <1>7, OneWrites, CallPlaces

\* ... tells its followers, ...
LEMMA TellsKeeps ==
  ASSUME RvInv, NEW c \in Callers, Tells(c)
  PROVE  RvInv'
<1> DEFINE r == [call[c] EXCEPT !.pc = "leave"]
           told(f) == [call[f] EXCEPT !.res = call[c].res]
<1>1. call[c] \in Calls /\ CallOK(call[c]) /\ call[c].pc = "send" /\ call[c].res \in Outcomes
  BY DEF RvInv, RvTypes, Tells, Doing, Calls
<1>2. /\ r \in Calls /\ r.pc = "leave" /\ r.name = call[c].name /\ r.left = call[c].left
      /\ r.srv = call[c].srv /\ r.res = call[c].res
  BY <1>1 DEF Calls, RvPcs
<1>3. ASSUME NEW f \in Callers
      PROVE  /\ told(f) \in Calls /\ told(f).pc = call[f].pc /\ told(f).name = call[f].name
             /\ told(f).left = call[f].left /\ told(f).srv = call[f].srv /\ told(f).res = call[c].res
             /\ told(f).lead = call[f].lead
  <2>1. call[f] \in Calls
    BY DEF RvInv, RvTypes
  <2> QED
    BY <1>1, <2>1 DEF Calls
<1>4. /\ call' = [f \in Callers |-> IF f = c THEN r ELSE IF f \in FollowersOf(c) THEN told(f) ELSE call[f]]
      /\ UNCHANGED <<upstream, sinceSet, cached, leaders>>
  BY DEF Tells
<1> HIDE DEF r, told
<1>5. c \notin FollowersOf(c)
  BY <1>1 DEF FollowersOf, Doing
<1>6. call' \in [Callers -> Calls]
  BY <1>2, <1>3, <1>4 DEF RvInv, RvTypes
<1>7. ASSUME NEW f \in Callers
      PROVE  /\ call'[f].name = call[f].name /\ call'[f].left = call[f].left /\ call'[f].srv = call[f].srv
             /\ call'[f].pc = IF f = c THEN "leave" ELSE call[f].pc
             /\ call'[f].res = IF f \in FollowersOf(c) THEN call[c].res ELSE call[f].res
             /\ f # c => call'[f].lead = call[f].lead
  BY <1>2, <1>3, <1>4, <1>5
<1>8. ASSUME NEW f \in Callers
      PROVE  CallOK(call[f])'
  <2>1. call[f] \in Calls /\ CallOK(call[f]) /\ sinceSet \in Nat /\ call[c].left \in Nat /\ call[f].left \in Nat
    BY <1>1 DEF RvInv, RvTypes, Calls
  <2>2. CASE f \in FollowersOf(c)
    <3>1. call[f].pc = "wait" /\ f # c
      BY <1>5, <2>2 DEF FollowersOf, Doing
    <3>2. call[c].res \in Upstreams \ {upstream} => sinceSet <= Patience
      BY <1>1, <2>1, ResolverAssumption DEF CallOK
    <3> QED
      BY <1>4, <1>7, <2>1, <2>2, <3>1, <3>2 DEF CallOK
  <2>3. CASE f = c
    BY <1>1, <1>4, <1>5, <1>7, <2>3 DEF CallOK
  <2>4. CASE f # c /\ f \notin FollowersOf(c)
    BY <1>4, <1>7, <2>1, <2>4 DEF CallOK
  <2> QED
    BY <2>2, <2>3, <2>4
<1>9. OneLeader'
  <2>1. \A f \in Callers : call'[f].pc \in Leading <=> call[f].pc \in Leading
    BY <1>1, <1>7, CallPlaces
  <2> QED
    BY <1>4, <1>7, <2>1 DEF RvInv, OneLeader, NameOf
<1>10. NobodyStranded'
  <2>1. call[c].res # "none"
    BY <1>1 DEF CallOK
  <2>2. ASSUME NEW f \in Callers, call'[f].pc = "wait", call'[f].res = "none"
        PROVE  LET l == call'[f].lead
               IN  l \in Callers /\ call'[l].name = call'[f].name /\ call'[l].pc \in Owning
    <3>1. f # c /\ f \notin FollowersOf(c) /\ call[f].pc = "wait" /\ call[f].res = "none" /\ call'[f].lead = call[f].lead
      BY <1>7, <2>1, <2>2
    <3>2. call[f].lead # c
      BY <3>1 DEF FollowersOf, Doing
    <3>3. call[f].lead \in Callers /\ call[call[f].lead].name = call[f].name /\ call[call[f].lead].pc \in Owning
      BY <3>1 DEF RvInv, NobodyStranded, NameOf, Doing, Owning
    <3> QED
      BY <1>7, <3>1, <3>2, <3>3
  <2> QED
    BY <2>2 DEF NobodyStranded, NameOf, Doing, Owning
<1>11. \A n \in Names : EntryOK(cached[n])'
  BY <1>4 DEF RvInv, EntryOK
<1> QED
  BY <1>4, <1>6, <1>8, <1>9, <1>10, <1>11 DEF RvInv, RvTypes

\* ... and gives up the entry that was its own; a task that is cancelled before does so
\* first, and its followers learn of it.
LEMMA LeadsKeeps ==
  ASSUME RvInv, NEW c \in Callers, Leads(c)
  PROVE  RvInv'
<1> DEFINE r == [call[c] EXCEPT !.pc = "bind"]
           m == call[c].name
<1>1. call[c] \in Calls /\ CallOK(call[c]) /\ call[c].pc = "enter" /\ m \in Names /\ leaders[m] = NoOne
  BY DEF RvInv, RvTypes, Calls, Leads, Doing, NameOf
<1>2. Becomes(c, r) /\ leaders' = [leaders EXCEPT ![m] = c] /\ UNCHANGED <<upstream, sinceSet, cached>>
  BY DEF Leads, Turns, NameOf
<1>3. r \in Calls /\ r.pc = "bind" /\ r.name = m /\ r.left = call[c].left /\ r.srv = call[c].srv
  BY <1>1 DEF Calls, RvPcs
<1> HIDE DEF r
<1>4. /\ call' \in [Callers -> Calls] /\ call'[c] = r
      /\ \A f \in Callers : f # c => call'[f] = call[f]
  BY <1>2, <1>3, CallWritten
<1>5. CallOK(r)
  BY <1>1, <1>3 DEF CallOK
<1>6. \A f \in Callers : CallOK(call[f])'
  BY <1>2, <1>4, <1>5 DEF RvInv, CallOK
<1>7. \A n \in Names : EntryOK(cached[n])'
  BY <1>2 DEF RvInv, EntryOK
<1>8. leaders' \in [Names -> Callers \cup {NoOne}] /\ leaders'[m] = c /\ \A n \in Names : n # m => leaders'[n] = leaders[n]
  BY <1>1, <1>2 DEF RvInv, RvTypes
<1>9. OneLeader'
  <2>1. ASSUME NEW f \in Callers, call'[f].pc \in Leading
        PROVE  leaders'[call'[f].name] = f
    <3>1. CASE f = c
      BY <1>3, <1>4, <1>8, <3>1
    <3>2. CASE f # c
      <4>1. leaders[call[f].name] = f /\ call[f].name \in Names /\ f # NoOne
        BY <1>4, <2>1, <3>2, ResolverAssumption DEF RvInv, OneLeader, RvTypes, Calls, NameOf
      <4> QED
        BY <1>1, <1>4, <1>8, <3>2, <4>1
    <3> QED
      BY <3>1, <3>2
  <2>2. ASSUME NEW n \in Names, leaders'[n] # NoOne
        PROVE  leaders'[n] \in Callers /\ call'[leaders'[n]].pc \in Leading /\ call'[leaders'[n]].name = n
    <3>1. CASE n = m
      BY <1>3, <1>4, <1>8, <3>1, CallPlaces
    <3>2. CASE n # m
      <4>1. leaders[n] \in Callers /\ call[leaders[n]].pc \in Leading /\ call[leaders[n]].name = n
        BY <1>8, <2>2, <3>2 DEF RvInv, OneLeader, NameOf
      <4> QED
        BY <1>4, <1>8, <3>2, <4>1
    <3> QED
      BY <3>1, <3>2
  <2> QED
    BY <2>1, <2>2 DEF OneLeader, NameOf
<1>10. NobodyStranded'
  <2>1. ASSUME NEW f \in Callers, call'[f].pc = "wait", call'[f].res = "none"
        PROVE  LET l == call'[f].lead
               IN  l \in Callers /\ call'[l].name = call'[f].name /\ call'[l].pc \in Owning
    <3>1. f # c /\ call'[f] = call[f]
      BY <1>3, <1>4, <2>1
    <3>2. call[f].lead \in Callers /\ call[call[f].lead].name = call[f].name /\ call[call[f].lead].pc \in Owning
      BY <2>1, <3>1 DEF RvInv, NobodyStranded, NameOf, Doing, Owning
    <3> QED
      BY <1>1, <1>3, <1>4, <3>1, <3>2, CallPlaces
  <2> QED
    BY <2>1 DEF NobodyStranded, NameOf, Doing, Owning
<1> QED
  BY <1>2, <1>4, <1>6, <1>7, <1>8, <1>9, <1>10 DEF RvInv, RvTypes

LEMMA DropsKeeps ==
  ASSUME RvInv, NEW c \in Callers, Leaves(c) \/ (call[c].pc \in Awaiting /\ Cancelled(c))
  PROVE  RvInv'
<1> DEFINE m == call[c].name
<1>1. /\ call[c] \in Calls /\ CallOK(call[c]) /\ call[c].pc \in {"udp", "tcp", "leave"} /\ m \in Names
      /\ leaders[m] = c
  BY CallPlaces DEF RvInv, RvTypes, Calls, Leaves, Doing, OneLeader, NameOf
<1>2. leaders' = [leaders EXCEPT ![m] = NoOne] /\ UNCHANGED <<upstream, sinceSet, cached>>
  BY CallPlaces DEF Leaves, Cancelled, GuardDrops, NameOf, Doing
<1>3. PICK r \in Calls : /\ Becomes(c, r) /\ CallOK(r) /\ r.pc \in {"out", "drop"}
                         /\ r.pc = "out" => call[c].pc = "leave"
                         /\ r.pc = "drop" => r.name = m
  <2>1. CASE Leaves(c)
    BY <2>1, OutsideOK DEF Leaves, Doing
  <2>2. CASE call[c].pc \in Awaiting /\ Cancelled(c)
    <3> DEFINE r == [call[c] EXCEPT !.pc = "drop"]
    <3>1. r \in Calls /\ r.pc = "drop" /\ r.name = m /\ r.left = call[c].left /\ r.srv = call[c].srv
      BY <1>1 DEF Calls, RvPcs
    <3>2. Becomes(c, r)
      BY <2>2, CallPlaces DEF Cancelled, Turns, Doing
    <3> HIDE DEF r
    <3>3. CallOK(r)
      BY <1>1, <3>1 DEF CallOK
    <3> QED
      BY <3>1, <3>2, <3>3
  <2> QED
    BY <2>1, <2>2
<1>4. /\ call' \in [Callers -> Calls] /\ call'[c] = r
      /\ \A f \in Callers : f # c => call'[f] = call[f]
  BY <1>3, CallWritten
<1>5. \A f \in Callers : CallOK(call[f])'
  BY <1>2, <1>3, <1>4 DEF RvInv, CallOK
<1>6. \A n \in Names : EntryOK(cached[n])'
  BY <1>2 DEF RvInv, EntryOK
<1>7. leaders' \in [Names -> Callers \cup {NoOne}] /\ leaders'[m] = NoOne /\ \A n \in Names : n # m => leaders'[n] = leaders[n]
  BY <1>1, <1>2 DEF RvInv, RvTypes
<1>8. OneLeader'
  <2>1. ASSUME NEW f \in Callers, call'[f].pc \in Leading
        PROVE  leaders'[call'[f].name] = f
    <3>1. f # c
      BY <1>3, <1>4, <2>1, CallPlaces
    <3>2. leaders[call[f].name] = f /\ call[f].name \in Names
      BY <1>4, <2>1, <3>1 DEF RvInv, OneLeader, RvTypes, Calls, NameOf
    <3> QED
      BY <1>1, <1>4, <1>7, <3>1, <3>2
  <2>2. ASSUME NEW n \in Names, leaders'[n] # NoOne
        PROVE  leaders'[n] \in Callers /\ call'[leaders'[n]].pc \in Leading /\ call'[leaders'[n]].name = n
    <3>1. n # m
      BY <1>7, <2>2
    <3>2. leaders[n] \in Callers /\ call[leaders[n]].pc \in Leading /\ call[leaders[n]].name = n
      BY <1>7, <2>2, <3>1 DEF RvInv, OneLeader, NameOf
    <3>3. leaders[n] # c
      BY <3>1, <3>2
    <3> QED
      BY <1>4, <1>7, <3>1, <3>2, <3>3
  <2> QED
    BY <2>1, <2>2 DEF OneLeader, NameOf
<1>9. NobodyStranded'
  <2>1. ASSUME NEW f \in Callers, call'[f].pc = "wait", call'[f].res = "none"
        PROVE  LET l == call'[f].lead
               IN  l \in Callers /\ call'[l].name = call'[f].name /\ call'[l].pc \in Owning
    <3>1. f # c /\ call'[f] = call[f]
      BY <1>3, <1>4, <2>1
    <3>2. call[f].lead \in Callers /\ call[call[f].lead].name = call[f].name /\ call[call[f].lead].pc \in Owning
      BY <2>1, <3>1 DEF RvInv, NobodyStranded, NameOf, Doing, Owning
    <3>3. call[f].lead = c => r.pc = "drop" /\ r.name = m
      BY <1>3, <3>2, CallPlaces
    <3> QED
      BY <1>4, <3>1, <3>2, <3>3, CallPlaces
  <2> QED
    BY <2>1 DEF NobodyStranded, NameOf, Doing, Owning
<1> QED
  BY <1>2, <1>4, <1>5, <1>6, <1>7, <1>8, <1>9 DEF RvInv, RvTypes

LEMMA FollowerCancelled ==
  ASSUME RvInv, NEW c \in Callers, Cancelled(c), call[c].pc \notin Awaiting
  PROVE  RvInv'
<1>1. call[c].pc = "wait" /\ Becomes(c, Outside) /\ UNCHANGED <<upstream, sinceSet, cached, leaders>>
  BY DEF Cancelled, Doing
<1> QED
  BY <1>1, OutsideOK, CacheKept, OneWrites, CallPlaces

LEMMA SenderGoneKeeps ==
  ASSUME RvInv, NEW c \in Callers, SenderGone(c)
  PROVE  RvInv'
<1> DEFINE told(f) == [call[f] EXCEPT !.res = "closed"]
           r == Outside
<1>1. call[c] \in Calls /\ CallOK(call[c]) /\ call[c].pc = "drop"
  BY DEF RvInv, RvTypes, SenderGone, Doing
<1>2. r \in Calls /\ r.pc = "out" /\ CallOK(r)
  BY OutsideOK
<1>3. ASSUME NEW f \in Callers
      PROVE  /\ told(f) \in Calls /\ told(f).pc = call[f].pc /\ told(f).name = call[f].name
             /\ told(f).left = call[f].left /\ told(f).srv = call[f].srv /\ told(f).res = "closed"
             /\ told(f).lead = call[f].lead
  <2>1. call[f] \in Calls
    BY DEF RvInv, RvTypes
  <2> QED
    BY <2>1 DEF Calls, Outcomes
<1>4. /\ call' = [f \in Callers |-> IF f = c THEN r ELSE IF f \in FollowersOf(c) THEN told(f) ELSE call[f]]
      /\ UNCHANGED <<upstream, sinceSet, cached, leaders>>
  BY DEF SenderGone
<1> HIDE DEF r, told
<1>5. c \notin FollowersOf(c)
  BY <1>1 DEF FollowersOf, Doing
<1>6. call' \in [Callers -> Calls] /\ call'[c] = r
  BY <1>2, <1>3, <1>4 DEF RvInv, RvTypes
<1>7. ASSUME NEW f \in Callers, f # c
      PROVE  /\ call'[f].name = call[f].name /\ call'[f].left = call[f].left /\ call'[f].srv = call[f].srv
             /\ call'[f].pc = call[f].pc
             /\ call'[f].res = IF f \in FollowersOf(c) THEN "closed" ELSE call[f].res
             /\ call'[f].lead = call[f].lead
  BY <1>3, <1>4, <1>7
<1>8. ASSUME NEW f \in Callers
      PROVE  CallOK(call[f])'
  <2>1. CASE f = c
    BY <1>2, <1>4, <1>6, <2>1 DEF CallOK
  <2>2. CASE f # c
    <3>1. CallOK(call[f]) /\ (f \in FollowersOf(c) => call[f].pc = "wait")
      BY DEF RvInv, FollowersOf, Doing
    <3> QED
      BY <1>4, <1>7, <2>2, <3>1, ResolverAssumption DEF CallOK
  <2> QED
    BY <2>1, <2>2
<1>9. OneLeader'
  <2>1. call[c].pc \notin Leading /\ call'[c].pc \notin Leading
    BY <1>1, <1>2, <1>6, CallPlaces
  <2>2. ASSUME NEW f \in Callers, call'[f].pc \in Leading
        PROVE  leaders'[call'[f].name] = f
    BY <1>4, <1>7, <2>1, <2>2 DEF RvInv, OneLeader, NameOf
  <2>3. ASSUME NEW n \in Names, leaders'[n] # NoOne
        PROVE  leaders'[n] \in Callers /\ call'[leaders'[n]].pc \in Leading /\ call'[leaders'[n]].name = n
    <3>1. leaders[n] \in Callers /\ call[leaders[n]].pc \in Leading /\ call[leaders[n]].name = n
      BY <1>4, <2>3 DEF RvInv, OneLeader, NameOf
    <3> QED
      BY <1>4, <1>7, <2>1, <3>1
  <2> QED
    BY <2>2, <2>3 DEF OneLeader, NameOf
<1>10. NobodyStranded'
  <2>1. ASSUME NEW f \in Callers, call'[f].pc = "wait", call'[f].res = "none"
        PROVE  LET l == call'[f].lead
               IN  l \in Callers /\ call'[l].name = call'[f].name /\ call'[l].pc \in Owning
    <3>0. f # c
      BY <1>2, <1>6, <2>1
    <3>1. f \notin FollowersOf(c) /\ call[f].pc = "wait" /\ call[f].res = "none" /\ call'[f].lead = call[f].lead
      BY <1>7, <2>1, <3>0
    <3>2. call[f].lead # c
      BY <3>1 DEF FollowersOf, Doing
    <3>3. call[f].lead \in Callers /\ call[call[f].lead].name = call[f].name /\ call[call[f].lead].pc \in Owning
      BY <3>1 DEF RvInv, NobodyStranded, NameOf, Doing, Owning
    <3> QED
      BY <1>7, <3>0, <3>1, <3>2, <3>3
  <2> QED
    BY <2>1 DEF NobodyStranded, NameOf, Doing, Owning
<1>11. \A n \in Names : EntryOK(cached[n])'
  BY <1>4 DEF RvInv, EntryOK
<1> QED
  BY <1>4, <1>6, <1>8, <1>9, <1>10, <1>11 DEF RvInv, RvTypes

\* Another server is set: what is under way or kept is now of an old one, but still young.
LEMMA SetsServerKeeps ==
  ASSUME RvInv, NEW s \in Upstreams, SetsServer(s)
  PROVE  RvInv'
<1>1. upstream' = s /\ sinceSet' = 0 /\ UNCHANGED <<cached, leaders, call>>
  BY DEF SetsServer
<1>2. ASSUME NEW c \in Callers
      PROVE  CallOK(call[c])'
  <2>1. call[c].left \in Nat /\ CallOK(call[c])
    BY DEF RvInv, RvTypes, Calls
  <2> QED
    BY <1>1, <2>1, ResolverAssumption DEF CallOK
<1>3. ASSUME NEW n \in Names
      PROVE  EntryOK(cached[n])'
  <2>1. cached[n].ttl \in Nat /\ EntryOK(cached[n])
    BY DEF RvInv, RvTypes
  <2> QED
    BY <1>1, <2>1, ResolverAssumption DEF EntryOK
<1>4. OneLeader' /\ NobodyStranded'
  BY <1>1 DEF RvInv, OneLeader, NobodyStranded, NameOf, Doing
<1> QED
  BY <1>1, <1>2, <1>3, <1>4 DEF RvInv, RvTypes

LEMMA TicksKeep ==
  ASSUME RvInv, Ticks
  PROVE  RvInv'
<1> DEFINE later(c) == [call[c] EXCEPT !.left = Less(@), !.age = IF Doing(c, "udp") THEN @ + 1 ELSE @]
           older(n) == [cached[n] EXCEPT !.ttl = Less(@)]
<1>1. /\ sinceSet \in Nat /\ upstream \in Upstreams /\ UNCHANGED <<upstream, leaders>>
      /\ sinceSet' \in Nat /\ (sinceSet < Patience + TtlMax + 1 => sinceSet' = sinceSet + 1)
      /\ sinceSet' = sinceSet + 1 \/ sinceSet' = Patience + TtlMax + 1
  <2>1. sinceSet \in Nat /\ upstream \in Upstreams /\ UNCHANGED <<upstream, leaders>>
    BY DEF Ticks, RvInv, RvTypes
  <2>2. sinceSet' = IF sinceSet = Patience + TtlMax + 1 THEN Patience + TtlMax + 1 ELSE sinceSet + 1
    BY DEF Ticks, Long
  <2> QED
    BY <2>1, <2>2, ResolverAssumption
<1>2. call' = [c \in Callers |-> later(c)] /\ cached' = [n \in Names |-> older(n)]
  BY DEF Ticks
<1>3. ASSUME NEW c \in Callers
      PROVE  /\ later(c) \in Calls /\ later(c).pc = call[c].pc /\ later(c).name = call[c].name
             /\ later(c).srv = call[c].srv /\ later(c).res = call[c].res /\ later(c).lead = call[c].lead
             /\ later(c).left = Less(call[c].left)
  <2> DEFINE left == Less(call[c].left)
             age == IF Doing(c, "udp") THEN call[c].age + 1 ELSE call[c].age
  <2>1. call[c] \in Calls
    BY DEF RvInv, RvTypes
  <2>2. left \in Nat /\ age \in Nat
    BY <2>1 DEF Less, Calls
  <2>3. later(c) = [call[c] EXCEPT !.left = left, !.age = age]
    BY <2>1 DEF Calls
  <2> HIDE DEF left, age, later
  <2>4. later(c) \in Calls /\ later(c).pc = call[c].pc /\ later(c).name = call[c].name
             /\ later(c).srv = call[c].srv /\ later(c).res = call[c].res /\ later(c).lead = call[c].lead
             /\ later(c).left = left
    BY <2>1, <2>2, <2>3 DEF Calls
  <2> QED
    BY <2>4 DEF left
<1>4. ASSUME NEW n \in Names
      PROVE  /\ older(n) \in [from : Upstreams \cup {NoOne}, ttl : Nat]
             /\ older(n).from = cached[n].from /\ older(n).ttl = Less(cached[n].ttl)
  <2>1. cached[n] \in [from : Upstreams \cup {NoOne}, ttl : Nat]
    BY DEF RvInv, RvTypes
  <2>2. Less(cached[n].ttl) \in Nat
    BY <2>1 DEF Less
  <2> QED
    BY <2>1, <2>2
<1> HIDE DEF later, older
<1>5. ASSUME NEW c \in Callers
      PROVE  CallOK(call[c])'
  <2>1. CallOK(call[c]) /\ call[c].left \in Nat
    BY DEF RvInv, RvTypes, Calls
  <2>2. call[c].pc = "out" \/ (call[c].left > 0 /\ call[c].pc \in {"wait", "udp", "tcp"} /\ (call[c].pc = "wait" => call[c].res = "none"))
    BY DEF Ticks, Idling, Doing
  <2>3. Less(call[c].left) <= call[c].left /\ (call[c].left > 0 => Less(call[c].left) = call[c].left - 1) /\ Less(call[c].left) \in Nat
    BY <2>1 DEF Less
  <2>4. call'[c].pc = call[c].pc /\ call'[c].srv = call[c].srv /\ call'[c].res = call[c].res /\ call'[c].left = Less(call[c].left)
    BY <1>2, <1>3
  <2>5. call'[c].left <= Patience
    BY <2>1, <2>3, <2>4, ResolverAssumption DEF CallOK
  <2>6. call'[c].srv = upstream' \/ call'[c].srv = NoOne \/ sinceSet' + call'[c].left <= Patience
    <3>1. CASE call[c].srv = upstream \/ call[c].srv = NoOne
      BY <1>1, <2>4, <3>1
    <3>2. CASE call[c].srv # upstream /\ call[c].srv # NoOne
      <4>1. sinceSet + call[c].left <= Patience /\ call[c].left > 0
        BY <2>1, <2>2, <3>2 DEF CallOK
      <4> QED
        BY <1>1, <2>1, <2>3, <2>4, <4>1, ResolverAssumption
    <3> QED
      BY <3>1, <3>2
  <2>7. "none" \notin Upstreams
    BY ResolverAssumption
  <2> QED
    BY <2>1, <2>2, <2>4, <2>5, <2>6, <2>7 DEF CallOK
<1>6. ASSUME NEW n \in Names
      PROVE  EntryOK(cached[n])'
  <2>1. EntryOK(cached[n]) /\ cached[n].ttl \in Nat
    BY DEF RvInv, RvTypes
  <2>2. cached'[n].from = cached[n].from /\ cached'[n].ttl = Less(cached[n].ttl)
    BY <1>2, <1>4
  <2>3. (cached[n].ttl > 0 /\ cached'[n].ttl = cached[n].ttl - 1) \/ cached'[n].ttl = 0
    BY <2>1, <2>2 DEF Less
  <2> QED
    BY <1>1, <2>1, <2>2, <2>3, ResolverAssumption DEF EntryOK
<1>7. \A c \in Callers : call'[c].pc = call[c].pc /\ call'[c].name = call[c].name /\ call'[c].res = call[c].res /\ call'[c].lead = call[c].lead
  BY <1>2, <1>3
<1>8. OneLeader' /\ NobodyStranded'
  <2>1. OneLeader'
    BY <1>1, <1>7 DEF RvInv, OneLeader, NameOf
  <2>2. ASSUME NEW f \in Callers, call'[f].pc = "wait", call'[f].res = "none"
        PROVE  LET l == call'[f].lead
               IN  l \in Callers /\ call'[l].name = call'[f].name /\ call'[l].pc \in Owning
    <3>1. call[f].lead \in Callers /\ call[call[f].lead].name = call[f].name /\ call[call[f].lead].pc \in Owning
      BY <1>7, <2>2 DEF RvInv, NobodyStranded, NameOf, Doing, Owning
    <3> QED
      BY <1>7, <3>1
  <2> QED
    BY <2>1, <2>2 DEF NobodyStranded, NameOf, Doing, Owning
<1>9. call' \in [Callers -> Calls] /\ cached' \in [Names -> [from : Upstreams \cup {NoOne}, ttl : Nat]]
  BY <1>2, <1>3, <1>4
<1> QED
  BY <1>1, <1>5, <1>6, <1>8, <1>9 DEF RvInv, RvTypes

LEMMA RvInvHolds ==
  /\ RvInit => RvInv
  /\ RvInv /\ [RvNext]_rvVars => RvInv'
<1>1. ASSUME RvInit
      PROVE  RvInv
  <2>1. \A c \in Callers : call[c] = Outside
    BY <1>1 DEF RvInit
  <2>2. sinceSet \in Nat /\ NoEntry \in [from : Upstreams \cup {NoOne}, ttl : Nat] /\ EntryOK(NoEntry)
    BY <1>1, ResolverAssumption DEF RvInit, Long, NoEntry, EntryOK
  <2>3. Outside \in Calls /\ Outside.pc = "out" /\ CallOK(Outside)
    <3>1. Outside.name \in Names
      BY ResolverAssumption DEF Outside
    <3>2. Outside \in Calls
      BY <3>1 DEF Outside, Calls, RvPcs, Outcomes
    <3> QED
      BY <3>2, ResolverAssumption DEF CallOK, Outside
  <2>4. RvTypes
    BY <1>1, <2>2, <2>3 DEF RvInit, RvTypes
  <2>5. OneLeader /\ NobodyStranded
    BY <1>1, <2>1, <2>3, CallPlaces DEF RvInit, OneLeader, NobodyStranded, Doing
  <2> QED
    BY <1>1, <2>1, <2>2, <2>3, <2>4, <2>5 DEF RvInv, RvInit
<1>2. ASSUME RvInv, RvNext
      PROVE  RvInv'
  <2>1. CASE \E s \in Upstreams : SetsServer(s)
    BY <1>2, <2>1, SetsServerKeeps
  <2>2. CASE Ticks
    BY <1>2, <2>2, TicksKeep
  <2>3. ASSUME NEW c \in Callers, CallStep(c)
        PROVE  RvInv'
    <3>1. CASE Looks(c) \/ FollowerReturns(c) \/ FollowerRetries(c)
      BY <1>2, <3>1, EntersOrLeaves
    <3>2. CASE Leads(c)
      BY <1>2, <3>2, LeadsKeeps
    <3>3. CASE Follows(c)
      BY <1>2, <3>3, FollowsKeeps
    <3>4. CASE Queries(c) \/ Resends(c)
      BY <1>2, <3>4, AsksKeeps
    <3>5. CASE TimesOut(c)
      BY <1>2, <3>5, AnswerKeeps
    <3>6. CASE MakesRoom(c) \/ Inserts(c)
      BY <1>2, <3>6, KeepsKeeps
    <3>7. CASE Tells(c)
      BY <1>2, <3>7, TellsKeeps
    <3>8. CASE Leaves(c)
      BY <1>2, <3>8, DropsKeeps
    <3>9. CASE SenderGone(c)
      BY <1>2, <3>9, SenderGoneKeeps
    <3> QED
      BY <2>3, <3>1, <3>2, <3>3, <3>4, <3>5, <3>6, <3>7, <3>8, <3>9 DEF CallStep
  <2>4. ASSUME NEW c \in Callers, Truncated(c)
        PROVE  RvInv'
    BY <1>2, <2>4, AsksKeeps
  <2>5. ASSUME NEW c \in Callers, Cancelled(c)
        PROVE  RvInv'
    BY <1>2, <2>5, DropsKeeps, FollowerCancelled
  <2>6. ASSUME NEW c \in Callers, \E n \in Names : Resolves(c, n)
        PROVE  RvInv'
    BY <1>2, <2>6, EntersOrLeaves
  <2>7. ASSUME NEW c \in Callers,
               (\E ttl \in Ttls : Answered(c, ttl)) \/ (\E kind \in {"notfound", "other"} : Refused(c, kind))
        PROVE  RvInv'
    BY <1>2, <2>7, AnswerKeeps
  <2> QED
    BY <1>2, <2>1, <2>2, <2>3, <2>4, <2>5, <2>6, <2>7 DEF RvNext
<1>3. ASSUME RvInv, UNCHANGED rvVars
      PROVE  RvInv'
  BY <1>3 DEF RvInv, RvTypes, CallOK, EntryOK, OneLeader, NobodyStranded, NameOf, Doing, rvVars
<1> QED
  BY <1>1, <1>2, <1>3

-----------------------------------------------------------------------------
(* The cap of the cache *)

KeptIn(t) == {n \in Names : t[n].from # NoOne}
Inserting == {c \in Callers : Doing(c, "insert")}

\* Both are finite, and so the sum is a number.
LEMMA Counted ==
  /\ \A t : IsFiniteSet(KeptIn(t)) /\ Cardinality(KeptIn(t)) \in Nat /\ NumKept(t) = Cardinality(KeptIn(t))
  /\ IsFiniteSet(Inserting) /\ Cardinality(Inserting) \in Nat /\ Cardinality(Inserting) <= Cardinality(Callers)
  /\ Cardinality(Callers) \in Nat \ {0} /\ Inserting \subseteq Callers
<1>1. ASSUME NEW t
      PROVE  IsFiniteSet(KeptIn(t)) /\ Cardinality(KeptIn(t)) \in Nat /\ NumKept(t) = Cardinality(KeptIn(t))
  <2>1. KeptIn(t) \subseteq Names
    BY DEF KeptIn
  <2> QED
    BY <2>1, FS_Subset, FS_CardinalityType, ResolverAssumption DEF KeptIn, NumKept
<1>2. Inserting \subseteq Callers
  BY DEF Inserting
<1>3. IsFiniteSet(Inserting) /\ Cardinality(Inserting) \in Nat /\ Cardinality(Inserting) <= Cardinality(Callers)
  BY <1>2, FS_Subset, FS_CardinalityType, ResolverAssumption
<1>4. Cardinality(Callers) \in Nat /\ Cardinality(Callers) # 0
  BY FS_CardinalityType, FS_EmptySet, ResolverAssumption
<1> QED
  BY <1>1, <1>2, <1>3, <1>4

\* The sum grows when room was found, and then it was below the cap.
LEMMA CapKept ==
  ASSUME RvInv, SoftlyCapped, RvNext
  PROVE  SoftlyCapped'
<1> USE DEF Doing
<1>0. /\ IsFiniteSet(Inserting) /\ Cardinality(Inserting) \in Nat /\ Cardinality(Inserting) <= Cardinality(Callers)
      /\ Cardinality(Callers) \in Nat /\ Cardinality(Callers) > 0 /\ Inserting \subseteq Callers /\ SoftCap \in Nat
  BY Counted, ResolverAssumption
<1>1. /\ IsFiniteSet(KeptIn(cached)) /\ Cardinality(KeptIn(cached)) \in Nat
      /\ NumKept(cached) = Cardinality(KeptIn(cached))
  BY Counted
<1>2. /\ IsFiniteSet(KeptIn(cached')) /\ Cardinality(KeptIn(cached')) \in Nat
      /\ NumKept(cached') = Cardinality(KeptIn(cached'))
  BY Counted
<1>3. NumKept(cached) + Cardinality(Inserting) <= SoftCap + Cardinality(Callers) - 1
  BY DEF SoftlyCapped, Inserting
<1>4. ASSUME NumKept(cached') + Cardinality(Inserting') <= SoftCap + Cardinality(Callers) - 1
      PROVE  SoftlyCapped'
  BY <1>4 DEF SoftlyCapped, Inserting, NumKept
<1>5. call \in [Callers -> Calls] /\ cached \in [Names -> [from : Upstreams \cup {NoOne}, ttl : Nat]]
  BY DEF RvInv, RvTypes
<1>6. ASSUME KeptIn(cached') \subseteq KeptIn(cached), Inserting' \subseteq Inserting
      PROVE  SoftlyCapped'
  <2>1. Cardinality(KeptIn(cached')) <= Cardinality(KeptIn(cached))
    BY <1>1, <1>6, FS_Subset
  <2>2. Cardinality(Inserting') <= Cardinality(Inserting) /\ Cardinality(Inserting') \in Nat
    BY <1>0, <1>6, FS_Subset, FS_CardinalityType
  <2> QED
    BY <1>0, <1>1, <1>2, <1>3, <1>4, <2>1, <2>2
<1>7. ASSUME UNCHANGED cached, \A f \in Callers : call'[f].pc = "insert" => call[f].pc = "insert"
      PROVE  SoftlyCapped'
  <2>1. KeptIn(cached') \subseteq KeptIn(cached) /\ Inserting' \subseteq Inserting
    BY <1>7 DEF Inserting, KeptIn
  <2> QED
    BY <1>6, <2>1
<1>8. ASSUME NEW c \in Callers, NEW r, Becomes(c, r), r.pc # "insert", UNCHANGED cached
      PROVE  SoftlyCapped'
  <2>1. \A f \in Callers : call'[f] = IF f = c THEN r ELSE call[f]
    BY <1>5, <1>8 DEF Becomes
  <2> QED
    BY <1>7, <1>8, <2>1
<1>9. ASSUME NEW c \in Callers, NEW pc, Turns(c, pc), pc # "insert", UNCHANGED cached
      PROVE  SoftlyCapped'
  <2>1. [call[c] EXCEPT !.pc = pc].pc = pc
    BY <1>5 DEF Calls
  <2> QED
    BY <1>8, <1>9, <2>1 DEF Turns
<1>10. Outside.pc = "out"
  BY DEF Outside
<1>11. ASSUME NEW c \in Callers, \/ Looks(c) \/ FollowerReturns(c) \/ Leads(c) \/ Truncated(c) \/ Leaves(c) \/ Cancelled(c)
       PROVE  SoftlyCapped'
  BY <1>8, <1>9, <1>10, <1>11 DEF Looks, FollowerReturns, Leads, Truncated, Leaves, Cancelled
<1>12. ASSUME NEW c \in Callers, FollowerRetries(c) \/ \E n \in Names : Resolves(c, n)
       PROVE  SoftlyCapped'
  <2>1. ASSUME NEW n, NEW left
        PROVE  [Outside EXCEPT !.pc = "look", !.name = n, !.left = left].pc # "insert"
    BY DEF Outside
  <2> QED
    BY <1>8, <1>12, <2>1 DEF Resolves, FollowerRetries
<1>13. ASSUME NEW c \in Callers, Follows(c) \/ Queries(c)
       PROVE  SoftlyCapped'
  <2>1. ASSUME NEW l, NEW res
        PROVE  [call[c] EXCEPT !.pc = "wait", !.lead = l, !.res = res].pc # "insert"
    BY <1>5 DEF Calls
  <2>2. ASSUME NEW s
        PROVE  [call[c] EXCEPT !.pc = "udp", !.srv = s, !.sent = 1, !.age = 0].pc # "insert"
    BY <1>5 DEF Calls
  <2> QED
    BY <1>8, <1>13, <2>1, <2>2 DEF Follows, Queries
<1>14. ASSUME NEW c \in Callers, Resends(c)
       PROVE  SoftlyCapped'
  <2>1. [call[c] EXCEPT !.sent = @ + 1].pc = "udp"
    BY <1>5, <1>14 DEF Calls, Resends
  <2> QED
    BY <1>8, <1>14, <2>1 DEF Resends
<1>15. ASSUME NEW c \in Callers, TimesOut(c) \/ (\E ttl \in Ttls : Answered(c, ttl)) \/ \E kind \in {"notfound", "other"} : Refused(c, kind)
       PROVE  SoftlyCapped'
  <2>1. ASSUME NEW res, NEW ttl
        PROVE  [call[c] EXCEPT !.pc = "room", !.res = res, !.ttl = ttl].pc # "insert"
    BY <1>5 DEF Calls
  <2>2. ASSUME NEW res
        PROVE  [call[c] EXCEPT !.pc = "send", !.res = res].pc # "insert"
    BY <1>5 DEF Calls
  <2> QED
    BY <1>8, <1>15, <2>1, <2>2 DEF TimesOut, Answered, Refused
<1>16. ASSUME NEW c \in Callers, Tells(c) \/ SenderGone(c)
       PROVE  SoftlyCapped'
  <2>1. ASSUME NEW f \in Callers, NEW res
        PROVE  [call[f] EXCEPT !.res = res].pc = call[f].pc /\ [call[f] EXCEPT !.pc = "leave"].pc = "leave"
    BY <1>5 DEF Calls
  <2>2. \A f \in Callers : call'[f].pc = "insert" => call[f].pc = "insert"
    <3> DEFINE told(f, res) == [call[f] EXCEPT !.res = res]
               gone == [call[c] EXCEPT !.pc = "leave"]
    <3>1. gone.pc = "leave" /\ \A f \in Callers, res \in {call[c].res, "closed"} : told(f, res).pc = call[f].pc
      BY <2>1
    <3>2. \/ call' = [f \in Callers |-> IF f = c THEN gone ELSE IF f \in FollowersOf(c) THEN told(f, call[c].res) ELSE call[f]]
          \/ call' = [f \in Callers |-> IF f = c THEN Outside ELSE IF f \in FollowersOf(c) THEN told(f, "closed") ELSE call[f]]
      BY <1>16 DEF Tells, SenderGone
    <3> HIDE DEF told, gone
    <3> QED
      BY <1>10, <3>1, <3>2
  <2> QED
    BY <1>7, <1>16, <2>2 DEF Tells, SenderGone
<1>17. ASSUME NEW c \in Callers, MakesRoom(c)
       PROVE  SoftlyCapped'
  <2>1. \A f \in Callers : call'[f].pc = "insert" => f = c \/ call[f].pc = "insert"
    BY <1>5, <1>17 DEF MakesRoom, Turns, Becomes
  <2>2. KeptIn(cached') \subseteq KeptIn(cached)
    BY <1>17 DEF MakesRoom, KeptIn, Purged, NoEntry
  <2>3. CASE NumKept(cached') < SoftCap
    <3>1. Inserting' \subseteq Callers
      BY DEF Inserting
    <3>2. Cardinality(Inserting') <= Cardinality(Callers) /\ Cardinality(Inserting') \in Nat
      BY <3>1, FS_Subset, FS_CardinalityType, ResolverAssumption
    <3> QED
      BY <1>0, <1>2, <1>4, <2>3, <3>2
  <2>4. CASE ~(NumKept(cached') < SoftCap)
    <3>1. NumKept(cached') >= SoftCap
      BY <1>0, <1>2, <2>4
    <3>2. Turns(c, "send")
      BY <1>17, <3>1 DEF MakesRoom
    <3>3. call'[c].pc = "send"
      BY <1>5, <3>2 DEF Turns, Becomes, Calls
    <3>4. Inserting' \subseteq Inserting
      BY <2>1, <3>3 DEF Inserting
    <3> QED
      BY <1>6, <2>2, <3>4
  <2> QED
    BY <2>3, <2>4
<1>18. ASSUME NEW c \in Callers, Inserts(c)
       PROVE  SoftlyCapped'
  <2> DEFINE kept == KeptIn(cached) \cup {NameOf(c)}
  <2>1. call'[c].pc = "send" /\ \A f \in Callers : f # c => call'[f] = call[f]
    BY <1>5, <1>18 DEF Inserts, Turns, Becomes, Calls
  <2>2. Inserting' = Inserting \ {c} /\ c \in Inserting
    BY <1>18, <2>1 DEF Inserting, Inserts
  <2>3. Cardinality(Inserting') = Cardinality(Inserting) - 1
    BY <1>0, <2>2, FS_RemoveElement
  <2>4. KeptIn(cached') \subseteq kept
    BY <1>5, <1>18 DEF Inserts, KeptIn
  <2>5. IsFiniteSet(kept) /\ Cardinality(kept) <= Cardinality(KeptIn(cached)) + 1 /\ Cardinality(kept) \in Nat
    <3>1. IsFiniteSet(kept) /\ Cardinality(kept) = IF NameOf(c) \in KeptIn(cached) THEN Cardinality(KeptIn(cached)) ELSE Cardinality(KeptIn(cached)) + 1
      BY <1>1, FS_AddElement
    <3> QED
      BY <1>1, <3>1
  <2> HIDE DEF kept
  <2>6. Cardinality(KeptIn(cached')) <= Cardinality(kept)
    BY <2>4, <2>5, FS_Subset
  <2> QED
    BY <1>0, <1>1, <1>2, <1>3, <1>4, <2>3, <2>5, <2>6
<1>19. ASSUME Ticks
       PROVE  SoftlyCapped'
  <2>1. \A n \in Names : cached'[n].from = cached[n].from
    BY <1>5, <1>19 DEF Ticks
  <2>2. \A f \in Callers : call'[f].pc = call[f].pc
    BY <1>5, <1>19 DEF Ticks, Calls
  <2>3. KeptIn(cached') \subseteq KeptIn(cached) /\ Inserting' \subseteq Inserting
    BY <2>1, <2>2 DEF KeptIn, Inserting
  <2> QED
    BY <1>6, <2>3
<1>20. ASSUME \E s \in Upstreams : SetsServer(s)
       PROVE  SoftlyCapped'
  BY <1>7, <1>20 DEF SetsServer
<1> QED
  BY <1>11, <1>12, <1>13, <1>14, <1>15, <1>16, <1>17, <1>18, <1>19, <1>20 DEF RvNext, CallStep

\* What a resolver promises, for any callers, names, servers and limits
THEOREM ResolverStaysSafe == RvSpec => []ResolverSafe
<1>1. RvInit => RvInv /\ SoftlyCapped
  <2> SUFFICES ASSUME RvInit
               PROVE  RvInv /\ SoftlyCapped
    OBVIOUS
  <2>1. KeptIn(cached) = {} /\ Inserting = {}
    BY DEF RvInit, KeptIn, NoEntry, Inserting, Doing, Outside
  <2>2. NumKept(cached) = 0 /\ Cardinality(Inserting) = 0
    BY <2>1, Counted, FS_EmptySet
  <2> QED
    BY <2>2, Counted, RvInvHolds, ResolverAssumption DEF SoftlyCapped, Inserting
<1>2. RvInv /\ SoftlyCapped /\ [RvNext]_rvVars => (RvInv /\ SoftlyCapped)'
  <2>1. ASSUME SoftlyCapped, UNCHANGED rvVars
        PROVE  SoftlyCapped'
    BY <2>1 DEF SoftlyCapped, NumKept, Doing, rvVars
  <2> QED
    BY <2>1, CapKept, RvInvHolds
<1>3. RvInv /\ SoftlyCapped => ResolverSafe
  <2> SUFFICES ASSUME RvInv, SoftlyCapped
               PROVE  OldAnswersEnd
    BY DEF RvInv, ResolverSafe
  <2>1. \A n \in Names : CacheHit(n) /\ cached[n].from # upstream => sinceSet + cached[n].ttl <= Patience + TtlMax
    BY DEF RvInv, EntryOK, CacheHit, Held
  <2>2. \A c \in Callers : call[c].srv \in {NoOne, upstream} \/ sinceSet + call[c].left <= Patience
    BY DEF RvInv, CallOK
  <2>3. \A c \in Callers : Doing(c, "wait") /\ call[c].res \in Upstreams \ {upstream} => sinceSet <= Patience
    BY DEF RvInv, CallOK, Doing
  <2> QED
    BY <2>1, <2>2, <2>3 DEF OldAnswersEnd
<1> QED
  BY <1>1, <1>2, <1>3, PTL DEF RvSpec

-----------------------------------------------------------------------------
(***************************************************************************)
(* NodeWatch.  What the commands have read of clash lies behind them when  *)
(* they act on it.  The invariant says what their histories, of the nodes  *)
(* that answered all along, still have to do with what they read.          *)
(***************************************************************************)
Nodes == Outlets \cup {Direct}
CheckPcs == {"idle", "reach", "process", "lookup", "test", "group", "switch", "monitor", "grace"}
HealthChecks == [pc : CheckPcs, i : Nat \ {0}, seen : Nodes, left : Nat, best : Nodes,
                 rc : {"none", "broken", "wait", "ok", "sick"}, steady : SUBSET Outlets,
                 picked : SUBSET Nodes, fresh : BOOLEAN]
LoadPcs == {"idle", "reload", "up", "mark", "ready", "look", "after", "list", "ping", "mode", "select", "proxy", "kill"}
LoadsOfClash == [pc : LoadPcs, round : Nat, todo : SUBSET Outlets, got : SUBSET Nodes, looks : Nat,
                 absent : Nat, steady : SUBSET Outlets]
Daemons == [st : {"gone", "boot", "up"}, sock : BOOLEAN, young : SUBSET {"process", "marker"}]

NwTypes ==
  /\ daemon \in Daemons /\ answering \in SUBSET Outlets /\ busy \in BOOLEAN
  /\ check \in HealthChecks /\ load \in LoadsOfClash
  /\ chosen \in [GroupsOf \cup {Global} -> Nodes]

\* The group in hand is on the node it was looked up with, or on one the user chose since.
GroupIs(k, nodes) == k.pc \in {"test", "group", "switch"} =>
                       /\ k.i \in DOMAIN Watched
                       /\ nodes[Watched[k.i]] = k.seen \/ nodes[Watched[k.i]] \in k.picked

\* What the check holds of clash, its history included
CheckOK(k) ==
  /\ k.steady \subseteq answering /\ (k.steady # {} => Up)
  /\ k.pc \in {"group", "switch"} => k.seen \notin k.steady
  /\ k.fresh => Running /\ "process" \in daemon.young
  /\ k.rc = "sick" => ~k.fresh

\* A node that has answered since the round began was or will be found to.
LoadOK(k) ==
  /\ k.steady \subseteq answering /\ (k.steady # {} => Up /\ ~busy)
  /\ k.pc = "ping" => k.steady \subseteq k.todo \cup k.got
  /\ k.pc \in {"mode", "select", "proxy"} => k.steady \subseteq k.got
  /\ k.pc = "proxy" => k.got = {Direct}
  /\ k.pc = "kill" => k.steady = {}

NwInv == NwTypes /\ CheckOK(check) /\ GroupIs(check, chosen) /\ LoadOK(load)

-----------------------------------------------------------------------------
(* The health check *)

LEMMA CheckMoves ==
  ASSUME NwInv, NEW k \in HealthChecks, check' = k, CheckOK(k), GroupIs(k, chosen'),
         UNCHANGED <<daemon, answering, busy, load>>,
         chosen' \in [GroupsOf \cup {Global} -> Nodes]
  PROVE  NwInv'
  BY DEF NwInv, NwTypes, CheckOK, GroupIs, LoadOK, Up, Running

LEMMA NoCheckOK ==
  /\ NoCheck \in HealthChecks /\ NoCheck.picked = {} /\ NoCheck.steady = {} /\ NoCheck.pc = "idle" /\ ~NoCheck.fresh /\ NoCheck.rc = "none"
  BY DEF NoCheck, HealthChecks, CheckPcs, Nodes

\* Every record a step of the check makes of NoCheck
LEMMA Renewed ==
  ASSUME NwInv, NEW k \in HealthChecks, check' = k,
         k.steady = {}, k.pc \in {"idle", "reach", "lookup"},
         k.fresh => Running /\ "process" \in daemon.young,
         k.rc = "sick" => ~k.fresh,
         UNCHANGED <<daemon, answering, busy, load>>,
         chosen' \in [GroupsOf \cup {Global} -> Nodes]
  PROVE  NwInv'
<1>1. CheckOK(k) /\ GroupIs(k, chosen')
  BY DEF CheckOK, GroupIs
<1> QED
  BY <1>1, CheckMoves

LEMMA RuledKeeps ==
  ASSUME NwInv, NEW rc \in {"none", "broken", "wait", "ok", "sick"}, Ruled(rc), rc = "sick" => ~check.fresh
  PROVE  NwInv'
<1> DEFINE fresh == check.fresh
           k == [NoCheck EXCEPT !.rc = rc, !.fresh = fresh]
<1>1. /\ fresh \in BOOLEAN /\ (fresh => Running /\ "process" \in daemon.young)
      /\ chosen \in [GroupsOf \cup {Global} -> Nodes]
  BY DEF NwInv, NwTypes, HealthChecks, CheckOK
<1>2. rc = "sick" => ~fresh
  OBVIOUS
<1>3. check' = k /\ UNCHANGED <<daemon, answering, busy, load, chosen>>
  BY DEF Ruled, Checks, OthersOfCheck
<1> HIDE DEF fresh
<1>4. k \in HealthChecks /\ k.pc = "idle" /\ k.rc = rc /\ k.fresh = fresh /\ k.steady = {}
  BY <1>1, NoCheckOK DEF HealthChecks
<1> HIDE DEF k
<1> QED
  BY <1>1, <1>2, <1>3, <1>4, Renewed

LEMMA NextGroupKeeps ==
  ASSUME NwInv, check' = NextGroup, UNCHANGED <<daemon, answering, busy, load>>,
         chosen' \in [GroupsOf \cup {Global} -> Nodes]
  PROVE  NwInv'
<1> DEFINE fresh == check.fresh
           i == check.i + 1
           k == [NoCheck EXCEPT !.pc = "lookup", !.i = i, !.fresh = fresh]
<1>1. fresh \in BOOLEAN /\ (fresh => Running /\ "process" \in daemon.young) /\ i \in Nat \ {0}
  BY DEF NwInv, NwTypes, HealthChecks, CheckOK
<1>2. check' = k
  BY DEF NextGroup
<1> HIDE DEF fresh, i
<1>3. k \in HealthChecks /\ k.pc = "lookup" /\ k.rc = "none" /\ k.fresh = fresh /\ k.steady = {}
  BY <1>1, NoCheckOK DEF HealthChecks, CheckPcs
<1> HIDE DEF k
<1> QED
  BY <1>1, <1>2, <1>3, Renewed

LEMMA CheckStarting ==
  ASSUME NwInv, CheckStarts
  PROVE  NwInv'
<1>1. CASE Ruled("broken")
  BY <1>1, RuledKeeps
<1>2. CASE Checks([NoCheck EXCEPT !.pc = "reach", !.fresh = Running /\ "process" \in daemon.young])
  <2> DEFINE fresh == Running /\ "process" \in daemon.young
             k == [NoCheck EXCEPT !.pc = "reach", !.fresh = fresh]
  <2>1. check' = k /\ UNCHANGED <<daemon, answering, busy, load, chosen>>
    BY <1>2 DEF Checks, OthersOfCheck
  <2>2. fresh \in BOOLEAN /\ (fresh => Running /\ "process" \in daemon.young)
    OBVIOUS
  <2>3. chosen \in [GroupsOf \cup {Global} -> Nodes]
    BY DEF NwInv, NwTypes
  <2> HIDE DEF fresh
  <2>4. k \in HealthChecks /\ k.pc = "reach" /\ k.rc = "none" /\ k.fresh = fresh /\ k.steady = {}
    BY <2>2, NoCheckOK DEF HealthChecks, CheckPcs
  <2> HIDE DEF k
  <2> QED
    BY <2>1, <2>2, <2>3, <2>4, Renewed
<1> QED
  BY <1>1, <1>2 DEF CheckStarts

\* A step that changes neither what it knows of the group nor what it ruled
LEMMA CheckProceeds ==
  ASSUME NwInv, NEW pc \in CheckPcs, NEW left \in Nat, NEW best \in Nodes,
         Checks([check EXCEPT !.pc = pc, !.left = left, !.best = best]),
         pc \in {"group", "switch"} => check.seen \notin check.steady,
         pc \in {"test", "group", "switch"} => check.pc \in {"test", "group", "switch"}
  PROVE  NwInv'
<1> DEFINE k == [check EXCEPT !.pc = pc, !.left = left, !.best = best]
<1>1. /\ check \in HealthChecks /\ CheckOK(check) /\ GroupIs(check, chosen)
      /\ chosen \in [GroupsOf \cup {Global} -> Nodes]
  BY DEF NwInv, NwTypes
<1>2. /\ k \in HealthChecks /\ k.pc = pc /\ k.rc = check.rc /\ k.fresh = check.fresh
      /\ k.steady = check.steady /\ k.seen = check.seen /\ k.i = check.i /\ k.picked = check.picked
  BY <1>1 DEF HealthChecks
<1>3. check' = k /\ UNCHANGED <<daemon, answering, busy, load, chosen>>
  BY DEF Checks, OthersOfCheck
<1> HIDE DEF k
<1>4. CheckOK(k) /\ GroupIs(k, chosen')
  BY <1>1, <1>2, <1>3 DEF CheckOK, GroupIs
<1> QED
  BY <1>1, <1>2, <1>3, <1>4, CheckMoves

LEMMA CheckSame ==
  ASSUME NwInv
  PROVE  /\ check.left \in Nat /\ check.best \in Nodes /\ check.pc \in CheckPcs /\ check.seen \in Nodes
         /\ \A pc : [check EXCEPT !.pc = pc] = [check EXCEPT !.pc = pc, !.left = check.left, !.best = check.best]
         /\ \A left : [check EXCEPT !.left = left] = [check EXCEPT !.pc = check.pc, !.left = left, !.best = check.best]
         /\ \A pc, left : [check EXCEPT !.pc = pc, !.left = left] = [check EXCEPT !.pc = pc, !.left = left, !.best = check.best]
         /\ \A pc, best : [check EXCEPT !.pc = pc, !.best = best] = [check EXCEPT !.pc = pc, !.left = check.left, !.best = best]
  BY DEF NwInv, NwTypes, HealthChecks

\* A node that answers and steady is not asked in vain.
LEMMA SteadyAnswers ==
  ASSUME NwInv
  PROVE  /\ \A n \in check.steady : NodeAnswers(n)
         /\ \A n \in load.steady : NodeAnswers(n) /\ Pings(n) /\ n \in Outlets
  BY DEF NwInv, NwTypes, LoadsOfClash, CheckOK, LoadOK, NodeAnswers, Pings

LEMMA ReachesKeeps ==
  ASSUME NwInv, Reaches
  PROVE  NwInv'
<1>1. PICK pc \in {"lookup", "process"} : Checks([check EXCEPT !.pc = pc])
  BY DEF Reaches
<1>2. pc \in CheckPcs /\ pc \notin {"test", "group", "switch"}
  BY DEF CheckPcs
<1>3. Checks([check EXCEPT !.pc = pc, !.left = check.left, !.best = check.best])
  BY <1>1, CheckSame
<1> QED
  BY <1>2, <1>3, CheckSame, CheckProceeds

LEMMA ProcessKeeps ==
  ASSUME NwInv, LooksForProcess
  PROVE  NwInv'
<1>1. ~Running => ~check.fresh
  BY DEF NwInv, CheckOK
<1> QED
  BY <1>1, RuledKeeps DEF LooksForProcess

LEMMA LooksUpKeeps ==
  ASSUME NwInv, LooksUp
  PROVE  NwInv'
<1>0. chosen \in [GroupsOf \cup {Global} -> Nodes] /\ Tries \in Nat /\ Len(Watched) \in Nat /\ check.i \in Nat \ {0}
      /\ answering \in SUBSET Outlets /\ check \in HealthChecks /\ CheckOK(check)
  BY NodeWatchAssumption DEF NwInv, NwTypes, HealthChecks
<1>1. CASE Checks([check EXCEPT !.pc = "monitor", !.left = Tries])
  <2>1. Checks([check EXCEPT !.pc = "monitor", !.left = Tries, !.best = check.best])
    BY <1>1, CheckSame
  <2>2. "monitor" \in CheckPcs
    BY DEF CheckPcs
  <2> QED
    BY <1>0, <2>1, <2>2, CheckSame, CheckProceeds
<1>2. CASE Checks(NextGroup)
  BY <1>0, <1>2, NextGroupKeeps DEF Checks, OthersOfCheck
<1>3. CASE /\ check.i <= Len(Watched) /\ Up
           /\ Checks([check EXCEPT !.pc = "test", !.seen = NowOf(Watched[check.i]), !.left = Tries, !.steady = answering])
  <2> DEFINE seen == NowOf(Watched[check.i])
             k == [check EXCEPT !.pc = "test", !.seen = seen, !.left = Tries, !.steady = answering]
  <2>0. check.i \in DOMAIN Watched
    BY <1>0, <1>3, NodeWatchAssumption
  <2>1. seen \in Nodes /\ seen = chosen[Watched[check.i]]
    BY <1>0, <2>0 DEF NowOf, GroupsOf
  <2>2. check' = k /\ UNCHANGED <<daemon, answering, busy, load, chosen>>
    BY <1>3 DEF Checks, OthersOfCheck
  <2> HIDE DEF seen
  <2>3. /\ k \in HealthChecks /\ k.pc = "test" /\ k.rc = check.rc /\ k.fresh = check.fresh
        /\ k.steady = answering /\ k.seen = seen /\ k.i = check.i
    BY <1>0, <2>1 DEF HealthChecks, CheckPcs
  <2> HIDE DEF k
  <2>4. CheckOK(k) /\ GroupIs(k, chosen')
    BY <1>0, <1>3, <2>0, <2>1, <2>2, <2>3 DEF CheckOK, GroupIs
  <2> QED
    BY <1>0, <2>2, <2>3, <2>4, CheckMoves
<1> QED
  BY <1>0, <1>1, <1>2, <1>3 DEF LooksUp

LEMMA TestsKeep ==
  ASSUME NwInv, TestsNode \/ TestsGroup
  PROVE  NwInv'
<1>0. chosen \in [GroupsOf \cup {Global} -> Nodes] /\ CheckOK(check) /\ check.left \in Nat
  BY CheckSame DEF NwInv, NwTypes
<1>1. CASE Checks(NextGroup)
  BY <1>0, <1>1, NextGroupKeeps DEF Checks, OthersOfCheck
<1>2. CASE check.pc = "test" /\ check.left > 0 /\ Checks([check EXCEPT !.left = @ - 1])
  <2>1. check.left - 1 \in Nat
    BY <1>0, <1>2
  <2>2. Checks([check EXCEPT !.pc = check.pc, !.left = check.left - 1, !.best = check.best])
    BY <1>2, CheckSame
  <2> QED
    BY <1>2, <2>1, <2>2, CheckSame, CheckProceeds
<1>3. CASE check.pc = "test" /\ ~NodeAnswers(check.seen) /\ Checks([check EXCEPT !.pc = "group"])
  <2>1. Checks([check EXCEPT !.pc = "group", !.left = check.left, !.best = check.best])
    BY <1>3, CheckSame
  <2>2. "group" \in CheckPcs /\ check.seen \notin check.steady
    BY <1>3, SteadyAnswers DEF CheckPcs
  <2> QED
    BY <1>3, <2>1, <2>2, CheckSame, CheckProceeds
<1>4. ASSUME NEW b \in GroupAnswers, check.pc = "group", Checks([check EXCEPT !.pc = "switch", !.best = b])
      PROVE  NwInv'
  <2>1. Checks([check EXCEPT !.pc = "switch", !.left = check.left, !.best = b])
    BY <1>4, CheckSame
  <2>2. "switch" \in CheckPcs /\ check.seen \notin check.steady /\ b \in Nodes
    BY <1>0, <1>4 DEF CheckPcs, CheckOK, GroupAnswers, Nodes
  <2> QED
    BY <1>4, <2>1, <2>2, CheckSame, CheckProceeds
<1> QED
  BY <1>1, <1>2, <1>3, <1>4 DEF TestsNode, TestsGroup

LEMMA SwitchesKeeps ==
  ASSUME NwInv, Switches
  PROVE  NwInv'
<1>1. chosen' \in [GroupsOf \cup {Global} -> Nodes]
  BY CheckSame DEF NwInv, NwTypes, Switches
<1> QED
  BY <1>1, NextGroupKeeps DEF Switches, OthersOfCheck

LEMMA MonitorsKeeps ==
  ASSUME NwInv, Monitors \/ Graces
  PROVE  NwInv'
<1>0. check.left \in Nat /\ CheckOK(check)
  BY CheckSame DEF NwInv
<1>1. CASE Ruled("ok") \/ Ruled("wait")
  BY <1>1, RuledKeeps
<1>2. CASE Ruled("sick") /\ ~Young
  <2>1. ~check.fresh
    BY <1>0, <1>2 DEF CheckOK, Young
  <2> QED
    BY <1>2, <2>1, RuledKeeps
<1>3. CASE check.pc = "monitor" /\ check.left > 0 /\ Checks([check EXCEPT !.left = @ - 1])
  <2>1. check.left - 1 \in Nat
    BY <1>0, <1>3
  <2>2. Checks([check EXCEPT !.pc = check.pc, !.left = check.left - 1, !.best = check.best])
    BY <1>3, CheckSame
  <2> QED
    BY <1>3, <2>1, <2>2, CheckSame, CheckProceeds
<1>4. CASE Checks([check EXCEPT !.pc = "grace"])
  <2>1. Checks([check EXCEPT !.pc = "grace", !.left = check.left, !.best = check.best])
    BY <1>4, CheckSame
  <2>2. "grace" \in CheckPcs
    BY DEF CheckPcs
  <2> QED
    BY <2>1, <2>2, CheckSame, CheckProceeds
<1> QED
  BY <1>1, <1>2, <1>3, <1>4 DEF Monitors, Graces

-----------------------------------------------------------------------------
(* The load of clash *)

\* A load of clash chooses for the group of all nodes only.
GlobalOnly == /\ chosen' \in [GroupsOf \cup {Global} -> Nodes]
              /\ \A g \in GroupsOf : chosen'[g] = chosen[g]

LEMMA GroupKept ==
  ASSUME NwInv, UNCHANGED check, GlobalOnly
  PROVE  GroupIs(check, chosen)'
<1>1. \A i \in DOMAIN Watched : Watched[i] \in GroupsOf
  BY DEF GroupsOf
<1> QED
  BY <1>1 DEF NwInv, GroupIs, GlobalOnly

LEMMA LoadMoves ==
  ASSUME NwInv, NEW k \in LoadsOfClash, load' = k, LoadOK(k),
         UNCHANGED <<daemon, answering, busy, check>>,
         GlobalOnly
  PROVE  NwInv'
  BY GroupKept DEF NwInv, NwTypes, CheckOK, LoadOK, GlobalOnly, Up, Running

LEMMA NoLoadOK ==
  /\ NoLoad \in LoadsOfClash /\ NoLoad.steady = {} /\ NoLoad.pc = "idle" /\ NoLoad.got = {} /\ NoLoad.todo = {}
  BY DEF NoLoad, LoadsOfClash, LoadPcs, Nodes

\* A new load at pc
LEMMA Anew ==
  ASSUME NwInv, NEW pc \in {"idle", "reload", "up", "list"}, load' = [NoLoad EXCEPT !.pc = pc],
         UNCHANGED <<daemon, answering, busy, check>>,
         GlobalOnly
  PROVE  NwInv'
<1> DEFINE k == [NoLoad EXCEPT !.pc = pc]
<1>1. k \in LoadsOfClash /\ k.pc = pc /\ k.steady = {}
  BY NoLoadOK DEF LoadsOfClash, LoadPcs
<1> HIDE DEF k
<1>2. LoadOK(k)
  BY <1>1 DEF LoadOK
<1> QED
  BY <1>1, <1>2, LoadMoves DEF k

LEMMA LoadEnded ==
  ASSUME NwInv, load' = NoLoad, UNCHANGED <<daemon, answering, busy, check>>,
         GlobalOnly
  PROVE  NwInv'
<1>1. LoadOK(NoLoad)
  BY NoLoadOK DEF LoadOK
<1> QED
  BY <1>1, NoLoadOK, LoadMoves

\* A step that tests no node
LEMMA LoadProceeds ==
  ASSUME NwInv, NEW pc \in LoadPcs, NEW absent \in Nat, NEW looks \in Nat,
         load' = [load EXCEPT !.pc = pc, !.absent = absent, !.looks = looks],
         UNCHANGED <<daemon, answering, busy, check>>,
         GlobalOnly,
         pc # "ping",
         pc \in {"mode", "select", "proxy"} => load.steady \subseteq load.got,
         pc = "proxy" => load.got = {Direct},
         pc = "kill" => load.steady = {}
  PROVE  NwInv'
<1> DEFINE k == [load EXCEPT !.pc = pc, !.absent = absent, !.looks = looks]
<1>1. load \in LoadsOfClash /\ LoadOK(load)
  BY DEF NwInv, NwTypes
<1>2. k \in LoadsOfClash /\ k.pc = pc /\ k.steady = load.steady /\ k.got = load.got /\ k.todo = load.todo
  BY <1>1 DEF LoadsOfClash
<1> HIDE DEF k
<1>3. LoadOK(k)
  BY <1>1, <1>2 DEF LoadOK
<1> QED
  BY <1>2, <1>3, LoadMoves DEF k

LEMMA SameLoad ==
  ASSUME NwInv
  PROVE  /\ load \in LoadsOfClash /\ load.absent \in Nat /\ load.looks \in Nat /\ LoadOK(load)
         /\ chosen \in [GroupsOf \cup {Global} -> Nodes]
         /\ UNCHANGED chosen => GlobalOnly
         /\ \A pc : LoadAt(pc) = [load EXCEPT !.pc = pc, !.absent = load.absent, !.looks = load.looks]
  BY DEF NwInv, NwTypes, LoadsOfClash, LoadAt, GlobalOnly

LEMMA LoadBegins ==
  ASSUME NwInv, LoadStarts \/ Reloads \/ AfterReady \/ AsksMode \/ LooksForClash
  PROVE  NwInv'
<1>0. \A pc \in {"ready", "mark", "after", "look"} : pc \in LoadPcs
  BY DEF LoadPcs
<1>1. ASSUME NEW pc \in {"ready", "mark", "after", "look"}, Loads(LoadAt(pc))
      PROVE  NwInv'
  <2>1. load' = [load EXCEPT !.pc = pc, !.absent = load.absent, !.looks = load.looks]
    BY <1>1, SameLoad DEF Loads
  <2> QED
    BY <1>0, <1>1, <2>1, SameLoad, LoadProceeds DEF Loads, OthersOfLoad
<1>2. CASE LoadStarts
  BY <1>2, SameLoad, Anew DEF LoadStarts, Loads, OthersOfLoad
<1>3. CASE Reloads \/ AsksMode
  BY <1>1, <1>3 DEF Reloads, AsksMode
<1>4. CASE AfterReady
  BY <1>4, SameLoad, Anew, LoadEnded DEF AfterReady, Loads, OthersOfLoad
<1>5. CASE LooksForClash
  <2> DEFINE absent == IF Running THEN 0 ELSE load.absent + 1
             looks == load.looks + 1
  <2>1. absent \in Nat /\ looks \in Nat
    <3>1. load.absent \in Nat /\ load.looks \in Nat
      BY SameLoad
    <3> QED
      BY <3>1
  <2>2. \/ Loads(LoadAt("after"))
        \/ Loads([load EXCEPT !.pc = "ready", !.absent = absent, !.looks = looks])
    BY <1>5 DEF LooksForClash
  <2> HIDE DEF absent, looks
  <2>3. CASE Loads([load EXCEPT !.pc = "ready", !.absent = absent, !.looks = looks])
    <3>1. /\ load' = [load EXCEPT !.pc = "ready", !.absent = absent, !.looks = looks]
          /\ UNCHANGED <<daemon, answering, busy, check, chosen>> /\ "ready" \in LoadPcs
      BY <1>0, <2>3 DEF Loads, OthersOfLoad
    <3>2. GlobalOnly
      BY <3>1, SameLoad
    <3> QED
      BY <2>1, <3>1, <3>2, LoadProceeds
  <2> QED
    BY <1>1, <2>2, <2>3
<1> QED
  BY <1>2, <1>3, <1>4, <1>5

\* What starts clash, or touches the marker, spoils nothing that is known of it.
LEMMA DaemonStarts ==
  ASSUME NwInv, ClashUp \/ TouchesMarker
  PROVE  NwInv'
<1>1. CASE Loads(LoadAt("ready"))
  <2>1. load' = [load EXCEPT !.pc = "ready", !.absent = load.absent, !.looks = load.looks] /\ "ready" \in LoadPcs
    BY <1>1, SameLoad DEF Loads, LoadPcs
  <2> QED
    BY <1>1, <2>1, SameLoad, LoadProceeds DEF Loads, OthersOfLoad
<1>2. CASE \/ /\ load' = LoadAt("mark")
              /\ daemon' = IF Running THEN daemon
                           ELSE [daemon EXCEPT !.st = "boot", !.young = @ \cup {"process"}]
              /\ UNCHANGED <<OthersOfLoad, chosen>>
           \/ TouchesMarker
  <2> DEFINE k == load'
  <2>1. /\ load' = LoadAt("mark") \/ load' = LoadAt("ready")
        /\ UNCHANGED <<answering, busy, check, chosen>>
    BY <1>2 DEF TouchesMarker, OthersOfLoad
  <2>2. k \in LoadsOfClash /\ k.pc \in {"mark", "ready"} /\ k.steady = load.steady
    BY <2>1, SameLoad DEF LoadAt, LoadsOfClash, LoadPcs
  <2>3. /\ daemon' \in Daemons /\ daemon.young \subseteq daemon'.young
        /\ (Running => daemon'.st = daemon.st)
    <3>1. daemon \in Daemons
      BY DEF NwInv, NwTypes
    <3>2. CASE daemon' = daemon
      BY <3>1, <3>2
    <3>3. CASE ~Running /\ daemon' = [daemon EXCEPT !.st = "boot", !.young = @ \cup {"process"}]
      <4> DEFINE young == daemon.young \cup {"process"}
      <4>1. young \in SUBSET {"process", "marker"} /\ daemon.young \subseteq young
        BY <3>1 DEF Daemons
      <4>2. daemon' = [daemon EXCEPT !.st = "boot", !.young = young]
        BY <3>3
      <4> HIDE DEF young
      <4>3. daemon' \in Daemons /\ daemon'.young = young
        BY <3>1, <4>1, <4>2 DEF Daemons
      <4> QED
        BY <3>3, <4>1, <4>3
    <3>4. CASE daemon' = [daemon EXCEPT !.young = @ \cup {"marker"}]
      <4> DEFINE young == daemon.young \cup {"marker"}
      <4>1. young \in SUBSET {"process", "marker"} /\ daemon.young \subseteq young
        BY <3>1 DEF Daemons
      <4>2. daemon' = [daemon EXCEPT !.young = young]
        BY <3>4
      <4> HIDE DEF young
      <4>3. daemon' \in Daemons /\ daemon'.young = young /\ daemon'.st = daemon.st
        BY <3>1, <4>1, <4>2 DEF Daemons
      <4> QED
        BY <4>1, <4>3
    <3> QED
      BY <1>2, <3>2, <3>3, <3>4 DEF TouchesMarker
  <2> HIDE DEF k
  <2>4. (Running => Running') /\ (Up => Up')
    BY <2>3 DEF Running, Up
  <2>5. LoadOK(load)'
    <3>1. LoadOK(load) /\ load'.steady = load.steady /\ load'.pc \in {"mark", "ready"}
      BY <2>2, SameLoad DEF k
    <3> QED
      BY <2>1, <2>4, <3>1 DEF LoadOK
  <2>6. CheckOK(check)' /\ GroupIs(check, chosen)'
    BY <2>1, <2>3, <2>4 DEF NwInv, CheckOK, GroupIs
  <2> QED
    BY <2>1, <2>2, <2>3, <2>5, <2>6 DEF NwInv, NwTypes, k
<1> QED
  BY <1>1, <1>2 DEF ClashUp

\* A round that is lost begins again with nothing tested, or is the last.
LEMMA LostKeeps ==
  ASSUME NwInv, load.steady = {}, load' = RoundLost \/ load' = [RoundLost EXCEPT !.steady = {}],
         UNCHANGED <<daemon, answering, busy, check>>,
         GlobalOnly
  PROVE  NwInv'
<1> DEFINE k == load'
<1>1. k \in LoadsOfClash /\ k.steady = {} /\ k.pc \in {"list", "mode", "kill"}
  <2> DEFINE round == load.round + 1
             lost == RoundLost
  <2>1. load \in LoadsOfClash /\ round \in Nat /\ {} \in SUBSET Outlets /\ {} \in SUBSET Nodes /\ {Direct} \in SUBSET Nodes
    <3>1. load \in LoadsOfClash
      BY SameLoad
    <3>2. load.round \in Nat
      BY <3>1 DEF LoadsOfClash
    <3> QED
      BY <3>1, <3>2 DEF Nodes
  <2>2. \/ lost = [load EXCEPT !.pc = "list", !.round = round, !.got = {}, !.todo = {}]
        \/ lost = [load EXCEPT !.pc = "mode", !.got = {Direct}, !.todo = {}]
        \/ lost = [load EXCEPT !.pc = "kill"]
    BY DEF RoundLost, LoadAt
  <2>3. load' = lost \/ load' = [lost EXCEPT !.steady = {}]
    OBVIOUS
  <2> HIDE DEF round, lost
  <2>4. lost \in LoadsOfClash /\ lost.steady = load.steady /\ lost.pc \in {"list", "mode", "kill"}
    <3>1. CASE lost = [load EXCEPT !.pc = "list", !.round = round, !.got = {}, !.todo = {}]
      BY <2>1, <3>1 DEF LoadsOfClash, LoadPcs
    <3>2. CASE lost = [load EXCEPT !.pc = "mode", !.got = {Direct}, !.todo = {}]
      BY <2>1, <3>2 DEF LoadsOfClash, LoadPcs
    <3>3. CASE lost = [load EXCEPT !.pc = "kill"]
      BY <2>1, <3>3 DEF LoadsOfClash, LoadPcs
    <3> QED
      BY <2>2, <3>1, <3>2, <3>3
  <2>5. [lost EXCEPT !.steady = {}] \in LoadsOfClash /\ [lost EXCEPT !.steady = {}].steady = {}
        /\ [lost EXCEPT !.steady = {}].pc = lost.pc
    BY <2>1, <2>4 DEF LoadsOfClash
  <2> QED
    BY <2>3, <2>4, <2>5
<1> HIDE DEF k
<1>2. ~(k.steady # {}) /\ k.steady \subseteq answering /\ k.pc \notin {"ping", "select", "proxy"}
  BY <1>1
<1>3. LoadOK(k)
  BY <1>1, <1>2 DEF LoadOK
<1> QED
  BY <1>1, <1>3, LoadMoves DEF k

\* The round goes on to where clash is told.
LEMMA ClashTold ==
  ASSUME NwInv, NEW pc \in {"mode", "select", "proxy", "kill"}, load' = LoadAt(pc),
         UNCHANGED <<daemon, answering, busy, check>>,
         GlobalOnly,
         load.steady \subseteq load.got,
         pc = "proxy" => load.got = {Direct},
         pc = "kill" => load.steady = {}
  PROVE  NwInv'
<1> DEFINE k == [load EXCEPT !.pc = pc]
<1>1. load \in LoadsOfClash /\ LoadOK(load) /\ pc \in LoadPcs /\ pc # "ping"
  BY SameLoad DEF LoadPcs
<1>2. k \in LoadsOfClash /\ k.pc = pc /\ k.steady = load.steady /\ k.got = load.got /\ k.todo = load.todo
  BY <1>1 DEF LoadsOfClash
<1>3. load' = k
  BY DEF LoadAt
<1> HIDE DEF k
<1>4. LoadOK(k)
  BY <1>1, <1>2 DEF LoadOK
<1> QED
  BY <1>2, <1>3, <1>4, LoadMoves

LEMMA ListsKeeps ==
  ASSUME NwInv, ListsNodes
  PROVE  NwInv'
<1>0. /\ load \in LoadsOfClash /\ LoadOK(load) /\ answering \in SUBSET Outlets
      /\ UNCHANGED chosen => GlobalOnly
  BY SameLoad DEF NwInv, NwTypes
<1>1. CASE Up
  <2> DEFINE steady == IF busy THEN {} ELSE answering
             k == [load EXCEPT !.pc = "ping", !.todo = Outlets, !.steady = steady]
  <2>1. steady \in SUBSET Outlets /\ steady \subseteq answering /\ (steady # {} => ~busy)
    BY <1>0
  <2>2. load' = k /\ UNCHANGED <<daemon, answering, busy, check, chosen>>
    BY <1>1 DEF ListsNodes, Loads, OthersOfLoad
  <2> HIDE DEF steady
  <2>3. k \in LoadsOfClash /\ k.pc = "ping" /\ k.todo = Outlets /\ k.steady = steady
    BY <1>0, <2>1 DEF LoadsOfClash, LoadPcs
  <2> HIDE DEF k
  <2>4. LoadOK(k)
    BY <1>1, <2>1, <2>3 DEF LoadOK
  <2> QED
    BY <1>0, <2>2, <2>3, <2>4, LoadMoves
<1>2. CASE ~Up
  <2>1. load.steady = {}
    BY <1>0, <1>2 DEF LoadOK
  <2> QED
    BY <1>0, <1>2, <2>1, LostKeeps DEF ListsNodes, Loads, OthersOfLoad
<1> QED
  BY <1>1, <1>2

LEMMA PingsKeeps ==
  ASSUME NwInv, NEW n \in Outlets, PingsNode(n)
  PROVE  NwInv'
<1> DEFINE todo == load.todo \ {n}
           got == IF Pings(n) THEN load.got \cup {n} ELSE load.got
           k == [load EXCEPT !.todo = todo, !.got = got]
<1>0. /\ load \in LoadsOfClash /\ LoadOK(load) /\ load.pc = "ping"
      /\ UNCHANGED chosen => GlobalOnly
  BY SameLoad DEF NwInv, NwTypes, PingsNode
<1>1. todo \in SUBSET Outlets /\ got \in SUBSET Nodes
  BY <1>0 DEF LoadsOfClash, Nodes
<1>2. load.steady \subseteq todo \cup got
  BY <1>0, SteadyAnswers DEF LoadOK
<1>3. load' = k /\ UNCHANGED <<daemon, answering, busy, check, chosen>>
  BY DEF PingsNode, Loads, OthersOfLoad
<1> HIDE DEF todo, got
<1>4. k \in LoadsOfClash /\ k.pc = "ping" /\ k.todo = todo /\ k.got = got /\ k.steady = load.steady
  BY <1>0, <1>1 DEF LoadsOfClash
<1> HIDE DEF k
<1>5. LoadOK(k)
  BY <1>0, <1>2, <1>4 DEF LoadOK
<1> QED
  BY <1>0, <1>3, <1>4, <1>5, LoadMoves

LEMMA ChoosesKeeps ==
  ASSUME NwInv, PingsDone \/ SetsMode \/ Selects \/ TestsProxy
  PROVE  NwInv'
<1>0. /\ load \in LoadsOfClash /\ LoadOK(load) /\ chosen \in [GroupsOf \cup {Global} -> Nodes]
      /\ load.got \subseteq Nodes /\ load.steady \subseteq Outlets /\ (UNCHANGED chosen => GlobalOnly)
  BY SameLoad DEF NwInv, NwTypes, LoadsOfClash
<1>1. ~Up => load.steady = {}
  BY <1>0 DEF LoadOK
<1>2. CASE PingsDone
  <2>1. load.steady \subseteq load.got /\ (load.got = {} => load.steady = {})
    BY <1>0, <1>2 DEF PingsDone, LoadOK
  <2> QED
    BY <1>0, <1>2, <2>1, ClashTold, LostKeeps DEF PingsDone, Loads, OthersOfLoad
<1>3. CASE SetsMode
  <2>1. load.steady \subseteq load.got
    BY <1>0, <1>3 DEF SetsMode, LoadOK
  <2> QED
    BY <1>0, <1>1, <1>3, <2>1, ClashTold, LostKeeps DEF SetsMode, Loads, OthersOfLoad, FellDirect
<1>4. CASE Selects
  <2>1. load.steady \subseteq load.got
    BY <1>0, <1>4 DEF Selects, LoadOK
  <2>2. GlobalOnly
    <3>1. CASE UNCHANGED chosen
      BY <1>0, <3>1
    <3>2. ASSUME NEW n \in load.got, chosen' = [chosen EXCEPT ![Global] = n]
          PROVE  GlobalOnly
      BY <1>0, <3>2, NodeWatchAssumption DEF GlobalOnly, GroupsOf
    <3> QED
      BY <1>4, <3>1, <3>2 DEF Selects
  <2>3. UNCHANGED <<daemon, answering, busy, check>>
    BY <1>4 DEF Selects, OthersOfLoad
  <2> QED
    BY <1>0, <1>1, <1>4, <2>1, <2>2, <2>3, ClashTold, LostKeeps, LoadEnded DEF Selects, FellDirect
<1>5. CASE TestsProxy
  <2>1. load.steady \subseteq load.got /\ load.steady = {}
    BY <1>0, <1>5, NodeWatchAssumption DEF TestsProxy, LoadOK
  <2> QED
    BY <1>0, <1>5, <2>1, ClashTold, LoadEnded DEF TestsProxy, Loads, OthersOfLoad
<1> QED
  BY <1>2, <1>3, <1>4, <1>5

-----------------------------------------------------------------------------
(* Clash dies, its nodes change *)

\* What was known of a clash that is gone is forgotten.
LEMMA Forgets ==
  ASSUME NwInv, check' = [check EXCEPT !.steady = {}, !.fresh = FALSE]
  PROVE  /\ check' \in HealthChecks /\ CheckOK(check)'
         /\ UNCHANGED chosen => GroupIs(check, chosen)'
<1>1. check \in HealthChecks /\ GroupIs(check, chosen)
  BY DEF NwInv, NwTypes
<1>2. /\ check' \in HealthChecks /\ check'.steady = {} /\ check'.fresh = FALSE
      /\ check'.pc = check.pc /\ check'.i = check.i /\ check'.seen = check.seen /\ check'.picked = check.picked
  BY <1>1 DEF HealthChecks
<1> QED
  BY <1>1, <1>2 DEF CheckOK, GroupIs

LEMMA DaemonDies ==
  ASSUME NwInv, daemon' = [daemon EXCEPT !.st = "gone", !.young = @ \ {"process"}]
  PROVE  daemon' \in Daemons
<1> DEFINE young == daemon.young \ {"process"}
<1>1. daemon \in Daemons /\ young \in SUBSET {"process", "marker"}
  BY DEF NwInv, NwTypes, Daemons
<1>2. daemon' = [daemon EXCEPT !.st = "gone", !.young = young]
  OBVIOUS
<1> HIDE DEF young
<1> QED
  BY <1>1, <1>2 DEF Daemons

\* The record of the load with another history
LEMMA Relived ==
  ASSUME NwInv, NEW steady \in SUBSET Outlets, load' = [load EXCEPT !.steady = steady],
         steady \subseteq load.steady, steady \subseteq answering',
         steady # {} => (Up /\ ~busy)'
  PROVE  load' \in LoadsOfClash /\ LoadOK(load)'
<1>1. load \in LoadsOfClash /\ LoadOK(load)
  BY DEF NwInv, NwTypes
<1>2. load' \in LoadsOfClash /\ load'.steady = steady /\ load'.pc = load.pc /\ load'.got = load.got /\ load'.todo = load.todo
  BY <1>1 DEF LoadsOfClash
<1> QED
  BY <1>1, <1>2 DEF LoadOK

LEMMA KillsKeeps ==
  ASSUME NwInv, Kills
  PROVE  NwInv'
<1>1. LoadOK(load)'
  BY NoLoadOK DEF LoadOK, Kills
<1> QED
  BY <1>1, NoLoadOK, Forgets, DaemonDies DEF Kills, NwInv, NwTypes

LEMMA DiesKeeps ==
  ASSUME NwInv, ClashDies
  PROVE  NwInv'
<1>1. load' \in LoadsOfClash /\ LoadOK(load)'
  <2>1. load' = [load EXCEPT !.steady = {}] /\ {} \in SUBSET Outlets
    BY DEF ClashDies
  <2> QED
    BY <2>1, Relived
<1> QED
  BY <1>1, Forgets, DaemonDies DEF ClashDies, NwInv, NwTypes

LEMMA ListensKeeps ==
  ASSUME NwInv, Listens
  PROVE  NwInv'
<1>1. daemon \in Daemons /\ daemon.st = "boot"
  BY DEF NwInv, NwTypes, Listens
<1>2. daemon' \in Daemons /\ daemon'.st = "up" /\ daemon'.young = daemon.young
  BY <1>1 DEF Listens, Daemons
<1>3. Up' /\ Running'
  BY <1>2 DEF Up, Running
<1>4. CheckOK(check)' /\ GroupIs(check, chosen)' /\ LoadOK(load)'
  BY <1>2, <1>3 DEF Listens, NwInv, CheckOK, GroupIs, LoadOK
<1> QED
  BY <1>2, <1>4 DEF Listens, NwInv, NwTypes

LEMMA AgesKeeps ==
  ASSUME NwInv, NEW what \in {"process", "marker"}, Ages(what)
  PROVE  NwInv'
<1> DEFINE young == daemon.young \ {what}
           fresh == check.fresh /\ what # "process"
<1>1. daemon \in Daemons /\ check \in HealthChecks /\ CheckOK(check) /\ LoadOK(load) /\ GroupIs(check, chosen)
  BY DEF NwInv, NwTypes
<1>2. /\ young \in SUBSET {"process", "marker"} /\ fresh \in BOOLEAN
      /\ fresh => check.fresh /\ Running /\ "process" \in young
  BY <1>1 DEF Daemons, CheckOK
<1>3. /\ daemon' = [daemon EXCEPT !.young = young] /\ check' = [check EXCEPT !.fresh = fresh]
      /\ UNCHANGED <<answering, busy, chosen, load>>
  BY DEF Ages
<1> HIDE DEF young, fresh
<1>4. daemon' \in Daemons /\ daemon'.young = young /\ daemon'.st = daemon.st
  BY <1>1, <1>2, <1>3 DEF Daemons
<1>5. /\ check' \in HealthChecks /\ check'.fresh = fresh /\ check'.steady = check.steady
      /\ check'.pc = check.pc /\ check'.seen = check.seen /\ check'.rc = check.rc
      /\ check'.i = check.i /\ check'.picked = check.picked
  BY <1>1, <1>2, <1>3 DEF HealthChecks
<1>6. (Up <=> Up') /\ (Running <=> Running')
  BY <1>4 DEF Up, Running
<1>7. CheckOK(check)' /\ GroupIs(check, chosen)' /\ LoadOK(load)'
  BY <1>1, <1>2, <1>3, <1>4, <1>5, <1>6 DEF CheckOK, GroupIs, LoadOK
<1> QED
  BY <1>3, <1>4, <1>5, <1>7 DEF NwInv, NwTypes

LEMMA NodeShiftsKeeps ==
  ASSUME NwInv, NEW n \in Outlets, NodeShifts(n)
  PROVE  NwInv'
<1> DEFINE answers == answering'
           held == check.steady \cap answers
           steady == load.steady \cap answers
<1>1. check \in HealthChecks /\ CheckOK(check) /\ load \in LoadsOfClash /\ LoadOK(load) /\ answering \in SUBSET Outlets
      /\ GroupIs(check, chosen)
  BY DEF NwInv, NwTypes
<1>2. answers \in SUBSET Outlets
  BY <1>1 DEF NodeShifts
<1>3. held \in SUBSET Outlets /\ held \subseteq check.steady /\ steady \in SUBSET Outlets /\ steady \subseteq load.steady
  BY <1>2
<1>4. held \subseteq answering' /\ steady \subseteq answering'
  OBVIOUS
<1>5. /\ check' = [check EXCEPT !.steady = held] /\ load' = [load EXCEPT !.steady = steady]
      /\ UNCHANGED <<daemon, busy, chosen>>
  BY DEF NodeShifts
<1>6. steady # {} => (Up /\ ~busy)'
  BY <1>1, <1>3, <1>5 DEF LoadOK, Up
<1> HIDE DEF answers, held, steady
<1>7. load' \in LoadsOfClash /\ LoadOK(load)'
  BY <1>3, <1>4, <1>5, <1>6, Relived
<1>8. /\ check' \in HealthChecks /\ check'.fresh = check.fresh /\ check'.steady = held
      /\ check'.pc = check.pc /\ check'.seen = check.seen /\ check'.rc = check.rc
      /\ check'.i = check.i /\ check'.picked = check.picked
  BY <1>1, <1>3, <1>5 DEF HealthChecks
<1>9. CheckOK(check)' /\ GroupIs(check, chosen)'
  BY <1>1, <1>3, <1>4, <1>5, <1>8 DEF CheckOK, GroupIs, Up, Running
<1> QED
  BY <1>2, <1>5, <1>7, <1>8, <1>9 DEF NwInv, NwTypes, answers

LEMMA BusyKeeps ==
  ASSUME NwInv, GetsBusy \/ GetsIdle
  PROVE  NwInv'
<1>1. CASE GetsBusy
  <2>1. load' \in LoadsOfClash /\ LoadOK(load)'
    <3>1. load' = [load EXCEPT !.steady = {}] /\ {} \in SUBSET Outlets
      BY <1>1 DEF GetsBusy
    <3> QED
      BY <3>1, Relived
  <2>2. CheckOK(check)' /\ GroupIs(check, chosen)'
    BY <1>1 DEF GetsBusy, NwInv, CheckOK, GroupIs, Up, Running
  <2> QED
    BY <1>1, <2>1, <2>2 DEF GetsBusy, NwInv, NwTypes
<1>2. CASE GetsIdle
  <2>1. CheckOK(check)' /\ GroupIs(check, chosen)' /\ LoadOK(load)'
    BY <1>2 DEF GetsIdle, NwInv, CheckOK, GroupIs, LoadOK, Up, Running
  <2> QED
    BY <1>2, <2>1 DEF GetsIdle, NwInv, NwTypes
<1> QED
  BY <1>1, <1>2

\* What the user chooses for the group in hand is noted.
LEMMA UserKeeps ==
  ASSUME NwInv, NEW n \in Outlets, NEW g \in GroupsOf, UserSelects(g, n)
  PROVE  NwInv'
<1>1. /\ chosen \in [GroupsOf \cup {Global} -> Nodes] /\ check \in HealthChecks
      /\ CheckOK(check) /\ GroupIs(check, chosen) /\ n \in Nodes
  BY DEF NwInv, NwTypes, Nodes
<1>2. /\ chosen' = [chosen EXCEPT ![g] = n] /\ chosen' \in [GroupsOf \cup {Global} -> Nodes]
      /\ UNCHANGED <<daemon, answering, busy, load>>
  BY <1>1 DEF UserSelects
<1>3. LoadOK(load)'
  BY <1>2 DEF NwInv, LoadOK, Up
<1>4. CASE Acting /\ g = Watched[check.i]
  <2> DEFINE picked == check.picked \cup {n}
  <2>1. check' = [check EXCEPT !.picked = picked] /\ picked \in SUBSET Nodes
    BY <1>1, <1>4 DEF UserSelects, HealthChecks
  <2>2. n \in picked
    OBVIOUS
  <2> HIDE DEF picked
  <2>3. /\ check' \in HealthChecks /\ check'.picked = picked /\ check'.pc = check.pc /\ check'.i = check.i
        /\ check'.seen = check.seen /\ check'.steady = check.steady /\ check'.fresh = check.fresh /\ check'.rc = check.rc
    BY <1>1, <2>1 DEF HealthChecks
  <2>4. chosen'[Watched[check'.i]] = n
    BY <1>1, <1>2, <1>4, <2>3
  <2>5. CheckOK(check)' /\ GroupIs(check, chosen)'
    BY <1>1, <1>2, <2>2, <2>3, <2>4 DEF CheckOK, GroupIs, Up, Running
  <2> QED
    BY <1>2, <1>3, <2>3, <2>5 DEF NwInv, NwTypes
<1>5. CASE ~(Acting /\ g = Watched[check.i])
  <2>1. UNCHANGED check
    BY <1>5 DEF UserSelects
  <2>2. Acting => chosen'[Watched[check.i]] = chosen[Watched[check.i]]
    BY <1>1, <1>2, <1>5
  <2>3. CheckOK(check)' /\ GroupIs(check, chosen)'
    BY <1>1, <1>2, <2>1, <2>2 DEF CheckOK, GroupIs, Acting, Up, Running
  <2> QED
    BY <1>2, <1>3, <2>1, <2>3 DEF NwInv, NwTypes
<1> QED
  BY <1>4, <1>5

-----------------------------------------------------------------------------
(* The theorem *)

LEMMA NwInvHolds ==
  /\ NwInit => NwInv
  /\ NwInv /\ [NwNext]_nwVars => NwInv'
<1>1. ASSUME NwInit
      PROVE  NwInv
  <2>1. CheckOK(check) /\ GroupIs(check, chosen) /\ LoadOK(load)
    BY <1>1, NoCheckOK, NoLoadOK DEF NwInit, CheckOK, GroupIs, LoadOK
  <2> QED
    BY <1>1, <2>1, NoCheckOK, NoLoadOK DEF NwInit, NwInv, NwTypes, Daemons, Nodes
<1>2. ASSUME NwInv, UNCHANGED nwVars
      PROVE  NwInv'
  BY <1>2 DEF nwVars, NwInv, NwTypes, CheckOK, GroupIs, LoadOK, Up, Running
<1>3. ASSUME NwInv, CheckStarts \/ CheckStep
      PROVE  NwInv'
  BY <1>3, CheckStarting, ReachesKeeps, ProcessKeeps, LooksUpKeeps, TestsKeep, SwitchesKeeps, MonitorsKeeps DEF CheckStep
<1>4. ASSUME NwInv, LoadStarts \/ LoadStep
      PROVE  NwInv'
  BY <1>4, LoadBegins, DaemonStarts, ListsKeeps, PingsKeeps, ChoosesKeeps, KillsKeeps DEF LoadStep
<1>5. ASSUME NwInv, Listens \/ GetsIdle \/ Shifts \/ \E w \in {"process", "marker"} : Ages(w)
      PROVE  NwInv'
  BY <1>5, ListensKeeps, BusyKeeps, DiesKeeps, NodeShiftsKeeps, UserKeeps, AgesKeeps DEF Shifts
<1> QED
  BY <1>1, <1>2, <1>3, <1>4, <1>5 DEF NwNext

\* Whatever a load of nodes, a health check with its failover, clash's end and a user's
\* own choice do to each other: a group is switched away only from a node that failed at
\* some time since the look-up or that the user chose since; and clash ends only by the
\* verdicts WatchSafe allows.  For any groups, nodes and numbers of attempts.
THEOREM WatchStaysSafe == NwSpec => []WatchSafe
<1>1. NwInv => WatchSafe
  BY DEF NwInv, CheckOK, GroupIs, LoadOK, WatchSafe, OnlyDeadLeft, FreshSpared, KilledForCause
<1> QED
  BY <1>1, NwInvHolds, PTL DEF NwSpec
=============================================================================
