----------------------------- MODULE SmartFixed -----------------------------
(***************************************************************************)
(* The locks of smart groups and their state file                          *)
(* (sniffbox/smart_fixed.rs).  Web requests set and clear a lock, passes   *)
(* of the runners clear one, the supervisor drops those of vanished        *)
(* groups; whoever changed the map then persists it: snapshot the map,     *)
(* write path.tmp, rename it over path.  The mutex covers only the map, so *)
(* two threads may be anywhere in persist at once.                         *)
(*                                                                         *)
(* The two names of the file system are bound to inodes, as a write to     *)
(* path.tmp reaches whatever file was opened under that name.              *)
(***************************************************************************)
EXTENDS Naturals, Sequences, FiniteSets

CONSTANTS
  Threads,    \* threads that change locks
  Groups,     \* smart groups
  Nodes,      \* nodes a group may be locked to
  None,       \* no lock, no file
  MaxOps,     \* bound: changes
  MaxReboots \* bound: crashes or restarts of the process

ASSUME FixedConstants == None \notin Nodes /\ None \notin Nat /\ MaxOps \in Nat /\ MaxReboots \in Nat

\* At most one inode per thread, one under each name and one to allocate.
Inodes == 1 .. Cardinality(Threads) + 2

VARIABLES
  map,      \* the locks in memory
  thread,   \* where each thread is: pc, the snapshot it took, the inode it has open
  tmp,      \* the inode named path.tmp, or None
  file,     \* the inode named path, or None
  content,  \* what each inode holds: <<locks>>, or <<>> while it is being written
  before,   \* history: the locks before the last change
  ops, reboots

fixedVars == <<map, thread, tmp, file, content, before, ops, reboots>>
-----------------------------------------------------------------------------
Locks == [Groups -> Nodes \cup {None}]
NoLocks == [g \in Groups |-> None]
Away == [pc |-> "away", snap |-> NoLocks, inode |-> None]

\* SmartFixed::load: a missing or unreadable file is no locks at all.
Loaded == IF file = None \/ content[file] = <<>> THEN NoLocks ELSE content[file][1]

FixedInit ==
  /\ map = NoLocks
  /\ thread = [t \in Threads |-> Away]
  /\ tmp = None
  /\ file = None
  /\ content = [i \in Inodes |-> <<>>]
  /\ before = NoLocks
  /\ ops = 0
  /\ reboots = 0

Changes(t, m) ==
  /\ thread[t].pc = "away" /\ ops < MaxOps
  /\ ops' = ops + 1
  /\ map' = m
  /\ before' = map
  /\ UNCHANGED <<tmp, file, content, reboots>>

Persists(t) == thread' = [thread EXCEPT ![t].pc = "snapshot"]

SetLock(t, g, n) == Changes(t, [map EXCEPT ![g] = n]) /\ Persists(t)

\* Only a lock that was there is worth writing the file.
Clear(t, g) ==
  /\ map[g] # None
  /\ Changes(t, [map EXCEPT ![g] = None])
  /\ Persists(t)

RetainGroups(t, keep) ==
  /\ \E g \in Groups \ keep : map[g] # None
  /\ Changes(t, [g \in Groups |-> IF g \in keep THEN map[g] ELSE None])
  /\ Persists(t)

Snapshots(t) ==
  /\ thread[t].pc = "snapshot"
  /\ thread' = [thread EXCEPT ![t].pc = "open", ![t].snap = map]
  /\ UNCHANGED <<map, tmp, file, content, before, ops, reboots>>

\* fs::write of the file itself, and no rename.
OpensInPlace(t) ==
  /\ thread[t].pc = "open"
  /\ \E i \in IF file # None THEN {file} ELSE {1} :
       /\ file' = i
       /\ content' = [content EXCEPT ![i] = <<>>]
       /\ thread' = [thread EXCEPT ![t].pc = "write", ![t].inode = i]
  /\ UNCHANGED <<map, tmp, before, ops, reboots>>

\* fs::write opens path.tmp, truncating or creating it ...
OpensTemp(t) ==
  /\ thread[t].pc = "open"
  /\ \E i \in IF tmp # None THEN {tmp}
              ELSE {CHOOSE i \in Inodes : i # file /\ \A u \in Threads : thread[u].inode # i} :
       /\ tmp' = i
       /\ content' = [content EXCEPT ![i] = <<>>]
       /\ thread' = [thread EXCEPT ![t].pc = "write", ![t].inode = i]
  /\ UNCHANGED <<map, file, before, ops, reboots>>

\* ... and fills it.  Over the text of another thread it may leave a mixture that
\* does not parse.
Writes(t) ==
  /\ thread[t].pc = "write"
  /\ \E c \in {<<thread[t].snap>>} \cup (IF content[thread[t].inode] = <<>> THEN {} ELSE {<<>>}) :
       content' = [content EXCEPT ![thread[t].inode] = c]
  /\ thread' = [thread EXCEPT ![t].pc = "rename"]
  /\ UNCHANGED <<map, tmp, file, before, ops, reboots>>

\* The rename moves whatever is named path.tmp, or fails when nothing is.
Renames(t) ==
  /\ thread[t].pc = "rename"
  /\ file' = IF tmp # None THEN tmp ELSE file
  /\ tmp' = None
  /\ thread' = [thread EXCEPT ![t] = Away]
  /\ UNCHANGED <<map, content, before, ops, reboots>>

\* The process ends anywhere and another one loads the file.
Reboot ==
  /\ reboots < MaxReboots
  /\ reboots' = reboots + 1
  /\ map' = Loaded
  /\ before' = Loaded
  /\ thread' = [t \in Threads |-> Away]
  /\ UNCHANGED <<tmp, file, content, ops>>

Persist(t) == Snapshots(t) \/ OpensTemp(t) \/ Writes(t) \/ Renames(t)

FixedNext ==
  \/ \E t \in Threads :
       \/ \E g \in Groups : Clear(t, g) \/ \E n \in Nodes : SetLock(t, g, n)
       \/ \E keep \in SUBSET Groups : RetainGroups(t, keep)
       \/ Persist(t)
  \/ Reboot

FixedSpec == FixedInit /\ [][FixedNext]_fixedVars
-----------------------------------------------------------------------------
\* Types of the locks, the threads and the two files.
FixedTypeOK ==
  /\ map \in Locks
  /\ thread \in [Threads -> [pc : {"away", "snapshot", "open", "write", "rename"},
                             snap : Locks, inode : Inodes \cup {None}]]
  /\ tmp \in Inodes \cup {None}
  /\ file \in Inodes \cup {None}
  /\ content \in [Inodes -> {<<>>} \cup {<<l>> : l \in Locks}]
  /\ before \in Locks

\* Whatever instant the process ends at, the next one starts with the locks as
\* they were before or after the change in progress, never with others; and when
\* nobody is changing locks it neither loses a lock nor brings a cleared one back.
CrashAtomic ==
  /\ Loaded \in {before, map}
  /\ (\A t \in Threads : thread[t].pc = "away") => Loaded = map

\* The locks on disk are the old ones or the new ones wherever the process ends.
LocksSurvive == FixedTypeOK /\ CrashAtomic

=============================================================================
