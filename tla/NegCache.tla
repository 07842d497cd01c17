------------------------------- MODULE NegCache -------------------------------
(***************************************************************************)
(* SniffNegCache (sb-sniff/neg_cache.rs): destinations whose first bytes   *)
(* could not be recognised several times are not sniffed for a while.  The *)
(* number of entries is kept beside the map, in an atomic of its own, so   *)
(* that an empty cache costs nothing; connections and housekeeping change  *)
(* the two one after the other.                                            *)
(***************************************************************************)
EXTENDS Naturals, Integers, FiniteSets

CONSTANTS Dests,      \* destinations
          Users,      \* connections that note something at a time
          FailLimit,  \* threshold
          MaxNotes    \* connections in all

VARIABLES entries,    \* inner: [fails, old] for a destination, fails = 0 when absent
          count,      \* count, which wraps below zero
          user,       \* a connection between the map and the count
          gcAt,       \* housekeeping's gc: between retain and store
          notes

negVars == <<entries, count, user, gcAt, notes>>

NoEntry == [fails |-> 0, old |-> FALSE]
Size == Cardinality({d \in Dests : entries[d].fails > 0})

NegInit == /\ entries = [d \in Dests |-> NoEntry] /\ count = 0
           /\ user = [u \in Users |-> "idle"] /\ gcAt = "rest" /\ notes = 0

\* note_failure: the map (an expired entry begins again), then the count if
\* the entry is new.
NotesFailure(u, d) ==
  /\ user[u] = "idle" /\ notes < MaxNotes /\ notes' = notes + 1
  /\ entries' = [entries EXCEPT ![d] =
       [fails |-> IF @.old THEN 1 ELSE IF @.fails < FailLimit THEN @.fails + 1 ELSE @.fails, old |-> FALSE]]
  /\ user' = [user EXCEPT ![u] = IF entries[d].fails = 0 THEN "add" ELSE "idle"]
  /\ UNCHANGED <<count, gcAt>>

\* note_success: nothing when the count says the cache is empty.
NotesSuccess(u, d) ==
  /\ user[u] = "idle" /\ notes < MaxNotes /\ notes' = notes + 1
  /\ IF count = 0 THEN UNCHANGED <<entries, user>>
     ELSE /\ entries' = [entries EXCEPT ![d] = NoEntry]
          /\ user' = [user EXCEPT ![u] = IF entries[d].fails > 0 THEN "sub" ELSE "idle"]
  /\ UNCHANGED <<count, gcAt>>

Counts(u) == /\ user[u] # "idle" /\ user' = [user EXCEPT ![u] = "idle"]
             /\ count' = IF user[u] = "add" THEN count + 1 ELSE count - 1
             /\ UNCHANGED <<entries, gcAt, notes>>

Expires(d) == /\ entries[d].fails > 0 /\ ~entries[d].old
              /\ entries' = [entries EXCEPT ![d].old = TRUE]
              /\ UNCHANGED <<count, user, gcAt, notes>>

\* gc: flush_once calls it every three seconds, note_failure when the map is full.
GcRetains == /\ gcAt = "rest" /\ gcAt' = "store"
             /\ entries' = [d \in Dests |-> IF entries[d].old THEN NoEntry ELSE entries[d]]
             /\ UNCHANGED <<count, user, notes>>
GcKeepsCount == gcAt = "store" /\ gcAt' = "rest" /\ UNCHANGED <<entries, count, user, notes>>
GcStores == /\ gcAt = "store" /\ gcAt' = "rest" /\ count' = Size
            /\ UNCHANGED <<entries, user, notes>>

NegNext == \/ \E u \in Users : Counts(u) \/ \E d \in Dests : NotesFailure(u, d) \/ NotesSuccess(u, d)
           \/ \E d \in Dests : Expires(d)
           \/ GcRetains \/ GcStores

NegFair == /\ WF_negVars(GcRetains \/ GcStores) /\ \A u \in Users : WF_negVars(Counts(u))
           /\ \A d \in Dests : WF_negVars(Expires(d))

NegSpec == NegInit /\ [][NegNext]_negVars /\ NegFair

-----------------------------------------------------------------------------
(* Properties *)

IsHit(d) == count # 0 /\ entries[d].fails >= FailLimit /\ ~entries[d].old

\* The count and the map drift apart when a connection and gc change them at the
\* same time: a count of zero hides entries that are there, and a success is then
\* not noted.  Housekeeping puts it right: once the connections are done, the two
\* agree for good, and what was noted in between is not kept for ever.
CountRight == count = Size /\ \A d \in Dests : ~IsHit(d)
CountSettles == <>[]CountRight

=============================================================================
