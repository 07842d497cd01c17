------------------------------ MODULE WebProxies ------------------------------
(***************************************************************************)
(* The snapshot of clash's groups that the browser is shown: WebProxies    *)
(* keeps one, requests refresh it each on a thread of its own, a task of   *)
(* sniffbox::run warms it, and smart_fix validates a lock against it.  One *)
(* smart group; its members change when clash loads another configuration. *)
(***************************************************************************)
EXTENDS Naturals, FiniteSets

CONSTANTS Askers,      \* threads that serve a request
          Warmer,      \* the warming task
          Nodes,       \* the nodes clash may know
          NoNode, NoSnapshot,
          Marks,       \* how many timed refreshes follow the first
          MaxAsked, MaxTurns

VARIABLES snapshot,    \* WebProxies::cache: [all, fixed], or nothing yet
          fresh,       \* last_fetch is less than FRESH_MIN_INTERVAL ago
          locked,      \* SmartFixed: the node the group is locked to
          members,     \* what clash would answer; {} when it is not running
          thread,      \* each thread: where it is, what it has read, its node
          warmed,      \* the warmer: its phase and whether `last` is old enough
          notified,    \* the permit of the Notify
          askedFor, turns

wpVars == <<snapshot, fresh, locked, members, thread, warmed, notified, askedFor, turns>>

Threads == Askers \cup {Warmer}
Resting == [at |-> "idle", all |-> {}, fixed |-> NoNode, fixing |-> FALSE, node |-> NoNode]

WpInit == /\ snapshot = NoSnapshot /\ fresh = FALSE
          /\ locked = NoNode /\ members = {}
          /\ thread = [t \in Threads |-> Resting]
          /\ warmed = [left |-> Marks + 1, rested |-> TRUE]
          /\ notified = FALSE /\ askedFor = 0 /\ turns = 0

Place(t, at) == thread' = [thread EXCEPT ![t].at = at]
Where(t) == thread[t].at

\* build_trimmed and trim_one: a lock is shown when its node is a member.
Trimmed(all, fixed) == [all |-> all, fixed |-> IF fixed \in all THEN fixed ELSE NoNode]

-----------------------------------------------------------------------------
(* refresh: clash is asked, the locks are read, the snapshot is stored, and   *)
(* then the time of it.                                                       *)

FetchesClash(t) ==
    /\ Where(t) = "fetch"
    /\ thread' = IF members = {} THEN [thread EXCEPT ![t].at = "answer"]
                 ELSE [thread EXCEPT ![t].at = "locks", ![t].all = members]
    /\ UNCHANGED <<snapshot, fresh, locked, members, warmed, notified, askedFor, turns>>

ReadsLocks(t) ==
    /\ Where(t) = "locks"
    /\ thread' = [thread EXCEPT ![t].at = "store", ![t].fixed = locked]
    /\ UNCHANGED <<snapshot, fresh, locked, members, warmed, notified, askedFor, turns>>

StoresOnce(t) ==
    /\ Where(t) = "store"
    /\ snapshot' = IF snapshot = NoSnapshot THEN Trimmed(thread[t].all, thread[t].fixed)
                                            ELSE snapshot
    /\ Place(t, "time")
    /\ UNCHANGED <<fresh, locked, members, warmed, notified, askedFor, turns>>
Stores(t) ==
    /\ Where(t) = "store"
    /\ snapshot' = Trimmed(thread[t].all, thread[t].fixed)
    /\ Place(t, "time")
    /\ UNCHANGED <<fresh, locked, members, warmed, notified, askedFor, turns>>

StoresTime(t) == /\ Where(t) = "time"
                 /\ fresh' = TRUE /\ Place(t, "answer")
                 /\ UNCHANGED <<snapshot, locked, members, warmed, notified, askedFor, turns>>

Refreshes(t) == FetchesClash(t) \/ ReadsLocks(t) \/ Stores(t) \/ StoresTime(t)

-----------------------------------------------------------------------------
(* Requests *)

Asks(t) == /\ Where(t) = "idle" /\ askedFor < MaxAsked /\ askedFor' = askedFor + 1
           /\ UNCHANGED <<snapshot, fresh, locked, members, warmed, notified, turns>>

\* proxies_json and proxies_json_fresh
Json(t) == Asks(t) /\ snapshot = NoSnapshot /\ Place(t, "fetch")
JsonFresh(t) == Asks(t) /\ ~fresh /\ Place(t, "fetch")

\* smart_fix: a node to lock, or NoNode to clear the lock.  Without a snapshot
\* one is fetched first.
FixAsked(t) == \E n \in Nodes \cup {NoNode} :
    /\ Asks(t)
    /\ thread' = [thread EXCEPT ![t].at = IF snapshot = NoSnapshot THEN "fetch" ELSE "fix",
                                ![t].fixing = TRUE, ![t].node = n]

\* The lock is checked against the snapshot, set and saved; last_fetch is
\* forgotten and the snapshot refreshed.  503 and 404 change nothing.
FixRefused(t) == /\ Where(t) = "fix"
                 /\ thread[t].node \notin snapshot.all \cup {NoNode}
                 /\ thread' = [thread EXCEPT ![t] = Resting]
                 /\ UNCHANGED <<snapshot, fresh, locked, members, warmed, notified, askedFor, turns>>
Fixes(t) == /\ Where(t) = "fix"
            /\ thread[t].node \in snapshot.all \cup {NoNode}
            /\ locked' = thread[t].node /\ fresh' = FALSE
            /\ thread' = [thread EXCEPT ![t].at = "fetch", ![t].fixing = FALSE,
                                        ![t].node = NoNode]
            /\ UNCHANGED <<snapshot, members, warmed, notified, askedFor, turns>>

\* A fix goes on if there is a snapshot by then; the others have their answer.
Answers(t) == /\ t \in Askers /\ Where(t) = "answer"
              /\ thread' = IF thread[t].fixing /\ snapshot # NoSnapshot
                           THEN [thread EXCEPT ![t].at = "fix"]
                           ELSE [thread EXCEPT ![t] = Resting]
              /\ UNCHANGED <<snapshot, fresh, locked, members, warmed, notified, askedFor, turns>>

\* info_get: the page asks the warmer for a newer snapshot.
Warms == /\ notified' = TRUE
         /\ UNCHANGED <<snapshot, fresh, locked, members, thread, warmed, askedFor, turns>>

-----------------------------------------------------------------------------
(* The warmer of sniffbox::run: again and again until the first success, then *)
(* at its marks, then when it is notified and the last one is 5 seconds old.  *)

WarmerStarts ==
    /\ Where(Warmer) = "idle"
    /\ \/ warmed.left > 0 /\ Place(Warmer, "fetch") /\ UNCHANGED <<warmed, notified>>
       \/ /\ warmed.left = 0 /\ notified /\ notified' = FALSE
          /\ IF warmed.rested THEN Place(Warmer, "fetch") ELSE UNCHANGED thread
          /\ UNCHANGED warmed
    /\ UNCHANGED <<snapshot, fresh, locked, members, askedFor, turns>>

WarmerDone ==
    /\ Where(Warmer) = "answer"
    /\ thread' = [thread EXCEPT ![Warmer] = Resting]
    /\ warmed' = CASE warmed.left = 0 -> [warmed EXCEPT !.rested = FALSE]
                   [] warmed.left = Marks + 1 /\ thread[Warmer].all = {} -> warmed
                   [] OTHER -> [left |-> warmed.left - 1, rested |-> warmed.left # 1]
    /\ UNCHANGED <<snapshot, fresh, locked, members, notified, askedFor, turns>>

TimePasses == /\ fresh \/ ~warmed.rested
              /\ fresh' = FALSE /\ warmed' = [warmed EXCEPT !.rested = TRUE]
              /\ UNCHANGED <<snapshot, locked, members, thread, notified, askedFor, turns>>

\* clash starts, stops or loads another configuration.
ClashTurns == /\ turns < MaxTurns /\ turns' = turns + 1
              /\ \E m \in SUBSET Nodes : m # members /\ members' = m
              /\ UNCHANGED <<snapshot, fresh, locked, thread, warmed, notified, askedFor>>

WpNext == \/ \E t \in Threads : Refreshes(t) \/ Answers(t)
          \/ \E t \in Askers : Json(t) \/ JsonFresh(t) \/ FixAsked(t) \/ FixRefused(t) \/ Fixes(t)
          \/ Warms \/ WarmerStarts \/ WarmerDone \/ TimePasses \/ ClashTurns

\* Threads and the warmer run, time passes, and somebody keeps a page open.
WpFair == /\ \A t \in Threads : WF_wpVars(Refreshes(t) \/ Answers(t))
          /\ \A t \in Askers : WF_wpVars(FixRefused(t) \/ Fixes(t))
          /\ WF_wpVars(WarmerStarts) /\ WF_wpVars(WarmerDone) /\ WF_wpVars(Warms)
          /\ WF_wpVars(TimePasses)

WpSpec == WpInit /\ [][WpNext]_wpVars /\ WpFair

-----------------------------------------------------------------------------
(* Property *)

\* An older refresh may store its snapshot after a newer one, and after the
\* refresh of a smart_fix, which it then hides.  While a page is open the
\* snapshot comes to show the members and the lock that hold, in spite of it.
UpToDate == members = {} \/ snapshot = Trimmed(members, locked)
CatchesUp == []<>UpToDate

=============================================================================
