------------------------------- MODULE Resolver -------------------------------
(***************************************************************************)
(* The resolver of sniffbox (resolver.rs): tasks ask for the addresses of  *)
(* a name; the first to ask, the leader, queries the DNS server, and those *)
(* who ask meanwhile, its followers, wait for what it tells.  Answers are  *)
(* cached for a bounded time.  A task may be cancelled where it awaits,    *)
(* and a reload may change the server at any time.                         *)
(*                                                                         *)
(* Time is counted in ticks, and what lies between two awaits takes none.  *)
(* Deadlines and expiries are kept as the time that is left.               *)
(***************************************************************************)
EXTENDS Naturals, FiniteSets

CONSTANTS Callers, Names, Upstreams,
          NoOne,       \* no leader, no server
          Patience,    \* Resolver::timeout
          TtlMin, TtlMax, SoftCap,  \* CACHE_TTL_MIN, CACHE_TTL_MAX, CACHE_SOFT_CAP
          Ttls         \* the times to live of answers

ASSUME ResolverAssumption ==
  /\ Callers # {} /\ Names # {} /\ IsFiniteSet(Callers) /\ IsFiniteSet(Names)
  /\ NoOne \notin Callers \cup Upstreams
  /\ Patience \in Nat \ {0} /\ TtlMin \in Nat /\ TtlMax \in Nat /\ SoftCap \in Nat
  /\ TtlMin <= TtlMax /\ Ttls \subseteq Nat
  /\ Upstreams \cap {"none", "closed", "timeout", "notfound", "other"} = {}

VARIABLES upstream,  \* Resolver::server
          sinceSet,  \* the time since it was set; Long is any longer one
          cached,    \* Resolver::cache: [from: the server that answered, ttl: what is left]
          leaders,   \* Resolver::inflight: who leads for a name
          call       \* what each task is doing

rvVars == <<upstream, sinceSet, cached, leaders, call>>

Long == Patience + TtlMax + 1

\* left: until the deadline; srv, sent, age, ttl: of a leader's query; lead: whom a
\* follower follows; res: what a leader found or a follower was told.
Outside == [pc |-> "out", name |-> CHOOSE n \in Names : TRUE, left |-> 0, lead |-> NoOne,
            srv |-> NoOne, sent |-> 0, age |-> 0, ttl |-> 0, res |-> "none"]
NoEntry == [from |-> NoOne, ttl |-> 0]

RvInit == /\ upstream \in Upstreams /\ sinceSet = Long
          /\ cached = [n \in Names |-> NoEntry]
          /\ leaders = [n \in Names |-> NoOne]
          /\ call = [c \in Callers |-> Outside]

Becomes(c, r) == call' = [call EXCEPT ![c] = r]
Turns(c, pc) == Becomes(c, [call[c] EXCEPT !.pc = pc])
Doing(c, pc) == call[c].pc = pc
NameOf(c) == call[c].name

\* The tasks that own an entry of leaders, by their Guard.
Awaiting == {"udp", "tcp"}
Telling == {"send", "leave"}
Leading == {"bind", "room", "insert"} \cup Awaiting \cup Telling
FollowersOf(c) == {f \in Callers : Doing(f, "wait") /\ call[f].lead = c /\ call[f].res = "none"}

-----------------------------------------------------------------------------
(* resolve_shared *)

\* A new deadline; what is an address already needs no asking.
Resolves(c, n) == /\ Doing(c, "out")
              /\ Becomes(c, [Outside EXCEPT !.pc = "look", !.name = n, !.left = Patience])
              /\ UNCHANGED <<upstream, sinceSet, cached, leaders>>

Held(n) == cached[n].from # NoOne
CacheHit(n) == Held(n) /\ cached[n].ttl > 0

\* cache_get, and then the deadline
Looks(c) == /\ Doing(c, "look")
            /\ IF CacheHit(NameOf(c)) \/ call[c].left = 0 THEN Becomes(c, Outside) ELSE Turns(c, "enter")
            /\ UNCHANGED <<upstream, sinceSet, cached, leaders>>

\* The entry of leaders is taken or followed in one step.
Leads(c) == /\ Doing(c, "enter") /\ leaders[NameOf(c)] = NoOne
            /\ leaders' = [leaders EXCEPT ![NameOf(c)] = c]
            /\ Turns(c, "bind")
            /\ UNCHANGED <<upstream, sinceSet, cached>>

\* Mutant: waits for the next value and does not look at the one that is there.
FollowsUnseen(c) ==
  /\ Doing(c, "enter") /\ leaders[NameOf(c)] # NoOne
  /\ Becomes(c, [call[c] EXCEPT !.pc = "wait", !.lead = leaders[NameOf(c)]])
  /\ UNCHANGED <<upstream, sinceSet, cached, leaders>>

\* subscribe: what was told before is seen too.
Follows(c) ==
  /\ Doing(c, "enter") /\ leaders[NameOf(c)] # NoOne
  /\ LET l == leaders[NameOf(c)]
     IN  Becomes(c, [call[c] EXCEPT !.pc = "wait", !.lead = l,
                                    !.res = IF Doing(l, "leave") THEN call[l].res ELSE "none"])
  /\ UNCHANGED <<upstream, sinceSet, cached, leaders>>

\* A follower has the leader's result, or no time left ...
FollowerReturns(c) ==
  /\ Doing(c, "wait") /\ call[c].res # "closed"
  /\ call[c].res # "none" \/ call[c].left = 0
  /\ Becomes(c, Outside)
  /\ UNCHANGED <<upstream, sinceSet, cached, leaders>>

\* ... or its leader was cancelled, and it begins again with the time it has.
FollowerRetries(c) ==
  /\ Doing(c, "wait") /\ call[c].res = "closed"
  /\ Becomes(c, [Outside EXCEPT !.pc = "look", !.name = NameOf(c), !.left = call[c].left])
  /\ UNCHANGED <<upstream, sinceSet, cached, leaders>>

-----------------------------------------------------------------------------
(* query_upstream, query_tcp *)

\* The server is the one of this moment; the socket is connected to it.
Queries(c) ==
  /\ Doing(c, "bind")
  /\ Becomes(c, [call[c] EXCEPT !.pc = "udp", !.srv = upstream, !.sent = 1, !.age = 0])
  /\ UNCHANGED <<upstream, sinceSet, cached, leaders>>

\* Each of three attempts has a third of the timeout.
AttemptOver(c) == 3 * call[c].age >= call[c].sent * Patience

Resends(c) == /\ Doing(c, "udp") /\ AttemptOver(c) /\ call[c].sent < 3 /\ call[c].left > 0
              /\ Becomes(c, [call[c] EXCEPT !.sent = @ + 1])
              /\ UNCHANGED <<upstream, sinceSet, cached, leaders>>

\* Truncated: the same question over TCP, with no limit but the deadline
Truncated(c) == Doing(c, "udp") /\ Turns(c, "tcp") /\ UNCHANGED <<upstream, sinceSet, cached, leaders>>

\* A reply that matches the question and has addresses. Others are not listened to.
Answered(c, ttl) ==
  /\ call[c].pc \in Awaiting
  /\ Becomes(c, [call[c] EXCEPT !.pc = "room", !.res = call[c].srv, !.ttl = ttl])
  /\ UNCHANGED <<upstream, sinceSet, cached, leaders>>

\* A reply that says there is none, or a socket or a TCP answer that fails
Refused(c, kind) ==
  /\ call[c].pc \in Awaiting
  /\ Becomes(c, [call[c] EXCEPT !.pc = "send", !.res = kind])
  /\ UNCHANGED <<upstream, sinceSet, cached, leaders>>

TimesOut(c) ==
  /\ call[c].pc \in Awaiting
  /\ call[c].left = 0 \/ (Doing(c, "udp") /\ AttemptOver(c) /\ call[c].sent = 3)
  /\ Becomes(c, [call[c] EXCEPT !.pc = "send", !.res = "timeout"])
  /\ UNCHANGED <<upstream, sinceSet, cached, leaders>>

-----------------------------------------------------------------------------
(* cache_put, and the end of a leader *)

NumKept(t) == Cardinality({n \in Names : t[n].from # NoOne})
Purged == [n \in Names |-> IF cached[n].ttl > 0 THEN cached[n] ELSE NoEntry]

\* When the cache is full what has expired goes, and if that is nothing the answer
\* is not kept.
MakesRoom(c) ==
  /\ Doing(c, "room")
  /\ cached' = IF NumKept(cached) >= SoftCap THEN Purged ELSE cached
  /\ Turns(c, IF NumKept(cached') >= SoftCap THEN "send" ELSE "insert")
  /\ UNCHANGED <<upstream, sinceSet, leaders>>

Clamped(ttl) == IF ttl < TtlMin THEN TtlMin ELSE IF ttl > TtlMax THEN TtlMax ELSE ttl

Inserts(c) ==
  /\ Doing(c, "insert")
  /\ cached' = [cached EXCEPT ![NameOf(c)] = [from |-> call[c].srv, ttl |-> Clamped(call[c].ttl)]]
  /\ Turns(c, "send")
  /\ UNCHANGED <<upstream, sinceSet, leaders>>

\* tx.send_replace: every follower has it; one that comes now finds it.
Tells(c) ==
  /\ Doing(c, "send")
  /\ call' = [f \in Callers |-> IF f = c THEN [call[c] EXCEPT !.pc = "leave"]
                                ELSE IF f \in FollowersOf(c) THEN [call[f] EXCEPT !.res = call[c].res]
                                ELSE call[f]]
  /\ UNCHANGED <<upstream, sinceSet, cached, leaders>>

\* Guard::drop removes the entry of the name, whosever it is.
GuardDrops(c) == leaders' = [leaders EXCEPT ![NameOf(c)] = NoOne]

Leaves(c) == Doing(c, "leave") /\ GuardDrops(c) /\ Becomes(c, Outside) /\ UNCHANGED <<upstream, sinceSet, cached>>

\* The future is dropped: of a leader first the guard and then the sender, ...
Cancelled(c) ==
  /\ call[c].pc \in Awaiting \cup {"wait"}
  /\ IF Doing(c, "wait") THEN Becomes(c, Outside) /\ UNCHANGED leaders
                      ELSE Turns(c, "drop") /\ GuardDrops(c)
  /\ UNCHANGED <<upstream, sinceSet, cached>>

\* ... which its followers notice.
SenderGone(c) ==
  /\ Doing(c, "drop")
  /\ call' = [f \in Callers |-> IF f = c THEN Outside
                                ELSE IF f \in FollowersOf(c) THEN [call[f] EXCEPT !.res = "closed"]
                                ELSE call[f]]
  /\ UNCHANGED <<upstream, sinceSet, cached, leaders>>

-----------------------------------------------------------------------------
(* Reload and time *)

\* set_from_cfg: neither the cache nor a query under way is told.
SetsServer(s) == /\ s # upstream
                 /\ upstream' = s /\ sinceSet' = 0
                 /\ UNCHANGED <<cached, leaders, call>>

Idling(c) == \/ Doing(c, "out")
             \/ call[c].left > 0 /\ \/ Doing(c, "wait") /\ call[c].res = "none"
                                    \/ Doing(c, "udp") /\ ~AttemptOver(c)
                                    \/ Doing(c, "tcp")

Less(n) == IF n = 0 THEN 0 ELSE n - 1

Ticks ==
  /\ \A c \in Callers : Idling(c)
  /\ sinceSet' = IF sinceSet = Long THEN Long ELSE sinceSet + 1
  /\ cached' = [n \in Names |-> [cached[n] EXCEPT !.ttl = Less(@)]]
  /\ call' = [c \in Callers |-> [call[c] EXCEPT !.left = Less(@),
                                   !.age = IF Doing(c, "udp") THEN @ + 1 ELSE @]]
  /\ UNCHANGED <<upstream, leaders>>

CallStep(c) == \/ Looks(c) \/ Leads(c) \/ Follows(c) \/ FollowerReturns(c) \/ FollowerRetries(c)
               \/ Queries(c) \/ Resends(c) \/ TimesOut(c) \/ MakesRoom(c) \/ Inserts(c)
               \/ Tells(c) \/ Leaves(c) \/ SenderGone(c)

RvNext ==
  \/ \E c \in Callers : \/ CallStep(c) \/ Truncated(c) \/ Cancelled(c)
                        \/ \E n \in Names : Resolves(c, n)
                        \/ \E ttl \in Ttls : Answered(c, ttl)
                        \/ \E kind \in {"notfound", "other"} : Refused(c, kind)
  \/ \E s \in Upstreams : SetsServer(s)
  \/ Ticks

\* A task goes on unless it awaits, and time passes however often others ask. No answer
\* is owed, nor any cancelling.
RvFair == /\ \A c \in Callers : WF_rvVars(CallStep(c))
          /\ SF_rvVars(Ticks)

RvSpec == RvInit /\ [][RvNext]_rvVars /\ RvFair

-----------------------------------------------------------------------------
(* Properties *)

\* However calls for a name overlap, end and are cancelled, one task at most queries
\* for it, and it is the one that leaders names: no guard removes another's entry.
OneLeader ==
  /\ \A c \in Callers : call[c].pc \in Leading => leaders[NameOf(c)] = c
  /\ \A n \in Names : leaders[n] # NoOne => /\ leaders[n] \in Callers
                                             /\ call[leaders[n]].pc \in Leading
                                             /\ NameOf(leaders[n]) = n

\* A follower that has been told nothing waits for a task that is still going to tell
\* it, or to be dropped: no wake-up is lost between the look at the cache, the entry
\* and the subscription.
NobodyStranded ==
  \A c \in Callers :
    Doing(c, "wait") /\ call[c].res = "none" =>
      LET l == call[c].lead
      IN  /\ l \in Callers /\ NameOf(l) = NameOf(c)
          /\ call[l].pc \in (Leading \ {"leave"}) \cup {"drop"}

\* The check of the cap and the insertion are two steps, so the cache exceeds it, but by
\* no more than the tasks that are between them.
SoftlyCapped ==
  NumKept(cached) + Cardinality({c \in Callers : Doing(c, "insert")})
    <= SoftCap + Cardinality(Callers) - 1

\* After a reload has set another server, what the old one said is used for no longer
\* than a query lasts and its answer lives, from the cache, by a leader or by a follower.
OldAnswersEnd ==
  /\ \A n \in Names : CacheHit(n) /\ cached[n].from # upstream => sinceSet + cached[n].ttl <= Patience + TtlMax
  /\ \A c \in Callers : \/ call[c].srv \in {NoOne, upstream}
                        \/ sinceSet + call[c].left <= Patience
  /\ \A c \in Callers : Doing(c, "wait") /\ call[c].res \in Upstreams \ {upstream} => sinceSet <= Patience

\* What the tasks that share the cache, the leaders and the server promise one another.
ResolverSafe == OneLeader /\ NobodyStranded /\ SoftlyCapped /\ OldAnswersEnd

\* A call ends, whatever the server, the leader and the reloads do.
CallsReturn == \A c \in Callers : []<>Doing(c, "out")
=============================================================================
