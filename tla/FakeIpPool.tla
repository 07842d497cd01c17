----------------------------- MODULE FakeIpPool -----------------------------
(***************************************************************************)
(* The fake-IP pool (sb-dns/pool.rs).  The DNS server answers an A query   *)
(* with an address of a private network (intern); when a connection to     *)
(* that address arrives, the engines ask which domain it stands for        *)
(* (lookback).  The network is cut into shards, each a mutex around a      *)
(* bounded map kept in both directions and a least-recently-used list      *)
(* threaded through a slab of nodes with a free list.                      *)
(*                                                                         *)
(* One call holds its shard's mutex throughout, so a call is one step.     *)
(* The fields of Node are separate functions of the slab index.  Domains   *)
(* are compared after lower-casing, so a domain here is a lower-case one.  *)
(***************************************************************************)
EXTENDS Integers, Sequences, FiniteSets

CONSTANTS
  Domain,          \* the names asked for
  Network, Bcast,  \* first and last address of fake_cidr
  MaxEntries,      \* max_entries
  Requested,       \* shards
  FirstOffset,     \* FIRST_OFFSET
  MinShardUsable,  \* MIN_SHARD_USABLE
  ProbeLimit,      \* PROBE_LIMIT
  HashRange,       \* the number of hash values, 2^64 in the code
  Rapid,           \* rapidhash of each domain
  Mix,             \* fmix64
  MixStep,         \* fmix64 of a hash xor'ed with the golden ratio
  MaxPoolRestarts      \* bound: restarts of the program

Lesser(a, b) == IF a <= b THEN a ELSE b
Most(a, b) == IF a >= b THEN a ELSE b
Within(x, a, b) == Lesser(Most(x, a), b)

\* cidr_geometry and the slicing in FakeIpPool::new
Lo == Network + FirstOffset
Usable == Bcast - Lo
NShards == Lesser(Most(Requested, 1), Most(Usable \div MinShardUsable, 1))
Span == Usable \div NShards
TotalCap == Within(MaxEntries, 1, Usable)
Cap == Within((TotalCap + NShards - 1) \div NShards, 1, Span)

Shards == 0 .. NShards - 1
ShardLo(s) == Lo + s * Span
Slice(s) == ShardLo(s) .. ShardLo(s) + Span - 1

Hashes == 0 .. HashRange - 1
fastrange(h, n) == (h * n) \div HashRange
probe_step(h, n) == IF n <= 1 THEN 1 ELSE 1 + fastrange(MixStep[h], n - 1)

ASSUME FakeIpConstants ==
  /\ IsFiniteSet(Domain)
  /\ Network \in Nat /\ Bcast \in Nat
  /\ MaxEntries \in Nat /\ Requested \in Nat
  /\ FirstOffset \in Nat
  /\ MinShardUsable \in Nat \ {0}
  /\ ProbeLimit \in Nat
  /\ HashRange \in Nat \ {0}
  /\ Rapid \in [Domain -> Hashes]
  /\ Mix \in [Hashes -> Hashes]
  /\ MixStep \in [Hashes -> Hashes]
  /\ MaxPoolRestarts \in Nat
  /\ Bcast > Lo          \* FakeIpPool::new refuses a network that is too small

VARIABLES
  shard,    \* per shard: the struct Shard
  given,    \* history: the address last answered for each domain, or NIL
  since,    \* history: the domains of its shard used since each was last used
  restarts  \* history: restarts so far

poolVars == <<shard, given, since, restarts>>
-----------------------------------------------------------------------------
\* u32::MAX, which is no slab index; also the answer None, an unmapped key and
\* the address find_free_ip panics over.
NIL == -1


\* The slab is as long as `len'; a key a HashMap lacks is mapped to NIL.
EmptyShard(s) ==
  [ip |-> <<>>, domain |-> <<>>, older |-> <<>>, newer |-> <<>>,
   len |-> 0, free |-> <<>>,
   by_domain |-> [d \in Domain |-> NIL],
   by_ip |-> [a \in Slice(s) |-> NIL],
   head |-> NIL, tail |-> NIL, count |-> 0]

\* f[i] = v in the slab; the code skips the write when i is NIL.
SetAt(f, i, v) == [j \in DOMAIN f |-> IF j = i THEN v ELSE f[j]]

\* f[i] = v where i may be the index just past the end.
Put(f, i, v) == [j \in (DOMAIN f) \cup {i} |-> IF j = i THEN v ELSE f[j]]

Unlink(sh, i) ==
  LET older == sh.older[i]
      newer == sh.newer[i]
  IN  [sh EXCEPT
         !.older = SetAt(SetAt(sh.older, newer, older), i, NIL),
         !.newer = SetAt(SetAt(sh.newer, older, newer), i, NIL),
         !.head = IF newer = NIL THEN older ELSE @,
         !.tail = IF older = NIL THEN newer ELSE @]

PushFront(sh, i) ==
  [sh EXCEPT
     !.older = SetAt(sh.older, i, sh.head),
     !.newer = SetAt(SetAt(sh.newer, i, NIL), sh.head, i),
     !.head = i,
     !.tail = IF @ = NIL THEN i ELSE @]

Promote(sh, i) == IF sh.head = i THEN sh ELSE PushFront(Unlink(sh, i), i)

EvictTail(sh) ==
  LET i == sh.tail
  IN  [Unlink(sh, i) EXCEPT
         !.by_ip = SetAt(sh.by_ip, sh.ip[i], NIL),
         !.by_domain = SetAt(sh.by_domain, sh.domain[i], NIL),
         !.domain = SetAt(sh.domain, i, NIL),
         !.free = Append(sh.free, i),
         !.count = sh.count - 1]

\* The offset find_free_ip tries k-th: the hashed place, ProbeLimit strides
\* from it, then every offset after it, wrapping around.
Candidate(h, k) ==
  LET place == fastrange(h, Span)
      step  == probe_step(h, Span)
      next  == place + (k - ProbeLimit)
  IN  IF k <= ProbeLimit THEN (place + k * step) % Span
      ELSE IF next >= Span THEN next - Span ELSE next

\* Mutant of FindFreeIp: the hashed place, taken or not.
FirstPlace(sh, s, h) == ShardLo(s) + Candidate(h, 0)

\* The first free candidate, or NIL where the code says unreachable!.
FindFreeIp(sh, s, h) ==
  LET free == {k \in 0 .. ProbeLimit + Span :
                 sh.by_ip[ShardLo(s) + Candidate(h, k)] = NIL}
  IN  IF free = {} THEN NIL
      ELSE ShardLo(s) + Candidate(h, CHOOSE k \in free : \A j \in free : k <= j)

\* alloc_node: reuse the index freed last, or grow the slab by one node.
AllocIdx(sh) == IF sh.free # <<>> THEN sh.free[Len(sh.free)] ELSE sh.len

AllocNode(sh, a, d) ==
  LET i == AllocIdx(sh)
  IN  [sh EXCEPT
         !.ip = Put(@, i, a),
         !.domain = Put(@, i, d),
         !.older = Put(@, i, NIL),
         !.newer = Put(@, i, NIL),
         !.len = IF i = sh.len THEN @ + 1 ELSE @,
         !.free = IF @ # <<>> THEN SubSeq(@, 1, Len(@) - 1) ELSE @,
         !.count = @ + 1]

\* Shard::intern of a domain the shard does not know
Bind(sh, s, d) ==
  LET room  == IF sh.count >= Cap THEN EvictTail(sh) ELSE sh
      a     == FindFreeIp(room, s, Mix[Rapid[d]])
      i     == AllocIdx(room)
      node  == AllocNode(room, a, d)
  IN  PushFront([node EXCEPT !.by_domain = SetAt(@, d, i),
                             !.by_ip = SetAt(@, a, i)], i)

\* Mutant of ShardIntern: looks for an address before it looks for the domain.
ShardInternAfresh(sh, s, d) ==
  LET a    == FindFreeIp(sh, s, Mix[Rapid[d]])
      room == EvictTail(sh)
      i    == AllocIdx(room)
      node == AllocNode(room, a, d)
  IN  IF sh.by_domain[d] = NIL THEN Bind(sh, s, d)
      ELSE IF sh.tail # sh.by_domain[d] \/ a = NIL THEN Promote(sh, sh.by_domain[d])
      ELSE PushFront([node EXCEPT !.by_domain = SetAt(@, d, i), !.by_ip = SetAt(@, a, i)], i)

ShardIntern(sh, s, d) ==
  IF sh.by_domain[d] # NIL THEN Promote(sh, sh.by_domain[d]) ELSE Bind(sh, s, d)

ShardOf(d) == fastrange(Rapid[d], NShards)

\* The address the shard has for the domain
AddressIn(sh, d) == sh.ip[sh.by_domain[d]]

\* The shard FakeIpPool::lookback asks, and its answer
LookbackShard(a) == (a - Lo) \div Span

Answer(a) ==
  LET s == LookbackShard(a)
  IN  IF a < Lo \/ s >= NShards THEN NIL
      ELSE LET i == shard[s].by_ip[a]
           IN  IF i = NIL THEN NIL ELSE shard[s].domain[i]
-----------------------------------------------------------------------------
\* History: d is used now.
Uses(d) ==
  since' = [e \in Domain |->
              IF e = d THEN {}
              ELSE IF ShardOf(e) = ShardOf(d) /\ given[e] # NIL
                   THEN since[e] \cup {d}
                   ELSE since[e]]

PoolInit ==
  /\ shard = [s \in Shards |-> EmptyShard(s)]
  /\ given = [d \in Domain |-> NIL]
  /\ since = [d \in Domain |-> {}]
  /\ restarts = 0

\* The DNS server answers an A query.
Intern(d) ==
  LET s  == ShardOf(d)
      sh == ShardIntern(shard[s], s, d)
  IN  /\ shard' = [shard EXCEPT ![s] = sh]
      /\ given' = [given EXCEPT ![d] = AddressIn(sh, d)]
      /\ Uses(d)
      /\ UNCHANGED restarts

\* A connection to a fake address is resolved.  A miss changes nothing.
Lookback(a) ==
  LET s == LookbackShard(a)
  IN  /\ Answer(a) # NIL
      /\ shard' = [shard EXCEPT ![s] = Promote(@, @.by_ip[a])]
      /\ Uses(Answer(a))
      /\ UNCHANGED <<given, restarts>>

\* The pool lives in memory only.
Restart ==
  /\ restarts < MaxPoolRestarts
  /\ restarts' = restarts + 1
  /\ shard' = [s \in Shards |-> EmptyShard(s)]
  /\ given' = [d \in Domain |-> NIL]
  /\ since' = [d \in Domain |-> {}]

PoolNext ==
  \/ \E d \in Domain : Intern(d)
  \/ \E a \in Network .. Bcast : Lookback(a)
  \/ Restart

PoolSpec == PoolInit /\ [][PoolNext]_poolVars
-----------------------------------------------------------------------------
Known(sh) == {d \in Domain : sh.by_domain[d] # NIL}
InUse(sh) == {sh.by_domain[d] : d \in Known(sh)}
Idx(sh) == 0 .. sh.len - 1
Link(sh) == [Idx(sh) -> Idx(sh) \cup {NIL}]

ShardType(sh, s) ==
  /\ sh.len \in Nat
  /\ sh.count \in Nat
  /\ sh.ip \in [Idx(sh) -> Slice(s)]
  /\ sh.domain \in [Idx(sh) -> Domain \cup {NIL}]
  /\ sh.older \in Link(sh)
  /\ sh.newer \in Link(sh)
  /\ sh.free \in Seq(Idx(sh))
  /\ sh.by_domain \in [Domain -> Idx(sh) \cup {NIL}]
  /\ sh.by_ip \in [Slice(s) -> Idx(sh) \cup {NIL}]
  /\ sh.head \in Idx(sh) \cup {NIL}
  /\ sh.tail \in Idx(sh) \cup {NIL}

\* The struct's fields have their types and every node an address of its own
\* shard's slice: the unreachable! at the end of find_free_ip is one.
FakeIpTypeOK ==
  /\ DOMAIN shard = Shards
  /\ \A s \in Shards : ShardType(shard[s], s)
  /\ given \in [Domain -> Int]
  /\ since \in [Domain -> SUBSET Domain]
  /\ restarts \in 0 .. MaxPoolRestarts

\* by_domain and by_ip describe one and the same set of bindings: every domain
\* known has a node with its name and an address that leads back to that node,
\* every address known has one whose domain leads to it, and count counts them.
ShardBijective(sh, s) ==
  /\ \A d \in Known(sh) :
       /\ sh.domain[sh.by_domain[d]] = d
       /\ sh.by_ip[sh.ip[sh.by_domain[d]]] = sh.by_domain[d]
       /\ ShardOf(d) = s
  /\ \A a \in Slice(s) : sh.by_ip[a] # NIL =>
       /\ sh.ip[sh.by_ip[a]] = a
       /\ sh.by_ip[a] \in InUse(sh)
  /\ sh.count = Cardinality(Known(sh))
  /\ sh.count <= Cap

\* After any sequence of intern and lookback the two maps of every shard are
\* inverse to each other and no larger than max_entries allows.
Bijective == \A s \in Shards : ShardBijective(shard[s], s)

\* The promise behind a DNS answer: the address given for a domain leads back to
\* it, through FakeIpPool::lookback's own arithmetic, as long as fewer other
\* domains of its shard than the shard has room for were used since.
LruGuarantee ==
  \A d \in Domain :
    given[d] # NIL /\ Cardinality(since[d]) < Cap => Answer(given[d]) = d

\* The list read off the links, from head along older
Walk(sh) ==
  LET node[n \in 1 .. sh.count] ==
        IF n = 1 THEN sh.head ELSE sh.older[node[n - 1]]
  IN  [n \in 1 .. sh.count |-> sh.domain[node[n]]]

Abstract ==
  INSTANCE FakeIp WITH
    Home <- [d \in Domain |-> ShardOf(d)],
    Addresses <- [s \in Shards |-> Slice(s)],
    None <- NIL,
    recent <- [s \in Shards |-> Walk(shard[s])],
    addr <- [d \in Domain |->
               IF shard[ShardOf(d)].by_domain[d] = NIL THEN NIL
               ELSE AddressIn(shard[ShardOf(d)], d)]

\* The slab, the links and the two maps implement a bounded map from domains to
\* addresses in order of use: a step that sets a shard is a step of FakeIp.
Implements == Abstract!Init /\ [][shard' # shard => [Abstract!Next]_(Abstract!ipVars)]_poolVars

\* A client can rely on an address it was given: the maps are inverse to each other,
\* and the name stays for as long as the shard has room for the names used since.
AddressesKept == FakeIpTypeOK /\ Bijective /\ LruGuarantee

=============================================================================
