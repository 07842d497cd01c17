-------------------------- MODULE FakeIpPoolProofs --------------------------
(***************************************************************************)
(* For any network, domains, hash functions and limits: the maps of every  *)
(* shard are inverse to each other, an address that was given leads back   *)
(* to its domain for as long as the shard has room for the domains used    *)
(* since, and the slab with its links implements the bounded map of        *)
(* FakeIp.                                                                 *)
(*                                                                         *)
(* The invariant names, for each shard, the chain of slab indices that the *)
(* links make from head to tail.  The operations are proved about chains,  *)
(* then as what they do to the list of domains (Walk) and to the address   *)
(* of each, and only that is used for the two theorems.                    *)
(***************************************************************************)
EXTENDS FakeIpPool, FiniteSetTheorems, SequenceTheorems, WellFoundedInduction, TLAPS

-----------------------------------------------------------------------------
\* A set of naturals that is not empty has a least element.
LEMMA LeastNat ==
  ASSUME NEW T \in SUBSET Nat, T # {}
  PROVE  \E m \in T : \A k \in T : m <= k
<1> DEFINE R == {ss \in Nat \X Nat : ss[1] < ss[2]}
<1>1. IsWellFoundedOn(R, Nat)
  BY NatLessThanWellFounded DEF OpToRel
<1> HIDE DEF R
<1>2. PICK x \in T : \A y \in T : ~ (<<y, x>> \in R)
  BY <1>1, WFMin
<1>3. \A y \in T : ~(y < x)
  BY <1>2 DEF R
<1> QED
  BY <1>3

-----------------------------------------------------------------------------
(***************************************************************************)
(* Geometry: where an address belongs, and where one is looked for.        *)
(***************************************************************************)

\* What a quotient is ...
LEMMA Quotient ==
  ASSUME NEW a \in Int, NEW b \in Nat \ {0}
  PROVE  a \div b \in Int /\ (a \div b) * b <= a /\ a < (a \div b) * b + b
OBVIOUS

\* ... in products that grow with a factor ...
LEMMA TimesMono ==
  ASSUME NEW a \in Int, NEW b \in Int, NEW c \in Nat, a <= b
  PROVE  a * c <= b * c
OBVIOUS

\* ... and that nothing else is.
LEMMA QuotientIs ==
  ASSUME NEW a \in Int, NEW b \in Nat \ {0}, NEW q \in Int, q * b <= a, a < q * b + b
  PROVE  a \div b = q
<1> DEFINE p == a \div b
<1>1. p \in Int /\ p * b <= a /\ a < p * b + b
  BY Quotient
<1> HIDE DEF p
<1>2. CASE p < q
  <2>1. (p + 1) * b <= q * b
    BY <1>1, <1>2, TimesMono
  <2>2. (p + 1) * b = p * b + b
    BY <1>1
  <2> QED
    BY <1>1, <2>1, <2>2
<1>3. CASE q < p
  <2>1. (q + 1) * b <= p * b
    BY <1>1, <1>3, TimesMono
  <2>2. (q + 1) * b = q * b + b
    OBVIOUS
  <2> QED
    BY <1>1, <2>1, <2>2
<1>4. p = q
  BY <1>1, <1>2, <1>3
<1> QED
  BY <1>4 DEF p

\* A quotient by more than zero is within 0 .. a, and more than zero if a reaches b.
LEMMA QuotientBounds ==
  ASSUME NEW a \in Nat, NEW b \in Nat \ {0}
  PROVE  a \div b \in 0 .. a /\ (b <= a => a \div b >= 1)
<1> DEFINE p == a \div b
<1>1. p \in Int /\ p * b <= a /\ a < p * b + b
  BY Quotient
<1> HIDE DEF p
<1>2. p >= 0
  <2> SUFFICES ASSUME p <= -1
               PROVE  FALSE
    BY <1>1
  <2>1. p * b <= (-1) * b
    BY <1>1, TimesMono
  <2> QED
    BY <1>1, <2>1
<1>3. p <= a
  <2>1. 1 * p <= b * p
    BY <1>1, <1>2, TimesMono
  <2>2. b * p = p * b
    BY <1>1
  <2> QED
    BY <1>1, <2>1, <2>2
<1>4. b <= a => p >= 1
  <2> SUFFICES ASSUME b <= a, p = 0
               PROVE  FALSE
    BY <1>1, <1>2
  <2> QED
    BY <1>1
<1> QED
  BY <1>1, <1>2, <1>3, <1>4 DEF p

\* fastrange stays below its second argument.
LEMMA FastrangeBelow ==
  ASSUME NEW h \in Hashes, NEW n \in Nat \ {0}
  PROVE  fastrange(h, n) \in 0 .. n - 1
<1> DEFINE p == fastrange(h, n)
<1>1. HashRange \in Nat \ {0} /\ h \in Nat /\ h <= HashRange - 1 /\ h * n \in Nat
  BY FakeIpConstants DEF Hashes
<1>2. p \in Nat
  BY <1>1, QuotientBounds DEF fastrange
<1>3. p * HashRange <= h * n
  BY <1>1, Quotient DEF fastrange
<1> HIDE DEF p
<1>4. h * n < HashRange * n
  <2>1. h * n <= (HashRange - 1) * n
    BY <1>1, TimesMono
  <2>2. (HashRange - 1) * n = HashRange * n - n
    BY <1>1
  <2>3. HashRange * n \in Nat
    BY <1>1
  <2> QED
    BY <1>1, <2>1, <2>2, <2>3
<1>5. p < n
  <2> SUFFICES ASSUME n <= p
               PROVE  FALSE
    BY <1>2
  <2>1. n * HashRange <= p * HashRange
    BY <1>1, <1>2, TimesMono
  <2>2. n * HashRange = HashRange * n /\ p * HashRange \in Int /\ HashRange * n \in Int
    BY <1>1, <1>2
  <2> QED
    BY <1>1, <1>3, <1>4, <2>1, <2>2
<1> QED
  BY <1>2, <1>5 DEF p

\* There is a shard, every shard has an address, and its domains fit in.
LEMMA Geometry ==
  /\ Lo \in Nat /\ NShards \in Nat \ {0} /\ Span \in Nat \ {0} /\ Cap \in 1 .. Span
  /\ \A s \in Shards : s \in Nat /\ ShardLo(s) \in Nat /\ Slice(s) \subseteq Nat
<1> DEFINE m == Most(Usable \div MinShardUsable, 1)
<1>1. Lo \in Nat /\ Usable \in Nat \ {0} /\ MinShardUsable \in Nat \ {0} /\ Requested \in Nat /\ MaxEntries \in Nat
  BY FakeIpConstants DEF Lo, Usable
<1>2. m \in 1 .. Usable
  <2>1. Usable \div MinShardUsable \in 0 .. Usable
    BY <1>1, QuotientBounds
  <2> QED
    BY <1>1, <2>1 DEF Most
<1>3. NShards \in 1 .. Usable
  <2>1. NShards = Lesser(Most(Requested, 1), m)
    BY DEF NShards
  <2> HIDE DEF m
  <2> QED
    BY <1>1, <1>2, <2>1 DEF Lesser, Most
<1>4. Span \in Nat \ {0}
  BY <1>1, <1>3, QuotientBounds DEF Span
<1>5. Cap \in 1 .. Span
  <2>1. TotalCap \in Nat
    BY <1>1 DEF TotalCap, Within, Lesser, Most
  <2>2. (TotalCap + NShards - 1) \div NShards \in Int
    BY <1>3, <2>1, Quotient
  <2> QED
    BY <1>4, <2>2 DEF Cap, Within, Lesser, Most
<1>6. ASSUME NEW s \in Shards
      PROVE  s \in Nat /\ ShardLo(s) \in Nat /\ Slice(s) \subseteq Nat
  <2>1. s \in Nat
    BY <1>3, <1>6 DEF Shards
  <2>2. ShardLo(s) \in Nat
    BY <1>1, <1>4, <2>1 DEF ShardLo
  <2> QED
    BY <1>4, <2>1, <2>2 DEF Slice
<1> QED
  BY <1>1, <1>3, <1>4, <1>5, <1>6

\* Every domain has a shard.
LEMMA ShardOfIs ==
  ASSUME NEW d \in Domain
  PROVE  ShardOf(d) \in Shards
BY Geometry, FastrangeBelow, FakeIpConstants DEF ShardOf, Shards

\* The shard that lookback asks is the one whose slice the address is of.
LEMMA LookbackShardIs ==
  /\ \A s \in Shards : \A a \in Slice(s) : a >= Lo /\ LookbackShard(a) = s
  /\ \A a \in Int : a >= Lo /\ LookbackShard(a) < NShards => /\ LookbackShard(a) \in Shards
                                                             /\ a \in Slice(LookbackShard(a))
<1>1. ASSUME NEW s \in Shards, NEW a \in Slice(s)
      PROVE  a >= Lo /\ LookbackShard(a) = s
  <2>1. s \in Nat /\ Lo \in Nat /\ Span \in Nat \ {0} /\ s * Span \in Nat
    BY Geometry
  <2>2. a \in Int /\ Lo + s * Span <= a /\ a <= Lo + s * Span + Span - 1
    BY <2>1 DEF Slice, ShardLo
  <2>3. s * Span <= a - Lo /\ a - Lo < s * Span + Span /\ a - Lo \in Int
    BY <2>1, <2>2
  <2> QED
    BY <2>1, <2>2, <2>3, QuotientIs DEF LookbackShard
<1>2. ASSUME NEW a \in Int, a >= Lo, LookbackShard(a) < NShards
      PROVE  LookbackShard(a) \in Shards /\ a \in Slice(LookbackShard(a))
  <2> DEFINE s == LookbackShard(a)
  <2>1. Lo \in Nat /\ Span \in Nat \ {0} /\ NShards \in Nat /\ a - Lo \in Nat
    BY <1>2, Geometry
  <2>2. s \in Nat
    BY <2>1, QuotientBounds DEF LookbackShard
  <2>3. s * Span <= a - Lo /\ a - Lo < s * Span + Span
    BY <2>1, Quotient DEF LookbackShard
  <2>4. s < NShards
    BY <1>2
  <2> HIDE DEF s
  <2>5. s * Span \in Nat
    BY <2>1, <2>2
  <2> QED
    BY <1>2, <2>1, <2>2, <2>3, <2>4, <2>5 DEF Shards, Slice, ShardLo, s
<1> QED
  BY <1>1, <1>2

\* The candidates are offsets within the slice, and every offset is one.
LEMMA CandidatesCover ==
  ASSUME NEW h \in Hashes
  PROVE  /\ \A k \in 0 .. ProbeLimit + Span : Candidate(h, k) \in 0 .. Span - 1
         /\ \A o \in 0 .. Span - 1 : \E k \in 0 .. ProbeLimit + Span : Candidate(h, k) = o
<1> DEFINE place == fastrange(h, Span)  step == probe_step(h, Span)
<1>1. Span \in Nat \ {0} /\ ProbeLimit \in Nat
  BY Geometry, FakeIpConstants
<1>2. place \in 0 .. Span - 1
  BY <1>1, FastrangeBelow
<1>3. step \in Nat
  <2>1. CASE Span <= 1
    BY <2>1 DEF probe_step
  <2>2. CASE Span > 1
    <3>1. Span - 1 \in Nat \ {0} /\ MixStep[h] \in Hashes
      BY <1>1, <2>2, FakeIpConstants
    <3>2. fastrange(MixStep[h], Span - 1) \in 0 .. Span - 1 - 1
      BY <3>1, FastrangeBelow
    <3> QED
      BY <1>1, <2>2, <3>2 DEF probe_step
  <2> QED
    BY <1>1, <2>1, <2>2
<1>4. ASSUME NEW k \in 0 .. ProbeLimit + Span
      PROVE  /\ k <= ProbeLimit => Candidate(h, k) = (place + k * step) % Span
             /\ ~(k <= ProbeLimit) => Candidate(h, k) = IF place + (k - ProbeLimit) >= Span
                                                       THEN place + (k - ProbeLimit) - Span
                                                       ELSE place + (k - ProbeLimit)
  <2>1. ASSUME k <= ProbeLimit
        PROVE  Candidate(h, k) = (place + k * step) % Span
    BY <2>1, Zenon DEF Candidate
  <2>2. ASSUME ~(k <= ProbeLimit)
        PROVE  Candidate(h, k) = IF place + (k - ProbeLimit) >= Span
                                 THEN place + (k - ProbeLimit) - Span
                                 ELSE place + (k - ProbeLimit)
    BY <1>1, <1>2, <1>3, <2>2 DEF Candidate
  <2> QED
    BY <2>1, <2>2
<1> HIDE DEF place, step
<1>5. ASSUME NEW k \in 0 .. ProbeLimit + Span
      PROVE  Candidate(h, k) \in 0 .. Span - 1
  <2>1. CASE k <= ProbeLimit
    <3>1. place + k * step \in Nat
      BY <1>1, <1>2, <1>3
    <3>2. Candidate(h, k) = (place + k * step) % Span
      BY <1>4, <2>1
    <3> QED
      BY <1>1, <3>1, <3>2
  <2>2. CASE ~(k <= ProbeLimit)
    BY <1>1, <1>2, <1>4, <2>2
  <2> QED
    BY <2>1, <2>2
<1>6. ASSUME NEW o \in 0 .. Span - 1
      PROVE  \E k \in 0 .. ProbeLimit + Span : Candidate(h, k) = o
  <2> DEFINE k == ProbeLimit + (IF o > place THEN o - place ELSE o - place + Span)
  <2>1. k \in 0 .. ProbeLimit + Span /\ ~(k <= ProbeLimit)
    BY <1>1, <1>2
  <2>2. k - ProbeLimit = IF o > place THEN o - place ELSE o - place + Span
    BY <1>1, <1>2
  <2> HIDE DEF k
  <2>3. Candidate(h, k) = o
    BY <1>1, <1>2, <1>4, <2>1, <2>2
  <2> QED
    BY <2>1, <2>3
<1> QED
  BY <1>5, <1>6
-----------------------------------------------------------------------------
(***************************************************************************)
(* The slab and its links.                                                 *)
(***************************************************************************)

\* A shard whose slab has n nodes.
Spots(n) == 0 .. n - 1
Optional(n) == Spots(n) \cup {NIL}
ShardRecs(n, s) ==
  [ip : [Spots(n) -> Slice(s)], domain : [Spots(n) -> Domain \cup {NIL}],
   older : [Spots(n) -> Optional(n)], newer : [Spots(n) -> Optional(n)],
   len : {n}, free : Seq(Spots(n)),
   by_domain : [Domain -> Optional(n)], by_ip : [Slice(s) -> Optional(n)],
   head : Optional(n), tail : Optional(n), count : Nat]

\* q is the chain of the m nodes that are linked, the newest first.
Chain(sh, q, m) ==
  /\ \A j, k \in 1 .. m : q[j] = q[k] => j = k
  /\ \A k \in 1 .. m : /\ sh.older[q[k]] = IF k = m THEN NIL ELSE q[k + 1]
                       /\ sh.newer[q[k]] = IF k = 1 THEN NIL ELSE q[k - 1]
  /\ sh.head = IF m = 0 THEN NIL ELSE q[1]
  /\ sh.tail = IF m = 0 THEN NIL ELSE q[m]

\* A chain without its p-th node, with a node before it, and with its p-th node first.
Without(q, m, p) == [k \in 1 .. m - 1 |-> IF k < p THEN q[k] ELSE q[k + 1]]
Before(i, q, m) == [k \in 1 .. m + 1 |-> IF k = 1 THEN i ELSE q[k - 1]]
Moved(q, m, p) == [k \in 1 .. m |-> IF k = 1 THEN q[p] ELSE IF k <= p THEN q[k - 1] ELSE q[k]]

\* One write to a slab or a map.
LEMMA SetAtIs ==
  ASSUME NEW D, NEW S, NEW f \in [D -> S], NEW i, NEW v \in S
  PROVE  /\ SetAt(f, i, v) \in [D -> S]
         /\ \A j \in D : SetAt(f, i, v)[j] = IF j = i THEN v ELSE f[j]
BY DEF SetAt

\* The same for the links of the nodes.
LEMMA LinkTyped ==
  ASSUME NEW n \in Nat, NEW f \in [Spots(n) -> Optional(n)], NEW i, NEW v \in Optional(n)
  PROVE  SetAt(f, i, v) \in [Spots(n) -> Optional(n)]
BY SetAtIs

\* The same, whatever the types are.
LEMMA SetAtAt ==
  ASSUME NEW f, NEW i, NEW v
  PROVE  \A j \in DOMAIN f : SetAt(f, i, v)[j] = IF j = i THEN v ELSE f[j]
BY DEF SetAt

\* What unlink writes.
LEMMA UnlinkIs ==
  ASSUME NEW n \in Nat, NEW s, NEW sh \in ShardRecs(n, s), NEW i \in Spots(n)
  PROVE  /\ Unlink(sh, i) \in ShardRecs(n, s)
         /\ \A j \in Spots(n) :
              /\ Unlink(sh, i).older[j] = IF j = i THEN NIL ELSE IF j = sh.newer[i] THEN sh.older[i] ELSE sh.older[j]
              /\ Unlink(sh, i).newer[j] = IF j = i THEN NIL ELSE IF j = sh.older[i] THEN sh.newer[i] ELSE sh.newer[j]
         /\ Unlink(sh, i).head = IF sh.newer[i] = NIL THEN sh.older[i] ELSE sh.head
         /\ Unlink(sh, i).tail = IF sh.older[i] = NIL THEN sh.newer[i] ELSE sh.tail
         /\ Unlink(sh, i).ip = sh.ip /\ Unlink(sh, i).domain = sh.domain
         /\ Unlink(sh, i).by_domain = sh.by_domain /\ Unlink(sh, i).by_ip = sh.by_ip
         /\ Unlink(sh, i).len = sh.len /\ Unlink(sh, i).free = sh.free /\ Unlink(sh, i).count = sh.count
<1> DEFINE o == SetAt(SetAt(sh.older, sh.newer[i], sh.older[i]), i, NIL)
           w == SetAt(SetAt(sh.newer, sh.older[i], sh.newer[i]), i, NIL)
           h == IF sh.newer[i] = NIL THEN sh.older[i] ELSE sh.head
           t == IF sh.older[i] = NIL THEN sh.newer[i] ELSE sh.tail
<1>1. /\ sh.older \in [Spots(n) -> Optional(n)] /\ sh.newer \in [Spots(n) -> Optional(n)]
      /\ sh.head \in Optional(n) /\ sh.tail \in Optional(n) /\ NIL \in Optional(n)
  BY DEF ShardRecs, Optional
<1>2. sh.older[i] \in Optional(n) /\ sh.newer[i] \in Optional(n)
  BY <1>1
<1>3. /\ o \in [Spots(n) -> Optional(n)] /\ w \in [Spots(n) -> Optional(n)]
      /\ \A j \in Spots(n) : o[j] = IF j = i THEN NIL ELSE IF j = sh.newer[i] THEN sh.older[i] ELSE sh.older[j]
      /\ \A j \in Spots(n) : w[j] = IF j = i THEN NIL ELSE IF j = sh.older[i] THEN sh.newer[i] ELSE sh.newer[j]
  <2> DEFINE oo == SetAt(sh.older, sh.newer[i], sh.older[i])  ww == SetAt(sh.newer, sh.older[i], sh.newer[i])
  <2>1. oo \in [Spots(n) -> Optional(n)] /\ ww \in [Spots(n) -> Optional(n)]
    <3>1. oo \in [Spots(n) -> Optional(n)]
      BY <1>1, <1>2, LinkTyped
    <3>2. ww \in [Spots(n) -> Optional(n)]
      BY <1>1, <1>2, LinkTyped
    <3> QED
      BY <3>1, <3>2
  <2>2. /\ \A j \in Spots(n) : oo[j] = IF j = sh.newer[i] THEN sh.older[i] ELSE sh.older[j]
        /\ \A j \in Spots(n) : ww[j] = IF j = sh.older[i] THEN sh.newer[i] ELSE sh.newer[j]
    BY <1>1, SetAtAt
  <2>3. o = SetAt(oo, i, NIL) /\ w = SetAt(ww, i, NIL)
    BY Zenon
  <2> HIDE DEF oo, ww, o, w
  <2>4. o \in [Spots(n) -> Optional(n)] /\ w \in [Spots(n) -> Optional(n)]
    BY <1>1, <2>1, <2>3, LinkTyped
  <2>5. /\ \A j \in Spots(n) : o[j] = IF j = i THEN NIL ELSE oo[j]
        /\ \A j \in Spots(n) : w[j] = IF j = i THEN NIL ELSE ww[j]
    BY <2>1, <2>3, SetAtAt
  <2> QED
    BY <2>2, <2>4, <2>5
<1>4. h \in Optional(n) /\ t \in Optional(n)
  BY <1>1, <1>2
<1>5. Unlink(sh, i) = [sh EXCEPT !.older = o, !.newer = w, !.head = h, !.tail = t]
  BY DEF Unlink
<1> HIDE DEF o, w, h, t
<1>6. /\ Unlink(sh, i) \in ShardRecs(n, s)
      /\ Unlink(sh, i).older = o /\ Unlink(sh, i).newer = w /\ Unlink(sh, i).head = h /\ Unlink(sh, i).tail = t
      /\ Unlink(sh, i).ip = sh.ip /\ Unlink(sh, i).domain = sh.domain
      /\ Unlink(sh, i).by_domain = sh.by_domain /\ Unlink(sh, i).by_ip = sh.by_ip
      /\ Unlink(sh, i).len = sh.len /\ Unlink(sh, i).free = sh.free /\ Unlink(sh, i).count = sh.count
  <2> DEFINE c == [sh EXCEPT !.older = o, !.newer = w]
  <2>1. /\ c \in ShardRecs(n, s) /\ c.older = o /\ c.newer = w /\ c.ip = sh.ip /\ c.domain = sh.domain
        /\ c.by_domain = sh.by_domain /\ c.by_ip = sh.by_ip
        /\ c.len = sh.len /\ c.free = sh.free /\ c.count = sh.count
    BY <1>3 DEF ShardRecs
  <2>2. Unlink(sh, i) = [c EXCEPT !.head = h, !.tail = t]
    BY <1>5
  <2> HIDE DEF c
  <2> QED
    BY <1>4, <2>1, <2>2 DEF ShardRecs
<1> QED
  BY <1>3, <1>6 DEF h, t

\* What push_front writes.
LEMMA PushFrontIs ==
  ASSUME NEW n \in Nat, NEW s, NEW sh \in ShardRecs(n, s), NEW i \in Spots(n)
  PROVE  /\ PushFront(sh, i) \in ShardRecs(n, s)
         /\ \A j \in Spots(n) :
              /\ PushFront(sh, i).older[j] = IF j = i THEN sh.head ELSE sh.older[j]
              /\ PushFront(sh, i).newer[j] = IF j = sh.head THEN i ELSE IF j = i THEN NIL ELSE sh.newer[j]
         /\ PushFront(sh, i).head = i
         /\ PushFront(sh, i).tail = IF sh.tail = NIL THEN i ELSE sh.tail
         /\ PushFront(sh, i).ip = sh.ip /\ PushFront(sh, i).domain = sh.domain
         /\ PushFront(sh, i).by_domain = sh.by_domain /\ PushFront(sh, i).by_ip = sh.by_ip
         /\ PushFront(sh, i).len = sh.len /\ PushFront(sh, i).free = sh.free /\ PushFront(sh, i).count = sh.count
<1> DEFINE o == SetAt(sh.older, i, sh.head)
           w == SetAt(SetAt(sh.newer, i, NIL), sh.head, i)
           t == IF sh.tail = NIL THEN i ELSE sh.tail
<1>1. /\ sh.older \in [Spots(n) -> Optional(n)] /\ sh.newer \in [Spots(n) -> Optional(n)]
      /\ sh.head \in Optional(n) /\ sh.tail \in Optional(n) /\ NIL \in Optional(n) /\ i \in Optional(n)
  BY DEF ShardRecs, Optional
<1>2. /\ o \in [Spots(n) -> Optional(n)] /\ w \in [Spots(n) -> Optional(n)] /\ t \in Optional(n)
      /\ \A j \in Spots(n) : o[j] = IF j = i THEN sh.head ELSE sh.older[j]
      /\ \A j \in Spots(n) : w[j] = IF j = sh.head THEN i ELSE IF j = i THEN NIL ELSE sh.newer[j]
  <2> DEFINE ww == SetAt(sh.newer, i, NIL)
  <2>1. ww \in [Spots(n) -> Optional(n)] /\ o \in [Spots(n) -> Optional(n)]
    BY <1>1, LinkTyped
  <2>2. /\ \A j \in Spots(n) : o[j] = IF j = i THEN sh.head ELSE sh.older[j]
        /\ \A j \in Spots(n) : ww[j] = IF j = i THEN NIL ELSE sh.newer[j]
    BY <1>1, SetAtAt
  <2>3. w = SetAt(ww, sh.head, i)
    BY Zenon
  <2> HIDE DEF ww, o, w
  <2>4. w \in [Spots(n) -> Optional(n)]
    BY <1>1, <2>1, <2>3, LinkTyped
  <2>5. \A j \in Spots(n) : w[j] = IF j = sh.head THEN i ELSE ww[j]
    BY <2>1, <2>3, SetAtAt
  <2>6. t \in Optional(n)
    BY <1>1
  <2> QED
    BY <2>1, <2>2, <2>4, <2>5, <2>6
<1>3. PushFront(sh, i) = [sh EXCEPT !.older = o, !.newer = w, !.head = i, !.tail = t]
  BY DEF PushFront
<1> HIDE DEF o, w, t
<1>4. /\ PushFront(sh, i) \in ShardRecs(n, s)
      /\ PushFront(sh, i).older = o /\ PushFront(sh, i).newer = w /\ PushFront(sh, i).head = i
      /\ PushFront(sh, i).tail = t /\ PushFront(sh, i).ip = sh.ip /\ PushFront(sh, i).domain = sh.domain
      /\ PushFront(sh, i).by_domain = sh.by_domain /\ PushFront(sh, i).by_ip = sh.by_ip
      /\ PushFront(sh, i).len = sh.len /\ PushFront(sh, i).free = sh.free /\ PushFront(sh, i).count = sh.count
  <2> DEFINE c == [sh EXCEPT !.older = o, !.newer = w]
  <2>1. /\ c \in ShardRecs(n, s) /\ c.older = o /\ c.newer = w /\ c.ip = sh.ip /\ c.domain = sh.domain
        /\ c.by_domain = sh.by_domain /\ c.by_ip = sh.by_ip
        /\ c.len = sh.len /\ c.free = sh.free /\ c.count = sh.count
    BY <1>2 DEF ShardRecs
  <2>2. PushFront(sh, i) = [c EXCEPT !.head = i, !.tail = t]
    BY <1>3
  <2> HIDE DEF c
  <2>3. i \in Optional(n) /\ t \in Optional(n)
    BY <1>1, <1>2
  <2> QED
    BY <2>1, <2>2, <2>3 DEF ShardRecs
<1> QED
  BY <1>2, <1>4 DEF t

\* unlink takes a node out of the chain.
LEMMA UnlinkChain ==
  ASSUME NEW n \in Nat, NEW s, NEW sh \in ShardRecs(n, s), NEW m \in Nat, NEW q \in [1 .. m -> Spots(n)],
         Chain(sh, q, m), NEW p \in 1 .. m
  PROVE  Without(q, m, p) \in [1 .. m - 1 -> Spots(n)] /\ Chain(Unlink(sh, q[p]), Without(q, m, p), m - 1)
<1> DEFINE i == q[p]  u == Unlink(sh, i)  r == Without(q, m, p)
<1>1. i \in Spots(n) /\ \A k \in 1 .. m : q[k] \in Spots(n) /\ q[k] # NIL
  BY DEF Spots, NIL
<1>2. /\ sh.older \in [Spots(n) -> Optional(n)] /\ sh.newer \in [Spots(n) -> Optional(n)] /\ NIL \in Optional(n)
      /\ sh.older[i] = (IF p = m THEN NIL ELSE q[p + 1]) /\ sh.newer[i] = (IF p = 1 THEN NIL ELSE q[p - 1])
  BY DEF ShardRecs, Optional, Chain
<1>3. sh.older[i] \in Optional(n) /\ sh.newer[i] \in Optional(n)
  BY <1>1, <1>2
<1>4. \A j \in Spots(n) :
        /\ u.older[j] = IF j = i THEN NIL ELSE IF j = sh.newer[i] THEN sh.older[i] ELSE sh.older[j]
        /\ u.newer[j] = IF j = i THEN NIL ELSE IF j = sh.older[i] THEN sh.newer[i] ELSE sh.newer[j]
  BY <1>1, UnlinkIs
<1>5. /\ u.head = IF sh.newer[i] = NIL THEN sh.older[i] ELSE sh.head
      /\ u.tail = IF sh.older[i] = NIL THEN sh.newer[i] ELSE sh.tail
  BY <1>1, UnlinkIs
<1>6. /\ \A k \in 1 .. m - 1 : r[k] = IF k < p THEN q[k] ELSE q[k + 1]
      /\ r \in [1 .. m - 1 -> Spots(n)]
  BY <1>1 DEF Without
<1> HIDE DEF i, u, r
<1>7. \A j, k \in 1 .. m - 1 : r[j] = r[k] => j = k
  <2> DEFINE at(k) == IF k < p THEN k ELSE k + 1
  <2>1. \A k \in 1 .. m - 1 : at(k) \in 1 .. m /\ r[k] = q[at(k)]
    BY <1>6
  <2>2. \A j, k \in 1 .. m - 1 : at(j) = at(k) => j = k
    OBVIOUS
  <2> HIDE DEF at
  <2> QED
    BY <2>1, <2>2 DEF Chain
<1>8. ASSUME NEW k \in 1 .. m - 1
      PROVE  u.older[r[k]] = IF k = m - 1 THEN NIL ELSE r[k + 1]
  <2>1. CASE k < p - 1
    <3>1. /\ r[k] = q[k] /\ r[k + 1] = q[k + 1] /\ k + 1 \in 1 .. m /\ k # p /\ k # m /\ k # m - 1 /\ k \in 1 .. m
          /\ p # 1 => p - 1 \in 1 .. m /\ k # p - 1
      BY <1>6, <2>1
    <3>2. q[k] # i /\ q[k] # sh.newer[i]
      BY <1>1, <1>2, <3>1 DEF Chain, i
    <3> QED
      BY <1>1, <1>4, <3>1, <3>2 DEF Chain
  <2>2. CASE k = p - 1
    <3>1. r[k] = q[k] /\ k \in 1 .. m /\ p # 1 /\ k # p /\ k + 1 = p /\ (k # m - 1 => r[k + 1] = q[p + 1]) /\ (k = m - 1 <=> p = m)
      BY <1>6, <2>2
    <3>2. q[k] # i /\ q[k] = sh.newer[i]
      BY <1>1, <1>2, <2>2, <3>1 DEF Chain, i
    <3> QED
      BY <1>1, <1>2, <1>4, <3>1, <3>2
  <2>3. CASE k >= p
    <3>1. /\ r[k] = q[k + 1] /\ k + 1 \in 1 .. m /\ k + 1 # p /\ (k # m - 1 => r[k + 1] = q[k + 2] /\ k + 1 # m)
          /\ (k = m - 1 => k + 1 = m) /\ (p # 1 => p - 1 \in 1 .. m /\ k + 1 # p - 1) /\ (k + 1) + 1 = k + 2
      BY <1>6, <2>3
    <3>2. q[k + 1] # i /\ q[k + 1] # sh.newer[i]
      BY <1>1, <1>2, <3>1 DEF Chain, i
    <3>3. sh.older[q[k + 1]] = IF k + 1 = m THEN NIL ELSE q[k + 2]
      BY <3>1 DEF Chain
    <3> QED
      BY <1>1, <1>4, <3>1, <3>2, <3>3
  <2> QED
    BY <2>1, <2>2, <2>3
<1>9. ASSUME NEW k \in 1 .. m - 1
      PROVE  u.newer[r[k]] = IF k = 1 THEN NIL ELSE r[k - 1]
  <2>1. CASE k < p
    <3>1. /\ r[k] = q[k] /\ (k # 1 => r[k - 1] = q[k - 1]) /\ k \in 1 .. m /\ k # p
          /\ p # m => p + 1 \in 1 .. m /\ k # p + 1
      BY <1>6, <2>1
    <3>2. q[k] # i /\ q[k] # sh.older[i]
      BY <1>1, <1>2, <3>1 DEF Chain, i
    <3> QED
      BY <1>1, <1>4, <3>1, <3>2 DEF Chain
  <2>2. CASE k = p
    <3>1. /\ r[k] = q[p + 1] /\ p + 1 \in 1 .. m /\ p + 1 # p /\ p # m
          /\ (k # 1 => r[k - 1] = q[p - 1]) /\ (k = 1 <=> p = 1)
      BY <1>6, <2>2
    <3>2. q[p + 1] # i /\ q[p + 1] = sh.older[i]
      BY <1>1, <1>2, <3>1 DEF Chain, i
    <3> QED
      BY <1>1, <1>2, <1>4, <3>1, <3>2
  <2>3. CASE k > p
    <3>1. /\ r[k] = q[k + 1] /\ k + 1 \in 1 .. m /\ k + 1 # p /\ k + 1 # 1 /\ k # 1 /\ r[k - 1] = q[k]
          /\ (p # m => p + 1 \in 1 .. m /\ k + 1 # p + 1) /\ (k + 1) - 1 = k
      BY <1>6, <2>3
    <3>2. q[k + 1] # i /\ q[k + 1] # sh.older[i]
      BY <1>1, <1>2, <3>1 DEF Chain, i
    <3>3. sh.newer[q[k + 1]] = q[k]
      BY <3>1 DEF Chain
    <3> QED
      BY <1>1, <1>4, <3>1, <3>2, <3>3
  <2> QED
    BY <2>1, <2>2, <2>3
<1>10. u.head = IF m - 1 = 0 THEN NIL ELSE r[1]
  <2>1. CASE p = 1
    BY <1>1, <1>2, <1>5, <1>6, <2>1
  <2>2. CASE p # 1
    <3>1. m - 1 # 0 /\ r[1] = q[1] /\ m # 0 /\ p - 1 \in 1 .. m
      BY <1>6, <2>2
    <3> QED
      BY <1>1, <1>2, <1>5, <2>2, <3>1 DEF Chain
  <2> QED
    BY <2>1, <2>2
<1>11. u.tail = IF m - 1 = 0 THEN NIL ELSE r[m - 1]
  <2>1. CASE p = m
    <3>1. m - 1 # 0 => r[m - 1] = q[m - 1] /\ p # 1
      BY <1>6, <2>1
    <3> QED
      BY <1>1, <1>2, <1>5, <2>1, <3>1
  <2>2. CASE p # m
    <3>1. m - 1 # 0 /\ r[m - 1] = q[m] /\ m # 0 /\ p + 1 \in 1 .. m
      BY <1>6, <2>2
    <3> QED
      BY <1>1, <1>2, <1>5, <2>2, <3>1 DEF Chain
  <2> QED
    BY <2>1, <2>2
<1> QED
  BY <1>6, <1>7, <1>8, <1>9, <1>10, <1>11 DEF Chain, i, u, r

\* push_front puts a node before the chain.
LEMMA PushFrontChain ==
  ASSUME NEW n \in Nat, NEW s, NEW sh \in ShardRecs(n, s), NEW m \in Nat, NEW q \in [1 .. m -> Spots(n)],
         Chain(sh, q, m), NEW i \in Spots(n), \A k \in 1 .. m : q[k] # i
  PROVE  Before(i, q, m) \in [1 .. m + 1 -> Spots(n)] /\ Chain(PushFront(sh, i), Before(i, q, m), m + 1)
<1> DEFINE u == PushFront(sh, i)  r == Before(i, q, m)
<1>1. i # NIL /\ \A k \in 1 .. m : q[k] \in Spots(n) /\ q[k] # NIL
  BY DEF Spots, NIL
<1>2. /\ sh.older \in [Spots(n) -> Optional(n)] /\ sh.newer \in [Spots(n) -> Optional(n)]
      /\ NIL \in Optional(n) /\ i \in Optional(n) /\ sh.head \in Optional(n)
  BY DEF ShardRecs, Optional
<1>3. \A j \in Spots(n) :
        /\ u.older[j] = IF j = i THEN sh.head ELSE sh.older[j]
        /\ u.newer[j] = IF j = sh.head THEN i ELSE IF j = i THEN NIL ELSE sh.newer[j]
  BY PushFrontIs
<1>4. u.head = i /\ u.tail = IF sh.tail = NIL THEN i ELSE sh.tail
  BY PushFrontIs
<1>5. /\ \A k \in 1 .. m + 1 : r[k] = IF k = 1 THEN i ELSE q[k - 1]
      /\ r \in [1 .. m + 1 -> Spots(n)]
  BY DEF Before
<1> HIDE DEF u, r
<1>6. \A j, k \in 1 .. m + 1 : r[j] = r[k] => j = k
  BY <1>5 DEF Chain
<1>7. ASSUME NEW k \in 1 .. m + 1
      PROVE  /\ u.older[r[k]] = IF k = m + 1 THEN NIL ELSE r[k + 1]
             /\ u.newer[r[k]] = IF k = 1 THEN NIL ELSE r[k - 1]
  <2>1. CASE k = 1
    <3>1. r[1] = i /\ (m # 0 => r[2] = q[1] /\ 1 \in 1 .. m) /\ (k = m + 1 <=> m = 0) /\ k + 1 = 2
      BY <1>5, <2>1
    <3>2. sh.head = (IF m = 0 THEN NIL ELSE q[1]) /\ i # sh.head
      BY <1>1, <3>1 DEF Chain
    <3> QED
      BY <1>3, <2>1, <3>1, <3>2
  <2>2. CASE k = 2
    <3>1. r[2] = q[1] /\ r[1] = i /\ 1 \in 1 .. m /\ (k # m + 1 => r[3] = q[2]) /\ (k = m + 1 <=> m = 1) /\ m # 0
          /\ k + 1 = 3 /\ k - 1 = 1 /\ 1 + 1 = 2 /\ (1 = m <=> m = 1)
      BY <1>5, <2>2
    <3>2. sh.head = q[1] /\ q[1] # i
      BY <1>1, <3>1 DEF Chain
    <3> QED
      BY <1>1, <1>3, <2>2, <3>1, <3>2 DEF Chain
  <2>3. CASE k > 2
    <3>1. /\ r[k] = q[k - 1] /\ k - 1 \in 1 .. m /\ k - 1 # 1 /\ r[k - 1] = q[k - 2] /\ (k # m + 1 => r[k + 1] = q[k])
          /\ (k = m + 1 <=> k - 1 = m) /\ m # 0 /\ 1 \in 1 .. m /\ (k - 1) - 1 = k - 2 /\ (k - 1) + 1 = k /\ k # 1
      BY <1>5, <2>3
    <3>2. sh.head = q[1] /\ q[k - 1] # i /\ q[k - 1] # sh.head
      BY <1>1, <3>1 DEF Chain
    <3> QED
      BY <1>1, <1>3, <3>1, <3>2 DEF Chain
  <2> QED
    BY <2>1, <2>2, <2>3
<1>8. u.tail = r[m + 1]
  <2>1. CASE m = 0
    BY <1>4, <1>5, <2>1 DEF Chain
  <2>2. CASE m # 0
    <3>1. m \in 1 .. m /\ r[m + 1] = q[m]
      BY <1>5, <2>2
    <3> QED
      BY <1>1, <1>4, <2>2, <3>1 DEF Chain
  <2> QED
    BY <2>1, <2>2
<1>9. u.head = r[1] /\ m + 1 # 0
  BY <1>4, <1>5
<1> QED
  BY <1>5, <1>6, <1>7, <1>8, <1>9 DEF Chain, u, r
-----------------------------------------------------------------------------
(***************************************************************************)
(* The maps and the free list.                                             *)
(***************************************************************************)

\* The maps lead to the nodes of the chain and nowhere else.
Mapped(sh, s, q, m) ==
  /\ \A k \in 1 .. m : /\ sh.domain[q[k]] \in Domain
                       /\ ShardOf(sh.domain[q[k]]) = s
                       /\ sh.by_domain[sh.domain[q[k]]] = q[k]
                       /\ sh.by_ip[sh.ip[q[k]]] = q[k]
  /\ \A d \in Domain : sh.by_domain[d] # NIL => \E k \in 1 .. m : q[k] = sh.by_domain[d] /\ sh.domain[q[k]] = d
  /\ \A a \in Slice(s) : sh.by_ip[a] # NIL => \E k \in 1 .. m : q[k] = sh.by_ip[a] /\ sh.ip[q[k]] = a

\* The free list names each index once, and none of the chain.
Unused(sh, q, m) ==
  /\ \A j, k \in 1 .. Len(sh.free) : sh.free[j] = sh.free[k] => j = k
  /\ \A j \in 1 .. Len(sh.free) : \A k \in 1 .. m : sh.free[j] # q[k]

\* A shard with n nodes, m of them linked.
ShardOK(sh, s, q, n, m) ==
  /\ sh \in ShardRecs(n, s) /\ sh.count = m /\ m <= Cap
  /\ q \in [1 .. m -> Spots(n)] /\ Chain(sh, q, m)
  /\ Mapped(sh, s, q, m) /\ Unused(sh, q, m)

\* The order of the chain is nothing to the maps.
LEMMA Permuted ==
  ASSUME NEW n \in Nat, NEW m \in Nat, NEW s, NEW sh \in ShardRecs(n, s), NEW t \in ShardRecs(n, s),
         NEW q \in [1 .. m -> Spots(n)], NEW r \in [1 .. m -> Spots(n)],
         t.ip = sh.ip, t.domain = sh.domain, t.by_domain = sh.by_domain, t.by_ip = sh.by_ip, t.free = sh.free,
         \A k \in 1 .. m : \E j \in 1 .. m : r[k] = q[j],
         \A k \in 1 .. m : \E j \in 1 .. m : q[k] = r[j],
         Mapped(sh, s, q, m), Unused(sh, q, m)
  PROVE  Mapped(t, s, r, m) /\ Unused(t, r, m)
<1>0. /\ sh.free \in Seq(Spots(n)) /\ sh.ip \in [Spots(n) -> Slice(s)] /\ sh.domain \in [Spots(n) -> Domain \cup {NIL}]
      /\ sh.by_domain \in [Domain -> Optional(n)] /\ sh.by_ip \in [Slice(s) -> Optional(n)]
  BY DEF ShardRecs
<1>1. Mapped(t, s, r, m)
  <2>1. ASSUME NEW k \in 1 .. m
        PROVE  /\ sh.domain[r[k]] \in Domain /\ ShardOf(sh.domain[r[k]]) = s
               /\ sh.by_domain[sh.domain[r[k]]] = r[k] /\ sh.by_ip[sh.ip[r[k]]] = r[k]
    <3>1. PICK l \in 1 .. m : r[k] = q[l]
      OBVIOUS
    <3>2. /\ sh.domain[q[l]] \in Domain /\ ShardOf(sh.domain[q[l]]) = s
          /\ sh.by_domain[sh.domain[q[l]]] = q[l] /\ sh.by_ip[sh.ip[q[l]]] = q[l]
      BY DEF Mapped
    <3> QED
      BY <3>1, <3>2
  <2>2. ASSUME NEW d \in Domain, sh.by_domain[d] # NIL
        PROVE  \E k \in 1 .. m : r[k] = sh.by_domain[d] /\ sh.domain[r[k]] = d
    <3>1. PICK k \in 1 .. m : q[k] = sh.by_domain[d] /\ sh.domain[q[k]] = d
      BY <2>2 DEF Mapped
    <3>2. PICK j \in 1 .. m : q[k] = r[j]
      OBVIOUS
    <3> QED
      BY <3>1, <3>2
  <2>3. ASSUME NEW a \in Slice(s), sh.by_ip[a] # NIL
        PROVE  \E k \in 1 .. m : r[k] = sh.by_ip[a] /\ sh.ip[r[k]] = a
    <3>1. PICK k \in 1 .. m : q[k] = sh.by_ip[a] /\ sh.ip[q[k]] = a
      BY <2>3 DEF Mapped
    <3>2. PICK j \in 1 .. m : q[k] = r[j]
      OBVIOUS
    <3> QED
      BY <3>1, <3>2
  <2> QED
    BY <2>1, <2>2, <2>3 DEF Mapped
<1>2. Unused(t, r, m)
  <2>1. ASSUME NEW j \in 1 .. Len(sh.free), NEW k \in 1 .. m
        PROVE  sh.free[j] # r[k]
    <3>1. PICK l \in 1 .. m : r[k] = q[l]
      OBVIOUS
    <3>2. sh.free[j] # q[l]
      BY DEF Unused
    <3> QED
      BY <3>1, <3>2
  <2>2. \A j, k \in 1 .. Len(sh.free) : sh.free[j] = sh.free[k] => j = k
    BY DEF Unused
  <2> QED
    BY <2>1, <2>2 DEF Unused
<1> QED
  BY <1>1, <1>2

\* promote moves one node of the chain to the front.
LEMMA PromoteOK ==
  ASSUME NEW n \in Nat, NEW m \in Nat, NEW s, NEW sh, NEW q, ShardOK(sh, s, q, n, m), NEW p \in 1 .. m
  PROVE  /\ ShardOK(Promote(sh, q[p]), s, Moved(q, m, p), n, m)
         /\ Promote(sh, q[p]).ip = sh.ip /\ Promote(sh, q[p]).domain = sh.domain
         /\ Promote(sh, q[p]).by_domain = sh.by_domain /\ Promote(sh, q[p]).by_ip = sh.by_ip
<1> DEFINE i == q[p]  u == Unlink(sh, i)  t == Promote(sh, i)  w == Without(q, m, p)  r == Before(i, w, m - 1)
<1>0. /\ sh \in ShardRecs(n, s) /\ sh.count = m /\ m <= Cap /\ Chain(sh, q, m)
      /\ q \in [1 .. m -> Spots(n)] /\ Mapped(sh, s, q, m) /\ Unused(sh, q, m)
  BY DEF ShardOK
<1>1. i \in Spots(n) /\ m - 1 \in Nat /\ m # 0 /\ 1 \in 1 .. m /\ (m - 1) + 1 = m
  BY <1>0
<1>2. CASE sh.head = i
  <2>1. p = 1
    BY <1>0, <1>1, <1>2 DEF Chain
  <2>2. t = sh
    BY <1>2 DEF Promote
  <2>3. Moved(q, m, p) = q
    <3>1. q = [k \in 1 .. m |-> q[k]]
      BY <1>0
    <3>2. \A k \in 1 .. m : q[k] = IF k = 1 THEN q[p] ELSE IF k <= p THEN q[k - 1] ELSE q[k]
      BY <2>1
    <3> QED
      BY <3>1, <3>2 DEF Moved
  <2> QED
    BY <2>2, <2>3
<1>3. CASE sh.head # i
  <2>1. t = PushFront(u, i)
    BY <1>3 DEF Promote
  <2>2. /\ u \in ShardRecs(n, s) /\ u.ip = sh.ip /\ u.domain = sh.domain /\ u.by_domain = sh.by_domain
        /\ u.by_ip = sh.by_ip /\ u.free = sh.free /\ u.count = sh.count
    BY <1>0, <1>1, UnlinkIs
  <2>3. w \in [1 .. m - 1 -> Spots(n)] /\ Chain(u, w, m - 1)
    BY <1>0, UnlinkChain
  <2>4. \A k \in 1 .. m - 1 : w[k] = IF k < p THEN q[k] ELSE q[k + 1]
    BY DEF Without
  <2>5. \A k \in 1 .. m : r[k] = IF k = 1 THEN i ELSE w[k - 1]
    BY <1>1 DEF Before
  <2>6. \A k \in 1 .. m - 1 : w[k] # i
    <3>1. ASSUME NEW k \in 1 .. m - 1
          PROVE  w[k] # i
      <4>1. CASE k < p
        BY <1>0, <2>4, <4>1 DEF Chain
      <4>2. CASE k >= p
        <5>1. k + 1 \in 1 .. m /\ k + 1 # p /\ w[k] = q[k + 1]
          BY <2>4, <4>2
        <5> QED
          BY <1>0, <5>1 DEF Chain
      <4> QED
        BY <4>1, <4>2
    <3> QED
      BY <3>1
  <2> HIDE DEF u, w, r
  <2>7. r \in [1 .. m -> Spots(n)] /\ Chain(PushFront(u, i), r, m)
    <3>1. Before(i, w, m - 1) \in [1 .. (m - 1) + 1 -> Spots(n)] /\ Chain(PushFront(u, i), Before(i, w, m - 1), (m - 1) + 1)
      BY <1>1, <2>2, <2>3, <2>6, PushFrontChain
    <3> QED
      BY <1>1, <3>1 DEF r
  <2>8. /\ t \in ShardRecs(n, s) /\ t.ip = sh.ip /\ t.domain = sh.domain /\ t.by_domain = sh.by_domain
        /\ t.by_ip = sh.by_ip /\ t.free = sh.free /\ t.count = sh.count
    <3>1. /\ PushFront(u, i) \in ShardRecs(n, s) /\ PushFront(u, i).ip = u.ip /\ PushFront(u, i).domain = u.domain
          /\ PushFront(u, i).by_domain = u.by_domain /\ PushFront(u, i).by_ip = u.by_ip
          /\ PushFront(u, i).free = u.free /\ PushFront(u, i).count = u.count
      BY <1>1, <2>2, PushFrontIs
    <3> QED
      BY <2>1, <2>2, <3>1
  <2>9. r[1] = i /\ \A k \in 2 .. m : r[k] = IF k <= p THEN q[k - 1] ELSE q[k]
    <3>1. r[1] = i
      BY <1>1, <2>5
    <3>2. ASSUME NEW k \in 2 .. m
          PROVE  r[k] = IF k <= p THEN q[k - 1] ELSE q[k]
      <4>1. k \in 1 .. m /\ k # 1 /\ k - 1 \in 1 .. m - 1 /\ (k - 1) + 1 = k /\ (k - 1 < p <=> k <= p)
        OBVIOUS
      <4> QED
        BY <2>4, <2>5, <4>1
    <3> QED
      BY <3>1, <3>2
  <2>10. /\ \A k \in 1 .. m : \E j \in 1 .. m : r[k] = q[j]
         /\ \A k \in 1 .. m : \E j \in 1 .. m : q[k] = r[j]
    <3>1. ASSUME NEW k \in 1 .. m
          PROVE  \E j \in 1 .. m : r[k] = q[j]
      <4>1. CASE k = 1
        BY <2>9, <4>1
      <4>2. CASE k # 1
        BY <2>9, <4>2
      <4> QED
        BY <4>1, <4>2
    <3>2. ASSUME NEW k \in 1 .. m
          PROVE  \E j \in 1 .. m : q[k] = r[j]
      <4>1. CASE k = p
        BY <1>1, <2>9, <4>1
      <4>2. CASE k < p
        <5>1. k + 1 \in 2 .. m /\ k + 1 \in 1 .. m /\ k + 1 <= p /\ (k + 1) - 1 = k
          BY <4>2
        <5>2. r[k + 1] = q[k]
          BY <2>9, <5>1
        <5> QED
          BY <5>1, <5>2
      <4>3. CASE k > p
        BY <2>9, <4>3
      <4> QED
        BY <4>1, <4>2, <4>3
    <3> QED
      BY <3>1, <3>2
  <2> HIDE DEF t
  <2>11. Mapped(t, s, r, m) /\ Unused(t, r, m)
    <3>1. sh \in ShardRecs(n, s) /\ q \in [1 .. m -> Spots(n)] /\ Mapped(sh, s, q, m) /\ Unused(sh, q, m)
      BY <1>0
    <3>2. /\ r \in [1 .. m -> Spots(n)] /\ t \in ShardRecs(n, s) /\ t.ip = sh.ip /\ t.domain = sh.domain
          /\ t.by_domain = sh.by_domain /\ t.by_ip = sh.by_ip /\ t.free = sh.free
      BY <2>7, <2>8
    <3> QED
      BY <2>10, <3>1, <3>2, Permuted
  <2>12. ShardOK(t, s, r, n, m)
    BY <1>0, <2>1, <2>7, <2>8, <2>11 DEF ShardOK
  <2>13. r = Moved(q, m, p)
    <3>1. r = [k \in 1 .. m |-> r[k]]
      BY <2>7
    <3>2. \A k \in 1 .. m : r[k] = IF k = 1 THEN q[p] ELSE IF k <= p THEN q[k - 1] ELSE q[k]
      BY <2>9
    <3> QED
      BY <3>1, <3>2 DEF Moved
  <2> QED
    BY <2>8, <2>12, <2>13 DEF t
<1> QED
  BY <1>2, <1>3

\* The list read off the links is the domains of the chain.
LEMMA WalkIs ==
  ASSUME NEW n \in Nat, NEW m \in Nat, NEW s, NEW sh, NEW q, ShardOK(sh, s, q, n, m)
  PROVE  Walk(sh) = [k \in 1 .. m |-> sh.domain[q[k]]]
<1> DEFINE F(c) == CHOOSE g : g = [k \in 1 .. c |-> IF k = 1 THEN sh.head ELSE sh.older[g[k - 1]]]
           f == F(m)
<1>1. sh.count = m /\ q \in [1 .. m -> Spots(n)] /\ Chain(sh, q, m)
  BY DEF ShardOK
<1>2. Walk(sh) = [k \in 1 .. m |-> sh.domain[f[k]]]
  <2>1. Walk(sh) = [k \in 1 .. sh.count |-> sh.domain[F(sh.count)[k]]]
    BY Zenon DEF Walk
  <2> HIDE DEF F
  <2> QED
    BY <1>1, <2>1
<1>3. f = [k \in 1 .. m |-> IF k = 1 THEN sh.head ELSE sh.older[f[k - 1]]]
  <2>1. q = [k \in 1 .. m |-> IF k = 1 THEN sh.head ELSE sh.older[q[k - 1]]]
    <3>1. ASSUME NEW k \in 1 .. m
          PROVE  q[k] = IF k = 1 THEN sh.head ELSE sh.older[q[k - 1]]
      <4>1. CASE k = 1
        BY <1>1, <4>1 DEF Chain
      <4>2. CASE k # 1
        <5>1. k - 1 \in 1 .. m /\ k - 1 # m /\ (k - 1) + 1 = k
          BY <4>2
        <5> QED
          BY <1>1, <4>2, <5>1 DEF Chain
      <4> QED
        BY <4>1, <4>2
    <3>2. q = [k \in 1 .. m |-> q[k]]
      BY <1>1
    <3> QED
      BY <3>1, <3>2
  <2> QED
    BY <2>1, Zenon
<1> HIDE DEF f
<1>4. \A k \in 1 .. m : f[k] = q[k]
  <2> DEFINE T == {k \in 1 .. m : f[k] # q[k]}
  <2> SUFFICES ASSUME T # {}
               PROVE  FALSE
    OBVIOUS
  <2>1. T \in SUBSET Nat
    OBVIOUS
  <2> HIDE DEF T
  <2>2. PICK k \in T : \A j \in T : k <= j
    BY <2>1, LeastNat
  <2>3. k \in 1 .. m /\ f[k] # q[k]
    BY DEF T
  <2>4. k # 1
    BY <1>1, <1>3, <2>3 DEF Chain
  <2>5. k - 1 \in 1 .. m /\ k - 1 # m /\ (k - 1) + 1 = k /\ ~(k <= k - 1)
    BY <2>3, <2>4
  <2>6. f[k - 1] = q[k - 1]
    BY <2>2, <2>5 DEF T
  <2>7. sh.older[q[k - 1]] = q[k]
    BY <1>1, <2>5 DEF Chain
  <2>8. f[k] = sh.older[f[k - 1]]
    BY <1>3, <2>3, <2>4
  <2> QED
    BY <2>3, <2>6, <2>7, <2>8
<1>5. [k \in 1 .. m |-> sh.domain[f[k]]] = [k \in 1 .. m |-> sh.domain[q[k]]]
  <2> SUFFICES ASSUME NEW k \in 1 .. m
               PROVE  sh.domain[f[k]] = sh.domain[q[k]]
    BY Zenon
  <2> QED
    BY <1>4
<1> QED
  BY <1>2, <1>5, Zenon

\* What evict_tail writes.
LEMMA EvictIs ==
  ASSUME NEW n \in Nat, NEW m \in Nat \ {0}, NEW s, NEW sh, NEW q, ShardOK(sh, s, q, n, m)
  PROVE  LET i == q[m]
             u == Unlink(sh, i)
             t == EvictTail(sh)
         IN  /\ t \in ShardRecs(n, s) /\ t.count = m - 1 /\ t.free = Append(sh.free, i) /\ t.ip = sh.ip
             /\ t.older = u.older /\ t.newer = u.newer /\ t.head = u.head /\ t.tail = u.tail
             /\ \A j \in Spots(n) : t.domain[j] = IF j = i THEN NIL ELSE sh.domain[j]
             /\ \A d \in Domain : t.by_domain[d] = IF d = sh.domain[i] THEN NIL ELSE sh.by_domain[d]
             /\ \A a \in Slice(s) : t.by_ip[a] = IF a = sh.ip[i] THEN NIL ELSE sh.by_ip[a]
<1> DEFINE i == q[m]  u == Unlink(sh, i)  t == EvictTail(sh)
           ips == SetAt(sh.by_ip, sh.ip[i], NIL)  names == SetAt(sh.by_domain, sh.domain[i], NIL)
           dom == SetAt(sh.domain, i, NIL)  fr == Append(sh.free, i)  c == sh.count - 1
<1>1. /\ sh \in ShardRecs(n, s) /\ sh.count = m /\ Chain(sh, q, m) /\ q \in [1 .. m -> Spots(n)] /\ m \in 1 .. m
  BY DEF ShardOK
<1>2. i \in Spots(n) /\ sh.tail = i
  BY <1>1 DEF Chain
<1>3. /\ sh.by_ip \in [Slice(s) -> Optional(n)] /\ sh.by_domain \in [Domain -> Optional(n)]
      /\ sh.domain \in [Spots(n) -> Domain \cup {NIL}] /\ sh.free \in Seq(Spots(n))
      /\ NIL \in Optional(n) /\ NIL \in Domain \cup {NIL}
  BY <1>1 DEF ShardRecs, Optional
<1>4. /\ ips \in [Slice(s) -> Optional(n)]
      /\ \A a \in Slice(s) : ips[a] = IF a = sh.ip[i] THEN NIL ELSE sh.by_ip[a]
  <2> HIDE DEF i
  <2>1. ips \in [Slice(s) -> Optional(n)]
    <3>1. sh.by_ip \in [Slice(s) -> Optional(n)]
      BY <1>3
    <3> QED
      BY <1>3, <3>1, ZenonT(60), SetAtIs
  <2> QED
    BY <1>3, <2>1, SetAtAt
<1>5. /\ names \in [Domain -> Optional(n)]
      /\ \A d \in Domain : names[d] = IF d = sh.domain[i] THEN NIL ELSE sh.by_domain[d]
  <2> HIDE DEF i
  <2>1. names \in [Domain -> Optional(n)]
    <3>1. sh.by_domain \in [Domain -> Optional(n)]
      BY <1>3
    <3> QED
      BY <1>3, <3>1, ZenonT(60), SetAtIs
  <2> QED
    BY <1>3, <2>1, SetAtAt
<1>6. /\ dom \in [Spots(n) -> Domain \cup {NIL}]
      /\ \A j \in Spots(n) : dom[j] = IF j = i THEN NIL ELSE sh.domain[j]
  <2> HIDE DEF i
  <2>1. dom \in [Spots(n) -> Domain \cup {NIL}]
    <3>1. sh.domain \in [Spots(n) -> Domain \cup {NIL}]
      BY <1>3
    <3> QED
      BY <1>3, <3>1, ZenonT(60), SetAtIs
  <2> QED
    BY <1>3, <2>1, SetAtAt
<1>7. fr \in Seq(Spots(n)) /\ c = m - 1 /\ c \in Nat
  BY <1>1, <1>2, <1>3
<1>8. u \in ShardRecs(n, s) /\ u.ip = sh.ip
  BY <1>1, <1>2, UnlinkIs
<1>9. t = [u EXCEPT !.by_ip = ips, !.by_domain = names, !.domain = dom, !.free = fr, !.count = c]
  BY <1>2, Zenon DEF EvictTail
<1> HIDE DEF i, u, t, ips, names, dom, fr, c
<1>10. /\ t \in ShardRecs(n, s) /\ t.count = c /\ t.free = fr /\ t.ip = sh.ip
       /\ t.older = u.older /\ t.newer = u.newer /\ t.head = u.head /\ t.tail = u.tail
       /\ t.by_ip = ips /\ t.by_domain = names /\ t.domain = dom
  BY <1>4, <1>5, <1>6, <1>7, <1>8, <1>9 DEF ShardRecs
<1> QED
  BY <1>4, <1>5, <1>6, <1>7, <1>10 DEF i, u, t, fr

\* evict_tail takes the last node out of the chain and the maps.
LEMMA EvictOK ==
  ASSUME NEW n \in Nat, NEW m \in Nat \ {0}, NEW s, NEW sh, NEW q, ShardOK(sh, s, q, n, m)
  PROVE  ShardOK(EvictTail(sh), s, Without(q, m, m), n, m - 1)
<1> DEFINE i == q[m]  u == Unlink(sh, i)  t == EvictTail(sh)  w == Without(q, m, m)
<1>0. /\ sh \in ShardRecs(n, s) /\ sh.count = m /\ m <= Cap /\ Chain(sh, q, m) /\ m \in 1 .. m
      /\ q \in [1 .. m -> Spots(n)] /\ Mapped(sh, s, q, m) /\ Unused(sh, q, m)
  BY DEF ShardOK
<1>1. /\ t \in ShardRecs(n, s) /\ t.count = m - 1 /\ t.free = Append(sh.free, i) /\ t.ip = sh.ip
      /\ t.older = u.older /\ t.newer = u.newer /\ t.head = u.head /\ t.tail = u.tail
      /\ \A j \in Spots(n) : t.domain[j] = IF j = i THEN NIL ELSE sh.domain[j]
      /\ \A d \in Domain : t.by_domain[d] = IF d = sh.domain[i] THEN NIL ELSE sh.by_domain[d]
      /\ \A a \in Slice(s) : t.by_ip[a] = IF a = sh.ip[i] THEN NIL ELSE sh.by_ip[a]
  BY EvictIs
<1>2. w \in [1 .. m - 1 -> Spots(n)] /\ Chain(u, w, m - 1)
  BY <1>0, UnlinkChain
<1>3. \A k \in 1 .. m - 1 : w[k] = q[k] /\ k \in 1 .. m /\ k # m
  BY DEF Without
<1>4. /\ sh.free \in Seq(Spots(n)) /\ sh.ip \in [Spots(n) -> Slice(s)] /\ i \in Spots(n)
      /\ \A k \in 1 .. m : q[k] \in Spots(n)
  BY <1>0 DEF ShardRecs
<1> HIDE DEF u, t, w, i
<1>5. Chain(t, w, m - 1)
  BY <1>1, <1>2 DEF Chain
<1>6. \A k \in 1 .. m - 1 : q[k] # i /\ sh.domain[q[k]] # sh.domain[i] /\ sh.ip[q[k]] # sh.ip[i]
  <2>1. ASSUME NEW k \in 1 .. m - 1
        PROVE  q[k] # i /\ sh.domain[q[k]] # sh.domain[i] /\ sh.ip[q[k]] # sh.ip[i]
    <3>1. q[k] # q[m]
      BY <1>0, <1>3 DEF Chain
    <3>2. /\ sh.by_domain[sh.domain[q[k]]] = q[k] /\ sh.by_domain[sh.domain[q[m]]] = q[m]
          /\ sh.by_ip[sh.ip[q[k]]] = q[k] /\ sh.by_ip[sh.ip[q[m]]] = q[m]
      BY <1>0, <1>3 DEF Mapped
    <3> QED
      BY <3>1, <3>2, Zenon DEF i
  <2> QED
    BY <2>1
<1>7. Mapped(t, s, w, m - 1)
  <2>1. ASSUME NEW k \in 1 .. m - 1
        PROVE  /\ t.domain[w[k]] \in Domain /\ ShardOf(t.domain[w[k]]) = s
               /\ t.by_domain[t.domain[w[k]]] = w[k] /\ t.by_ip[t.ip[w[k]]] = w[k]
    <3>1. w[k] = q[k] /\ t.domain[w[k]] = sh.domain[q[k]] /\ t.ip[w[k]] = sh.ip[q[k]] /\ sh.ip[q[k]] \in Slice(s)
      BY <1>1, <1>3, <1>4, <1>6
    <3>2. /\ sh.domain[q[k]] \in Domain /\ ShardOf(sh.domain[q[k]]) = s
          /\ sh.by_domain[sh.domain[q[k]]] = q[k] /\ sh.by_ip[sh.ip[q[k]]] = q[k]
      BY <1>0, <1>3 DEF Mapped
    <3> QED
      BY <1>1, <1>6, <3>1, <3>2
  <2>2. ASSUME NEW d \in Domain, t.by_domain[d] # NIL
        PROVE  \E k \in 1 .. m - 1 : w[k] = t.by_domain[d] /\ t.domain[w[k]] = d
    <3>1. d # sh.domain[i] /\ t.by_domain[d] = sh.by_domain[d]
      BY <1>1, <2>2
    <3>2. PICK k \in 1 .. m : q[k] = sh.by_domain[d] /\ sh.domain[q[k]] = d
      BY <1>0, <2>2, <3>1 DEF Mapped
    <3>3. k \in 1 .. m - 1
      BY <3>1, <3>2 DEF i
    <3> QED
      BY <1>1, <1>3, <1>4, <1>6, <3>1, <3>2, <3>3
  <2>3. ASSUME NEW a \in Slice(s), t.by_ip[a] # NIL
        PROVE  \E k \in 1 .. m - 1 : w[k] = t.by_ip[a] /\ t.ip[w[k]] = a
    <3>1. a # sh.ip[i] /\ t.by_ip[a] = sh.by_ip[a]
      BY <1>1, <2>3
    <3>2. PICK k \in 1 .. m : q[k] = sh.by_ip[a] /\ sh.ip[q[k]] = a
      BY <1>0, <2>3, <3>1 DEF Mapped
    <3>3. k \in 1 .. m - 1
      BY <3>1, <3>2 DEF i
    <3> QED
      BY <1>1, <1>3, <3>1, <3>2, <3>3
  <2> QED
    BY <2>1, <2>2, <2>3 DEF Mapped
<1>8. Unused(t, w, m - 1)
  <2> DEFINE l == Len(sh.free)
  <2>1. /\ l \in Nat /\ Len(t.free) = l + 1 /\ t.free[l + 1] = i
        /\ \A j \in 1 .. l : t.free[j] = sh.free[j]
    BY <1>1, <1>4
  <2>2. \A j \in 1 .. l : sh.free[j] # i /\ \A k \in 1 .. m : sh.free[j] # q[k]
    BY <1>0 DEF Unused, i
  <2>3. \A j, k \in 1 .. l : sh.free[j] = sh.free[k] => j = k
    BY <1>0 DEF Unused
  <2> HIDE DEF l
  <2>4. ASSUME NEW j \in 1 .. l + 1
        PROVE  j \in 1 .. l \/ j = l + 1
    BY <2>1
  <2>5. \A j, k \in 1 .. Len(t.free) : t.free[j] = t.free[k] => j = k
    BY <2>1, <2>2, <2>3, <2>4
  <2>6. ASSUME NEW j \in 1 .. Len(t.free), NEW k \in 1 .. m - 1
        PROVE  t.free[j] # w[k]
    BY <1>3, <1>6, <2>1, <2>2, <2>4
  <2> QED
    BY <2>5, <2>6 DEF Unused
<1>9. m - 1 <= Cap
  BY <1>0, Geometry
<1> QED
  BY <1>1, <1>2, <1>5, <1>7, <1>8, <1>9 DEF ShardOK, t, w

\* find_free_ip finds an address of the slice that is free.
LEMMA FindFreeIs ==
  ASSUME NEW n \in Nat, NEW m \in Nat, NEW s \in Shards, NEW sh, NEW q, ShardOK(sh, s, q, n, m), m < Cap,
         NEW h \in Hashes
  PROVE  FindFreeIp(sh, s, h) \in Slice(s) /\ sh.by_ip[FindFreeIp(sh, s, h)] = NIL
<1> DEFINE K == 0 .. ProbeLimit + Span
           free == {k \in K : sh.by_ip[ShardLo(s) + Candidate(h, k)] = NIL}
<1>1. Span \in Nat \ {0} /\ Cap \in 1 .. Span /\ ShardLo(s) \in Nat /\ ProbeLimit \in Nat
  BY Geometry, FakeIpConstants
<1>2. \E a \in Slice(s) : sh.by_ip[a] = NIL
  <2> SUFFICES ASSUME \A a \in Slice(s) : sh.by_ip[a] # NIL
               PROVE  FALSE
    OBVIOUS
  <2> DEFINE of(a) == CHOOSE k \in 1 .. m : q[k] = sh.by_ip[a] /\ sh.ip[q[k]] = a
             place == [a \in Slice(s) |-> of(a)]
  <2>1. \A a \in Slice(s) : of(a) \in 1 .. m /\ sh.ip[q[of(a)]] = a
    <3>1. \A a \in Slice(s) : \E k \in 1 .. m : q[k] = sh.by_ip[a] /\ sh.ip[q[k]] = a
      BY DEF ShardOK, Mapped
    <3> QED
      BY <3>1, Zenon
  <2> HIDE DEF of
  <2>2. place \in [Slice(s) -> 1 .. m] /\ \A a \in Slice(s) : place[a] = of(a)
    BY <2>1
  <2>3. IsFiniteSet(1 .. m) /\ Cardinality(1 .. m) = m
    BY FS_Interval
  <2>4. IsFiniteSet(Slice(s)) /\ Cardinality(Slice(s)) = Span
    <3> DEFINE x == ShardLo(s)  y == ShardLo(s) + Span - 1
    <3>1. x \in Int /\ y \in Int /\ ~(x > y) /\ y - x + 1 = Span
      BY <1>1
    <3>2. Slice(s) = x .. y
      BY DEF Slice
    <3> HIDE DEF x, y
    <3> QED
      BY <3>1, <3>2, FS_Interval
  <2> HIDE DEF place
  <2>5. PICK a, b \in Slice(s) : a # b /\ place[a] = place[b]
    BY <1>1, <2>2, <2>3, <2>4, FS_PigeonHole
  <2> QED
    BY <2>1, <2>2, <2>5
<1>3. free # {} /\ free \subseteq Nat
  <2>1. PICK a \in Slice(s) : sh.by_ip[a] = NIL
    BY <1>2
  <2>2. a - ShardLo(s) \in 0 .. Span - 1 /\ ShardLo(s) + (a - ShardLo(s)) = a
    BY <1>1 DEF Slice
  <2>3. PICK k \in K : Candidate(h, k) = a - ShardLo(s)
    BY <2>2, CandidatesCover
  <2> QED
    BY <1>1, <2>1, <2>2, <2>3
<1>4. FindFreeIp(sh, s, h) = IF free = {} THEN NIL
                             ELSE ShardLo(s) + Candidate(h, CHOOSE k \in free : \A j \in free : k <= j)
  BY Zenon DEF FindFreeIp
<1> HIDE DEF free
<1>5. PICK k \in free : FindFreeIp(sh, s, h) = ShardLo(s) + Candidate(h, k)
  BY <1>3, <1>4, LeastNat
<1>6. k \in K /\ sh.by_ip[ShardLo(s) + Candidate(h, k)] = NIL
  BY DEF free
<1>7. Candidate(h, k) \in 0 .. Span - 1
  BY <1>6, CandidatesCover
<1>8. FindFreeIp(sh, s, h) \in Slice(s)
  BY <1>1, <1>5, <1>7 DEF Slice
<1> QED
  BY <1>5, <1>6, <1>8

\* Bind, from where it has room: the node that alloc_node takes, and the node in the list.
Grown(sh) == IF AllocIdx(sh) = sh.len THEN sh.len + 1 ELSE sh.len
NewNode(sh, a, d) ==
  [AllocNode(sh, a, d) EXCEPT !.by_domain = SetAt(@, d, AllocIdx(sh)), !.by_ip = SetAt(@, a, AllocIdx(sh))]
Added(sh, a, d) == PushFront(NewNode(sh, a, d), AllocIdx(sh))

\* One write to a slab that may grow by it.
LEMMA PutIs ==
  ASSUME NEW D, NEW S, NEW f \in [D -> S], NEW i, NEW v \in S
  PROVE  /\ Put(f, i, v) \in [D \cup {i} -> S]
         /\ Put(f, i, v)[i] = v
         /\ \A j \in D : j # i => Put(f, i, v)[j] = f[j]
BY DEF Put

\* The index that alloc_node takes is none of the chain, and the slab has it then.
LEMMA AllocIdxIs ==
  ASSUME NEW n \in Nat, NEW m \in Nat, NEW s, NEW sh, NEW q, ShardOK(sh, s, q, n, m)
  PROVE  /\ Grown(sh) \in Nat /\ Spots(n) \cup {AllocIdx(sh)} = Spots(Grown(sh))
         /\ Optional(n) \subseteq Optional(Grown(sh)) /\ AllocIdx(sh) \in Spots(Grown(sh))
         /\ \A k \in 1 .. m : q[k] # AllocIdx(sh)
<1> DEFINE i == AllocIdx(sh)
<1>1. sh.len = n /\ sh.free \in Seq(Spots(n)) /\ q \in [1 .. m -> Spots(n)] /\ Unused(sh, q, m)
  BY DEF ShardOK, ShardRecs
<1>2. CASE sh.free = <<>>
  <2>1. i = n /\ Grown(sh) = n + 1
    BY <1>1, <1>2 DEF AllocIdx, Grown
  <2>2. Spots(n) \cup {n} = Spots(n + 1) /\ n \notin Spots(n)
    BY DEF Spots
  <2> QED
    BY <1>1, <2>1, <2>2 DEF Optional
<1>3. CASE sh.free # <<>>
  <2>1. Len(sh.free) \in 1 .. Len(sh.free) /\ i = sh.free[Len(sh.free)]
    BY <1>1, <1>3 DEF AllocIdx
  <2>2. i \in Spots(n) /\ \A k \in 1 .. m : q[k] # i
    BY <1>1, <2>1 DEF Unused
  <2>3. i # n
    BY <2>2 DEF Spots
  <2>4. Grown(sh) = n
    BY <1>1, <2>3 DEF Grown
  <2> QED
    BY <2>2, <2>4
<1> QED
  BY <1>2, <1>3

\* What alloc_node and the two maps' inserts write.
LEMMA NewNodeIs ==
  ASSUME NEW n \in Nat, NEW m \in Nat, NEW s, NEW sh, NEW q, ShardOK(sh, s, q, n, m),
         NEW a \in Slice(s), NEW d \in Domain
  PROVE  LET i == AllocIdx(sh)
             t == NewNode(sh, a, d)
         IN  /\ t \in ShardRecs(Grown(sh), s) /\ t.count = m + 1 /\ t.head = sh.head /\ t.tail = sh.tail
             /\ t.ip[i] = a /\ t.domain[i] = d
             /\ \A j \in Spots(n) : j # i => /\ t.ip[j] = sh.ip[j] /\ t.domain[j] = sh.domain[j]
                                             /\ t.older[j] = sh.older[j] /\ t.newer[j] = sh.newer[j]
             /\ \A e \in Domain : t.by_domain[e] = IF e = d THEN i ELSE sh.by_domain[e]
             /\ \A b \in Slice(s) : t.by_ip[b] = IF b = a THEN i ELSE sh.by_ip[b]
             /\ Len(t.free) \in 0 .. Len(sh.free)
             /\ \A j \in 1 .. Len(t.free) : j \in 1 .. Len(sh.free) /\ t.free[j] = sh.free[j] /\ t.free[j] # i
<1> DEFINE i == AllocIdx(sh)  g == Grown(sh)  t == NewNode(sh, a, d)
           ip == Put(sh.ip, i, a)  dom == Put(sh.domain, i, d)
           old == Put(sh.older, i, NIL)  new == Put(sh.newer, i, NIL)
           fr == IF sh.free # <<>> THEN SubSeq(sh.free, 1, Len(sh.free) - 1) ELSE sh.free
           names == SetAt(sh.by_domain, d, i)  ips == SetAt(sh.by_ip, a, i)
<1>1. /\ sh \in ShardRecs(n, s) /\ sh.count = m /\ Unused(sh, q, m)
      /\ g \in Nat /\ Spots(n) \cup {i} = Spots(g) /\ Optional(n) \subseteq Optional(g) /\ i \in Spots(g)
  BY AllocIdxIs DEF ShardOK
<1>2. /\ sh.len = n /\ sh.free \in Seq(Spots(n)) /\ sh.ip \in [Spots(n) -> Slice(s)]
      /\ sh.domain \in [Spots(n) -> Domain \cup {NIL}]
      /\ sh.older \in [Spots(n) -> Optional(g)] /\ sh.newer \in [Spots(n) -> Optional(g)]
      /\ sh.by_domain \in [Domain -> Optional(g)] /\ sh.by_ip \in [Slice(s) -> Optional(g)]
      /\ sh.head \in Optional(g) /\ sh.tail \in Optional(g) /\ sh.count \in Nat
  BY <1>1 DEF ShardRecs
<1>3. d \in Domain \cup {NIL} /\ NIL \in Optional(g) /\ i \in Optional(g)
  BY <1>1 DEF Optional
<1>4. t = [ip |-> ip, domain |-> dom, older |-> old, newer |-> new, len |-> g,
           free |-> fr, by_domain |-> names, by_ip |-> ips, head |-> sh.head, tail |-> sh.tail, count |-> sh.count + 1]
  <2>1. sh = [ip |-> sh.ip, domain |-> sh.domain, older |-> sh.older, newer |-> sh.newer, len |-> sh.len,
              free |-> sh.free, by_domain |-> sh.by_domain, by_ip |-> sh.by_ip, head |-> sh.head, tail |-> sh.tail,
              count |-> sh.count]
    BY <1>1 DEF ShardRecs
  <2>2. AllocNode(sh, a, d) = [sh EXCEPT !.ip = ip, !.domain = dom, !.older = old, !.newer = new, !.len = g,
                                         !.free = fr, !.count = sh.count + 1]
    BY <2>1 DEF AllocNode, Grown
  <2>3. t = [sh EXCEPT !.ip = ip, !.domain = dom, !.older = old, !.newer = new, !.len = g, !.free = fr,
                       !.count = sh.count + 1, !.by_domain = names, !.by_ip = ips]
    <3> HIDE DEF ip, dom, old, new, fr, g
    <3> QED
      BY <2>1, <2>2 DEF NewNode
  <2> HIDE DEF ip, dom, old, new, fr, names, ips, g, t
  <2> QED
    BY <2>1, <2>3
<1> HIDE DEF i, g, t
<1>5. /\ ip \in [Spots(g) -> Slice(s)] /\ ip[i] = a
      /\ \A j \in Spots(n) : j # i => ip[j] = sh.ip[j]
  <2>1. sh.ip \in [Spots(n) -> Slice(s)]
    BY <1>2
  <2>2. ip \in [Spots(n) \cup {i} -> Slice(s)]
    BY <2>1, Zenon, PutIs
  <2>3. \A j \in Spots(n) : j # i => ip[j] = sh.ip[j]
    BY <2>1 DEF Put
  <2>4. ip[i] = a
    BY Zenon DEF Put
  <2> QED
    BY <1>1, <2>2, <2>3, <2>4
<1>6. /\ dom \in [Spots(g) -> Domain \cup {NIL}] /\ dom[i] = d
      /\ \A j \in Spots(n) : j # i => dom[j] = sh.domain[j]
  <2>1. sh.domain \in [Spots(n) -> Domain \cup {NIL}]
    BY <1>2
  <2>2. dom \in [Spots(n) \cup {i} -> Domain \cup {NIL}]
    BY <1>3, <2>1, Zenon, PutIs
  <2>3. \A j \in Spots(n) : j # i => dom[j] = sh.domain[j]
    BY <2>1 DEF Put
  <2>4. dom[i] = d
    BY Zenon DEF Put
  <2> QED
    BY <1>1, <2>2, <2>3, <2>4
<1>7. /\ old \in [Spots(g) -> Optional(g)]
      /\ \A j \in Spots(n) : j # i => old[j] = sh.older[j]
  <2>1. sh.older \in [Spots(n) -> Optional(g)]
    BY <1>2
  <2>2. old \in [Spots(n) \cup {i} -> Optional(g)]
    BY <1>3, <2>1, Zenon, PutIs
  <2>3. \A j \in Spots(n) : j # i => old[j] = sh.older[j]
    BY <2>1 DEF Put
  <2> QED
    BY <1>1, <2>2, <2>3
<1>8. /\ new \in [Spots(g) -> Optional(g)]
      /\ \A j \in Spots(n) : j # i => new[j] = sh.newer[j]
  <2>1. sh.newer \in [Spots(n) -> Optional(g)]
    BY <1>2
  <2>2. new \in [Spots(n) \cup {i} -> Optional(g)]
    BY <1>3, <2>1, Zenon, PutIs
  <2>3. \A j \in Spots(n) : j # i => new[j] = sh.newer[j]
    BY <2>1 DEF Put
  <2> QED
    BY <1>1, <2>2, <2>3
<1>9. /\ names \in [Domain -> Optional(g)]
      /\ \A e \in Domain : names[e] = IF e = d THEN i ELSE sh.by_domain[e]
  <2>1. sh.by_domain \in [Domain -> Optional(g)]
    BY <1>2
  <2>2. names \in [Domain -> Optional(g)]
    BY <1>3, <2>1, ZenonT(60), SetAtIs
  <2> QED
    BY <2>1, <2>2, SetAtAt
<1>10. /\ ips \in [Slice(s) -> Optional(g)]
       /\ \A b \in Slice(s) : ips[b] = IF b = a THEN i ELSE sh.by_ip[b]
  <2>1. sh.by_ip \in [Slice(s) -> Optional(g)]
    BY <1>2
  <2>2. ips \in [Slice(s) -> Optional(g)]
    BY <1>3, <2>1, ZenonT(60), SetAtIs
  <2> QED
    BY <2>1, <2>2, SetAtAt
<1>11. /\ fr \in Seq(Spots(n)) /\ Len(fr) \in 0 .. Len(sh.free)
       /\ \A j \in 1 .. Len(fr) : j \in 1 .. Len(sh.free) /\ fr[j] = sh.free[j] /\ fr[j] # i
  <2>1. CASE sh.free = <<>>
    BY <1>2, <2>1
  <2>2. CASE sh.free # <<>>
    <3> DEFINE l == Len(sh.free)
    <3>1. l \in Nat \ {0} /\ i = sh.free[l]
      BY <1>2, <2>2 DEF AllocIdx, i
    <3>2. fr \in Seq(Spots(n)) /\ Len(fr) = l - 1 /\ \A j \in 1 .. l - 1 : fr[j] = sh.free[j]
      BY <1>2, <2>2
    <3>3. \A j \in 1 .. l - 1 : j \in 1 .. l /\ l \in 1 .. l /\ j # l
      BY <3>1
    <3>4. \A j, k \in 1 .. l : sh.free[j] = sh.free[k] => j = k
      BY <1>1 DEF Unused
    <3> HIDE DEF fr
    <3>5. \A j \in 1 .. l - 1 : fr[j] # i
      BY <3>1, <3>2, <3>3, <3>4, Zenon
    <3>6. Len(fr) \in 0 .. l
      BY <3>1, <3>2
    <3> HIDE DEF l
    <3> QED
      BY <3>2, <3>3, <3>5, <3>6 DEF l
  <2> QED
    BY <2>1, <2>2
<1>12. fr \in Seq(Spots(g))
  <2>1. Spots(n) \subseteq Spots(g)
    BY <1>1
  <2> HIDE DEF fr, g
  <2> QED
    BY <1>11, <2>1
<1>13. sh.count + 1 = m + 1 /\ m + 1 \in Nat
  BY <1>1
<1> HIDE DEF ip, dom, old, new, fr, names, ips
<1>14. /\ t \in ShardRecs(g, s) /\ t.count = m + 1 /\ t.head = sh.head /\ t.tail = sh.tail
       /\ t.ip = ip /\ t.domain = dom /\ t.older = old /\ t.newer = new
       /\ t.by_domain = names /\ t.by_ip = ips /\ t.free = fr
  BY <1>2, <1>4, <1>5, <1>6, <1>7, <1>8, <1>9, <1>10, <1>12, <1>13 DEF ShardRecs
<1> QED
  BY <1>5, <1>6, <1>7, <1>8, <1>9, <1>10, <1>11, <1>14 DEF i, g, t

\* A name and an address that the shard does not have are first in the chain now.
LEMMA AddedOK ==
  ASSUME NEW n \in Nat, NEW m \in Nat, NEW s, NEW sh, NEW q, ShardOK(sh, s, q, n, m), m < Cap,
         NEW a \in Slice(s), sh.by_ip[a] = NIL, NEW d \in Domain, sh.by_domain[d] = NIL, ShardOf(d) = s
  PROVE  LET i == AllocIdx(sh)
             t == Added(sh, a, d)
         IN  /\ Grown(sh) \in Nat
             /\ ShardOK(t, s, Before(i, q, m), Grown(sh), m + 1)
             /\ t.domain[i] = d /\ t.ip[i] = a /\ t.by_domain[d] = i
             /\ \A k \in 1 .. m : t.domain[q[k]] = sh.domain[q[k]] /\ t.ip[q[k]] = sh.ip[q[k]]
             /\ \A e \in Domain : e # d => t.by_domain[e] = sh.by_domain[e]
<1> DEFINE i == AllocIdx(sh)  g == Grown(sh)  x == NewNode(sh, a, d)  t == Added(sh, a, d)  r == Before(i, q, m)
<1>0. /\ sh \in ShardRecs(n, s) /\ q \in [1 .. m -> Spots(n)] /\ Chain(sh, q, m)
      /\ Mapped(sh, s, q, m) /\ Unused(sh, q, m)
  BY DEF ShardOK
<1>1. /\ g \in Nat /\ Spots(n) \subseteq Spots(g) /\ i \in Spots(g)
      /\ \A k \in 1 .. m : q[k] # i /\ q[k] \in Spots(n)
  BY <1>0, AllocIdxIs
<1>2. /\ x \in ShardRecs(g, s) /\ x.count = m + 1 /\ x.head = sh.head /\ x.tail = sh.tail
      /\ x.ip[i] = a /\ x.domain[i] = d
      /\ \A j \in Spots(n) : j # i => /\ x.ip[j] = sh.ip[j] /\ x.domain[j] = sh.domain[j]
                                      /\ x.older[j] = sh.older[j] /\ x.newer[j] = sh.newer[j]
      /\ \A e \in Domain : x.by_domain[e] = IF e = d THEN i ELSE sh.by_domain[e]
      /\ \A b \in Slice(s) : x.by_ip[b] = IF b = a THEN i ELSE sh.by_ip[b]
      /\ Len(x.free) \in 0 .. Len(sh.free)
      /\ \A j \in 1 .. Len(x.free) : j \in 1 .. Len(sh.free) /\ x.free[j] = sh.free[j] /\ x.free[j] # i
  BY NewNodeIs
<1>3. t = PushFront(x, i)
  BY DEF Added
<1> HIDE DEF i, g, x, t, r
<1>4. \A k \in 1 .. m : /\ x.ip[q[k]] = sh.ip[q[k]] /\ x.domain[q[k]] = sh.domain[q[k]]
                        /\ x.older[q[k]] = sh.older[q[k]] /\ x.newer[q[k]] = sh.newer[q[k]]
  BY <1>1, <1>2
<1>5. q \in [1 .. m -> Spots(g)] /\ Chain(x, q, m)
  <2>1. q \in [1 .. m -> Spots(g)]
    BY <1>0, <1>1
  <2> QED
    BY <1>0, <1>2, <1>4, <2>1 DEF Chain
<1>6. r \in [1 .. m + 1 -> Spots(g)] /\ Chain(t, r, m + 1)
  BY <1>1, <1>2, <1>3, <1>5, PushFrontChain DEF r
<1>7. /\ t \in ShardRecs(g, s) /\ t.ip = x.ip /\ t.domain = x.domain /\ t.by_domain = x.by_domain
      /\ t.by_ip = x.by_ip /\ t.free = x.free /\ t.count = x.count
  BY <1>1, <1>2, <1>3, PushFrontIs
<1>8. \A k \in 1 .. m + 1 : r[k] = IF k = 1 THEN i ELSE q[k - 1]
  BY DEF r, Before
<1>9. r[1] = i /\ \A k \in 1 .. m : r[k + 1] = q[k] /\ k + 1 \in 1 .. m + 1
  BY <1>8
<1>10. \A k \in 1 .. m + 1 : k = 1 \/ \E l \in 1 .. m : k = l + 1
  <2>1. ASSUME NEW k \in 1 .. m + 1, k # 1
        PROVE  k - 1 \in 1 .. m /\ k = (k - 1) + 1
    BY <2>1
  <2> QED
    BY <2>1
<1>11. \A k \in 1 .. m : /\ sh.domain[q[k]] \in Domain /\ ShardOf(sh.domain[q[k]]) = s
                         /\ sh.by_domain[sh.domain[q[k]]] = q[k] /\ sh.by_ip[sh.ip[q[k]]] = q[k]
                         /\ sh.ip[q[k]] \in Slice(s)
                         /\ sh.domain[q[k]] # d /\ sh.ip[q[k]] # a
  <2>1. \A k \in 1 .. m : sh.ip[q[k]] \in Slice(s) /\ q[k] # NIL
    BY <1>0 DEF ShardRecs, Spots, NIL
  <2> QED
    BY <1>0, <2>1 DEF Mapped
<1>12. \A k \in 1 .. m + 1 : /\ t.domain[r[k]] \in Domain /\ ShardOf(t.domain[r[k]]) = s
                             /\ t.by_domain[t.domain[r[k]]] = r[k] /\ t.by_ip[t.ip[r[k]]] = r[k]
  <2>1. /\ t.domain[r[1]] \in Domain /\ ShardOf(t.domain[r[1]]) = s
        /\ t.by_domain[t.domain[r[1]]] = r[1] /\ t.by_ip[t.ip[r[1]]] = r[1]
    BY <1>2, <1>7, <1>9
  <2>2. ASSUME NEW k \in 1 .. m
        PROVE  /\ t.domain[q[k]] \in Domain /\ ShardOf(t.domain[q[k]]) = s
               /\ t.by_domain[t.domain[q[k]]] = q[k] /\ t.by_ip[t.ip[q[k]]] = q[k]
    BY <1>2, <1>4, <1>7, <1>11
  <2> QED
    BY <1>9, <1>10, <2>1, <2>2
<1>13. ASSUME NEW e \in Domain, t.by_domain[e] # NIL
       PROVE  \E k \in 1 .. m + 1 : r[k] = t.by_domain[e] /\ t.domain[r[k]] = e
  <2>1. CASE e = d
    BY <1>2, <1>7, <1>9, <2>1
  <2>2. CASE e # d
    <3>1. PICK k \in 1 .. m : q[k] = sh.by_domain[e] /\ sh.domain[q[k]] = e
      BY <1>0, <1>2, <1>7, <1>13, <2>2 DEF Mapped
    <3>2. r[k + 1] = t.by_domain[e] /\ t.domain[r[k + 1]] = e /\ k + 1 \in 1 .. m + 1
      BY <1>2, <1>4, <1>7, <1>9, <2>2, <3>1
    <3> QED
      BY <3>2
  <2> QED
    BY <2>1, <2>2
<1>14. ASSUME NEW b \in Slice(s), t.by_ip[b] # NIL
       PROVE  \E k \in 1 .. m + 1 : r[k] = t.by_ip[b] /\ t.ip[r[k]] = b
  <2>1. CASE b = a
    BY <1>2, <1>7, <1>9, <2>1
  <2>2. CASE b # a
    <3>1. PICK k \in 1 .. m : q[k] = sh.by_ip[b] /\ sh.ip[q[k]] = b
      BY <1>0, <1>2, <1>7, <1>14, <2>2 DEF Mapped
    <3>2. r[k + 1] = t.by_ip[b] /\ t.ip[r[k + 1]] = b /\ k + 1 \in 1 .. m + 1
      BY <1>2, <1>4, <1>7, <1>9, <2>2, <3>1
    <3> QED
      BY <3>2
  <2> QED
    BY <2>1, <2>2
<1>15. Mapped(t, s, r, m + 1)
  BY <1>12, <1>13, <1>14 DEF Mapped
<1>16. Unused(t, r, m + 1)
  <2>1. \A j, k \in 1 .. Len(t.free) : t.free[j] = t.free[k] => j = k
    BY <1>0, <1>2, <1>7, SMTT(30) DEF Unused
  <2>2. ASSUME NEW j \in 1 .. Len(t.free), NEW k \in 1 .. m + 1
        PROVE  t.free[j] # r[k]
    <3>1. t.free[j] # i /\ \A l \in 1 .. m : t.free[j] # q[l]
      BY <1>0, <1>2, <1>7, SMTT(30) DEF Unused
    <3> QED
      BY <1>9, <1>10, <3>1
  <2> QED
    BY <2>1, <2>2 DEF Unused
<1>17. m + 1 <= Cap
  BY Geometry
<1>18. ShardOK(t, s, r, g, m + 1)
  BY <1>2, <1>6, <1>7, <1>15, <1>16, <1>17 DEF ShardOK
<1>19. /\ t.domain[i] = d /\ t.ip[i] = a /\ t.by_domain[d] = i
       /\ \A k \in 1 .. m : t.domain[q[k]] = sh.domain[q[k]] /\ t.ip[q[k]] = sh.ip[q[k]]
       /\ \A e \in Domain : e # d => t.by_domain[e] = sh.by_domain[e]
  BY <1>2, <1>4, <1>7
<1> QED
  BY <1>1, <1>18, <1>19 DEF i, g, t, r
-----------------------------------------------------------------------------
(***************************************************************************)
(* The operations as what they do to the list of domains and to the        *)
(* address of each.                                                        *)
(***************************************************************************)

Good(sh, s) == \E n, m \in Nat : \E q \in [1 .. m -> Spots(n)] : ShardOK(sh, s, q, n, m)
Addr(sh, d) == IF sh.by_domain[d] = NIL THEN NIL ELSE AddressIn(sh, d)

\* w lists the domains of a shard without repetition, and each has an address of
\* the slice, from which by_ip and domain lead back to it.
Listed(sh, s, w, m) ==
  /\ w \in [1 .. m -> Domain] /\ w \in Seq(Domain) /\ Len(w) = m
  /\ \A j, k \in 1 .. m : w[j] = w[k] => j = k
  /\ \A k \in 1 .. m : ShardOf(w[k]) = s /\ Addr(sh, w[k]) \in Slice(s)
  /\ \A d \in Domain : sh.by_domain[d] # NIL <=> \E k \in 1 .. m : w[k] = d
  /\ \A d \in Domain : Addr(sh, d) # NIL <=> sh.by_domain[d] # NIL
  /\ \A d \in Domain : sh.by_domain[d] # NIL => /\ sh.by_ip[Addr(sh, d)] = sh.by_domain[d]
                                                /\ sh.domain[sh.by_domain[d]] = d
  /\ \A a \in Slice(s) : sh.by_ip[a] = NIL <=> \A k \in 1 .. m : Addr(sh, w[k]) # a

\* How the list relates to the chain.
LEMMA ListIs ==
  ASSUME NEW n \in Nat, NEW m \in Nat, NEW s \in Shards, NEW sh, NEW q, ShardOK(sh, s, q, n, m)
  PROVE  /\ Listed(sh, s, Walk(sh), m)
         /\ \A k \in 1 .. m : /\ Walk(sh)[k] = sh.domain[q[k]] /\ Addr(sh, Walk(sh)[k]) = sh.ip[q[k]]
                              /\ sh.by_domain[Walk(sh)[k]] = q[k]
<1> DEFINE w == Walk(sh)
<1>1. /\ sh \in ShardRecs(n, s) /\ q \in [1 .. m -> Spots(n)] /\ Chain(sh, q, m) /\ Mapped(sh, s, q, m)
  BY DEF ShardOK
<1>2. sh.ip \in [Spots(n) -> Slice(s)] /\ \A k \in 1 .. m : q[k] \in Spots(n) /\ q[k] # NIL /\ sh.ip[q[k]] \in Slice(s)
  BY <1>1 DEF ShardRecs, Spots, NIL
<1>3. \A a \in Slice(s) : a # NIL
  BY Geometry DEF NIL
<1>4. w = [k \in 1 .. m |-> sh.domain[q[k]]]
  BY WalkIs
<1>5. \A k \in 1 .. m : /\ sh.domain[q[k]] \in Domain /\ ShardOf(sh.domain[q[k]]) = s
                        /\ sh.by_domain[sh.domain[q[k]]] = q[k] /\ sh.by_ip[sh.ip[q[k]]] = q[k]
  BY <1>1 DEF Mapped
<1> HIDE DEF w
<1>6. w \in [1 .. m -> Domain] /\ w \in Seq(Domain) /\ Len(w) = m /\ \A k \in 1 .. m : w[k] = sh.domain[q[k]]
  BY <1>4, <1>5
<1>7. \A k \in 1 .. m : /\ sh.by_domain[w[k]] = q[k] /\ Addr(sh, w[k]) = sh.ip[q[k]] /\ ShardOf(w[k]) = s
                        /\ Addr(sh, w[k]) \in Slice(s) /\ Addr(sh, w[k]) # NIL
                        /\ sh.by_ip[Addr(sh, w[k])] = q[k] /\ sh.domain[sh.by_domain[w[k]]] = w[k]
  BY <1>2, <1>3, <1>5, <1>6 DEF Addr, AddressIn
<1>8. ASSUME NEW d \in Domain
      PROVE  /\ sh.by_domain[d] # NIL <=> \E k \in 1 .. m : w[k] = d
             /\ Addr(sh, d) # NIL <=> sh.by_domain[d] # NIL
             /\ sh.by_domain[d] # NIL => /\ sh.by_ip[Addr(sh, d)] = sh.by_domain[d]
                                         /\ sh.domain[sh.by_domain[d]] = d
  <2>1. CASE sh.by_domain[d] = NIL
    <3>1. ~ \E k \in 1 .. m : w[k] = d
      BY <1>2, <1>7, <2>1
    <3> QED
      BY <2>1, <3>1 DEF Addr
  <2>2. CASE sh.by_domain[d] # NIL
    <3>1. PICK k \in 1 .. m : w[k] = d
      BY <1>1, <1>6, <2>2 DEF Mapped
    <3> QED
      BY <1>7, <2>2, <3>1
  <2> QED
    BY <2>1, <2>2
<1>9. \A j, k \in 1 .. m : w[j] = w[k] => j = k
  BY <1>1, <1>7 DEF Chain
<1>10. ASSUME NEW a \in Slice(s)
       PROVE  sh.by_ip[a] = NIL <=> \A k \in 1 .. m : Addr(sh, w[k]) # a
  <2>1. CASE sh.by_ip[a] = NIL
    BY <1>2, <1>7, <2>1
  <2>2. CASE sh.by_ip[a] # NIL
    <3>1. PICK k \in 1 .. m : q[k] = sh.by_ip[a] /\ sh.ip[q[k]] = a
      BY <1>1, <2>2 DEF Mapped
    <3> QED
      BY <1>7, <2>2, <3>1
  <2> QED
    BY <2>1, <2>2
<1>11. Listed(sh, s, w, m)
  BY <1>6, <1>7, <1>8, <1>9, <1>10 DEF Listed
<1> QED
  BY <1>6, <1>7, <1>11 DEF w

\* promote moves one domain to the front of the list.
LEMMA UseShard ==
  ASSUME NEW s \in Shards, NEW sh, Good(sh, s), NEW d \in Domain, sh.by_domain[d] # NIL
  PROVE  LET t == Promote(sh, sh.by_domain[d])
             w == Walk(sh)
             x == Walk(t)
         IN  /\ Good(t, s) /\ \A e \in Domain : Addr(t, e) = Addr(sh, e)
             /\ AddressIn(t, d) = Addr(sh, d)
             /\ Len(x) = Len(w) /\ Len(w) <= Cap
             /\ \E p \in 1 .. Len(w) : /\ w[p] = d /\ x[1] = d
                                       /\ \A k \in 2 .. Len(w) : x[k] = IF k <= p THEN w[k - 1] ELSE w[k]
<1> DEFINE i == sh.by_domain[d]  t == Promote(sh, i)  w == Walk(sh)  x == Walk(t)
<1>1. PICK n \in Nat, m \in Nat : \E q \in [1 .. m -> Spots(n)] : ShardOK(sh, s, q, n, m)
  BY DEF Good
<1>2. PICK q \in [1 .. m -> Spots(n)] : ShardOK(sh, s, q, n, m)
  BY <1>1
<1>3. /\ Listed(sh, s, w, m)
      /\ \A k \in 1 .. m : w[k] = sh.domain[q[k]] /\ sh.by_domain[w[k]] = q[k]
  BY <1>2, ListIs
<1>4. PICK p \in 1 .. m : w[p] = d
  BY <1>3 DEF Listed
<1>5. i = q[p]
  BY <1>3, <1>4
<1> DEFINE r == Moved(q, m, p)
<1>6. /\ ShardOK(t, s, r, n, m)
      /\ t.ip = sh.ip /\ t.domain = sh.domain /\ t.by_domain = sh.by_domain
  BY <1>2, <1>5, PromoteOK
<1>7. /\ p \in 1 .. m
      /\ \A k \in 1 .. m : r[k] = IF k = 1 THEN q[p] ELSE IF k <= p THEN q[k - 1] ELSE q[k]
  BY DEF Moved
<1> HIDE DEF i, t, w, x, r
<1>8. Listed(t, s, x, m) /\ \A k \in 1 .. m : x[k] = t.domain[r[k]]
  <2>1. ShardOK(t, s, r, n, m)
    BY <1>6
  <2>2. x = Walk(t)
    BY DEF x
  <2> QED
    BY <2>1, <2>2, ListIs
<1>9. Good(t, s) /\ m <= Cap
  <2>1. r \in [1 .. m -> Spots(n)] /\ m <= Cap
    BY <1>6 DEF ShardOK
  <2> QED
    BY <1>6, <2>1 DEF Good
<1>10. \A e \in Domain : Addr(t, e) = Addr(sh, e)
  BY <1>6 DEF Addr, AddressIn
<1>11. AddressIn(t, d) = Addr(sh, d)
  BY <1>6 DEF Addr, AddressIn
<1>12. Len(x) = m /\ Len(w) = m
  BY <1>3, <1>8 DEF Listed
<1>13. /\ 1 \in 1 .. m
       /\ \A k \in 2 .. m : k \in 1 .. m /\ k - 1 \in 1 .. m
  OBVIOUS
<1>14. x[1] = d
  BY <1>3, <1>4, <1>6, <1>7, <1>8, <1>13
<1>15. ASSUME NEW k \in 2 .. m
       PROVE  x[k] = IF k <= p THEN w[k - 1] ELSE w[k]
  BY <1>3, <1>6, <1>7, <1>8, <1>13
<1> QED
  BY <1>4, <1>9, <1>10, <1>11, <1>12, <1>14, <1>15 DEF i, t, w, x

\* With room, a domain that is new gets a free address and is first in the list ...
LEMMA AddShard ==
  ASSUME NEW s \in Shards, NEW sh, Good(sh, s), Len(Walk(sh)) < Cap,
         NEW a \in Slice(s), sh.by_ip[a] = NIL, NEW d \in Domain, sh.by_domain[d] = NIL, ShardOf(d) = s
  PROVE  LET t == Added(sh, a, d)
             w == Walk(sh)
             x == Walk(t)
         IN  /\ Good(t, s)
             /\ \A e \in Domain : Addr(t, e) = IF e = d THEN a ELSE Addr(sh, e)
             /\ Len(w) \in Nat /\ Len(x) = Len(w) + 1
             /\ x[1] = d /\ \A k \in 1 .. Len(w) : x[k + 1] = w[k]
<1> DEFINE i == AllocIdx(sh)  t == Added(sh, a, d)  w == Walk(sh)  x == Walk(t)  g == Grown(sh)
<1>1. PICK n \in Nat, m \in Nat : \E q \in [1 .. m -> Spots(n)] : ShardOK(sh, s, q, n, m)
  BY DEF Good
<1>2. PICK q \in [1 .. m -> Spots(n)] : ShardOK(sh, s, q, n, m)
  BY <1>1
<1>3. /\ Listed(sh, s, w, m)
      /\ \A k \in 1 .. m : w[k] = sh.domain[q[k]] /\ Addr(sh, w[k]) = sh.ip[q[k]] /\ sh.by_domain[w[k]] = q[k]
  BY <1>2, ListIs
<1>4. m < Cap /\ Len(w) = m
  BY <1>3 DEF Listed
<1> DEFINE r == Before(i, q, m)
<1>5. /\ g \in Nat /\ ShardOK(t, s, r, g, m + 1)
      /\ t.domain[i] = d /\ t.ip[i] = a /\ t.by_domain[d] = i
      /\ \A k \in 1 .. m : t.domain[q[k]] = sh.domain[q[k]] /\ t.ip[q[k]] = sh.ip[q[k]]
      /\ \A e \in Domain : e # d => t.by_domain[e] = sh.by_domain[e]
  BY <1>2, <1>4, AddedOK
<1>6. \A k \in 1 .. m + 1 : r[k] = IF k = 1 THEN i ELSE q[k - 1]
  BY DEF Before
<1> HIDE DEF i, t, w, x, g, r
<1>7. /\ Listed(t, s, x, m + 1)
      /\ \A k \in 1 .. m + 1 : /\ x[k] = t.domain[r[k]] /\ Addr(t, x[k]) = t.ip[r[k]]
                               /\ t.by_domain[x[k]] = r[k]
  BY <1>5, ListIs DEF x
<1>8. r \in [1 .. m + 1 -> Spots(g)]
  BY <1>5 DEF ShardOK
<1>9. Good(t, s)
  BY <1>5, <1>8 DEF Good
<1>10. /\ 1 \in 1 .. m + 1 /\ r[1] = i
       /\ \A k \in 1 .. m : k + 1 \in 1 .. m + 1 /\ r[k + 1] = q[k]
  BY <1>6
<1>11. x[1] = d /\ Addr(t, d) = a
  BY <1>5, <1>7, <1>10
<1>12. \A k \in 1 .. m : x[k + 1] = w[k] /\ Addr(t, w[k]) = Addr(sh, w[k])
  <2>1. ASSUME NEW k \in 1 .. m
        PROVE  x[k + 1] = w[k] /\ Addr(t, w[k]) = Addr(sh, w[k])
    <3>1. k + 1 \in 1 .. m + 1 /\ r[k + 1] = q[k]
      BY <1>10
    <3>2. x[k + 1] = t.domain[q[k]] /\ Addr(t, x[k + 1]) = t.ip[q[k]]
      BY <1>7, <3>1
    <3> QED
      BY <1>3, <1>5, <3>2
  <2> QED
    BY <2>1
<1>13. ASSUME NEW e \in Domain, e # d
       PROVE  Addr(t, e) = Addr(sh, e)
  <2>1. CASE sh.by_domain[e] = NIL
    BY <1>5, <1>13, <2>1 DEF Addr
  <2>2. CASE sh.by_domain[e] # NIL
    <3>1. PICK k \in 1 .. m : w[k] = e
      BY <1>3, <2>2 DEF Listed
    <3>2. Addr(t, w[k]) = Addr(sh, w[k])
      BY <1>12
    <3> QED
      BY <3>1, <3>2, Zenon
  <2> QED
    BY <2>1, <2>2
<1>14. Len(x) = m + 1
  BY <1>7 DEF Listed
<1>15. \A e \in Domain : Addr(t, e) = IF e = d THEN a ELSE Addr(sh, e)
  BY <1>11, <1>13, Zenon
<1> QED
  BY <1>4, <1>9, <1>11, <1>12, <1>14, <1>15 DEF t, w, x

\* ... and evict_tail drops the last of the list.
LEMMA EvictShard ==
  ASSUME NEW s \in Shards, NEW sh, Good(sh, s), Len(Walk(sh)) # 0
  PROVE  LET t == EvictTail(sh)
             w == Walk(sh)
             x == Walk(t)
         IN  /\ Good(t, s)
             /\ Len(w) \in Nat \ {0} /\ Len(x) = Len(w) - 1
             /\ \A e \in Domain : Addr(t, e) = IF e = w[Len(w)] THEN NIL ELSE Addr(sh, e)
             /\ \A k \in 1 .. Len(w) - 1 : x[k] = w[k]
<1> DEFINE t == EvictTail(sh)  w == Walk(sh)  x == Walk(t)
<1>1. PICK n \in Nat, m \in Nat : \E q \in [1 .. m -> Spots(n)] : ShardOK(sh, s, q, n, m)
  BY DEF Good
<1>2. PICK q \in [1 .. m -> Spots(n)] : ShardOK(sh, s, q, n, m)
  BY <1>1
<1>3. /\ Listed(sh, s, w, m)
      /\ \A k \in 1 .. m : w[k] = sh.domain[q[k]] /\ Addr(sh, w[k]) = sh.ip[q[k]] /\ sh.by_domain[w[k]] = q[k]
  BY <1>2, ListIs
<1>4. m \in Nat \ {0} /\ Len(w) = m /\ m - 1 \in Nat /\ m \in 1 .. m
  BY <1>3 DEF Listed
<1> DEFINE i == q[m]  r == Without(q, m, m)
<1>5. /\ t.ip = sh.ip
      /\ \A j \in Spots(n) : t.domain[j] = IF j = i THEN NIL ELSE sh.domain[j]
      /\ \A d \in Domain : t.by_domain[d] = IF d = sh.domain[i] THEN NIL ELSE sh.by_domain[d]
  BY <1>2, <1>4, EvictIs
<1>6. ShardOK(t, s, r, n, m - 1)
  BY <1>2, <1>4, EvictOK
<1>7. \A k \in 1 .. m - 1 : r[k] = q[k] /\ k \in 1 .. m /\ k # m
  BY DEF Without
<1> HIDE DEF t, w, x, r, i
<1>8. Listed(t, s, x, m - 1) /\ \A k \in 1 .. m - 1 : x[k] = t.domain[r[k]]
  BY <1>4, <1>6, ListIs DEF x
<1>9. Good(t, s)
  BY <1>4, <1>6 DEF ShardOK, Good
<1>10. \A k \in 1 .. m - 1 : q[k] # i /\ q[k] \in Spots(n)
  BY <1>2, <1>4, <1>7 DEF ShardOK, Chain, i
<1>11. \A k \in 1 .. m - 1 : x[k] = w[k]
  BY <1>3, <1>5, <1>7, <1>8, <1>10
<1>12. w[m] = sh.domain[i]
  BY <1>3, <1>4 DEF i
<1>13. ASSUME NEW e \in Domain
       PROVE  Addr(t, e) = IF e = w[m] THEN NIL ELSE Addr(sh, e)
  BY <1>5, <1>12 DEF Addr, AddressIn
<1>14. Len(x) = m - 1
  BY <1>8 DEF Listed
<1> QED
  BY <1>4, <1>9, <1>11, <1>13, <1>14 DEF t, w, x

\* What is known of the list of every shard that is well formed.
LEMMA GoodList ==
  ASSUME NEW s \in Shards, NEW sh, Good(sh, s)
  PROVE  /\ Listed(sh, s, Walk(sh), Len(Walk(sh))) /\ Len(Walk(sh)) \in 0 .. Cap /\ sh.count = Len(Walk(sh))
         /\ Len(Walk(sh)) < Cap => \A h \in Hashes : /\ FindFreeIp(sh, s, h) \in Slice(s)
                                                     /\ sh.by_ip[FindFreeIp(sh, s, h)] = NIL
<1>1. PICK n \in Nat, m \in Nat : \E q \in [1 .. m -> Spots(n)] : ShardOK(sh, s, q, n, m)
  BY DEF Good
<1>2. PICK q \in [1 .. m -> Spots(n)] : ShardOK(sh, s, q, n, m)
  BY <1>1
<1>3. Listed(sh, s, Walk(sh), m)
  BY <1>2, ListIs
<1>4. Len(Walk(sh)) = m
  BY <1>3 DEF Listed
<1>5. m \in 0 .. Cap /\ sh.count = m
  BY <1>2, Geometry DEF ShardOK
<1>6. m < Cap => \A h \in Hashes : FindFreeIp(sh, s, h) \in Slice(s) /\ sh.by_ip[FindFreeIp(sh, s, h)] = NIL
  BY <1>2, FindFreeIs
<1> QED
  BY <1>3, <1>4, <1>5, <1>6

\* intern of a domain that is new: with room it gets a free address, from a full
\* shard one that is free or that of the domain used longest ago, which goes.
LEMMA BindShard ==
  ASSUME NEW s \in Shards, NEW sh, Good(sh, s), NEW d \in Domain, sh.by_domain[d] = NIL, ShardOf(d) = s
  PROVE  LET t == Bind(sh, s, d)
             w == Walk(sh)
             x == Walk(t)
         IN  /\ Good(t, s) /\ x[1] = d
             /\ \E a \in Slice(s) :
                  /\ Len(w) < Cap => /\ Len(x) = Len(w) + 1
                                     /\ \A k \in 1 .. Len(w) : x[k + 1] = w[k] /\ Addr(sh, w[k]) # a
                                     /\ \A e \in Domain : Addr(t, e) = IF e = d THEN a ELSE Addr(sh, e)
                  /\ Len(w) = Cap => /\ Len(x) = Cap
                                     /\ \A k \in 1 .. Cap - 1 : x[k + 1] = w[k] /\ Addr(sh, w[k]) # a
                                     /\ \A e \in Domain : Addr(t, e) = IF e = d THEN a
                                                                       ELSE IF e = w[Cap] THEN NIL ELSE Addr(sh, e)
<1> DEFINE h == Mix[Rapid[d]]
           room == IF sh.count >= Cap THEN EvictTail(sh) ELSE sh
           a == FindFreeIp(room, s, h)
           t == Bind(sh, s, d)  w == Walk(sh)  x == Walk(t)  v == Walk(room)
<1>1. t = Added(room, a, d)
  BY Zenon DEF Bind, Added, NewNode
<1>2. Listed(sh, s, w, Len(w)) /\ Len(w) \in 0 .. Cap /\ sh.count = Len(w)
  BY GoodList
<1>3. h \in Hashes
  BY FakeIpConstants
<1>4. Cap \in Nat \ {0}
  BY Geometry
<1> HIDE DEF h, t, w, x
<1>5. CASE Len(w) < Cap
  <2>1. room = sh
    BY <1>2, <1>4, <1>5
  <2>2. a \in Slice(s) /\ sh.by_ip[a] = NIL
    BY <1>3, <1>5, <2>1, GoodList DEF w
  <2>3. t = Added(sh, a, d)
    BY <1>1, <2>1
  <2> HIDE DEF room, a
  <2>4. /\ Good(t, s)
        /\ \A e \in Domain : Addr(t, e) = IF e = d THEN a ELSE Addr(sh, e)
        /\ Len(x) = Len(w) + 1
        /\ x[1] = d /\ \A k \in 1 .. Len(w) : x[k + 1] = w[k]
    BY <1>5, <2>2, <2>3, AddShard DEF w, x
  <2>5. \A k \in 1 .. Len(w) : Addr(sh, w[k]) # a
    BY <1>2, <2>2 DEF Listed
  <2> QED
    BY <1>2, <1>5, <2>2, <2>4, <2>5 DEF t, w, x
<1>6. CASE Len(w) = Cap
  <2>1. room = EvictTail(sh)
    BY <1>2, <1>4, <1>6
  <2>2. /\ Good(room, s) /\ Len(v) = Cap - 1
        /\ \A e \in Domain : Addr(room, e) = IF e = w[Cap] THEN NIL ELSE Addr(sh, e)
        /\ \A k \in 1 .. Cap - 1 : v[k] = w[k]
    <3> HIDE DEF room
    <3> QED
      BY <1>4, <1>6, <2>1, EvictShard DEF w
  <2>3. Listed(room, s, v, Cap - 1) /\ Cap - 1 < Cap
    <3> HIDE DEF room
    <3> QED
      BY <1>4, <2>2, GoodList, SMTT(30)
  <2>4. a \in Slice(s) /\ room.by_ip[a] = NIL
    <3> HIDE DEF room
    <3> QED
      BY <1>3, <2>2, <2>3, GoodList
  <2>5. room.by_domain[d] = NIL
    <3> HIDE DEF room
    <3>1. Addr(sh, d) = NIL
      BY DEF Addr
    <3>2. Addr(room, d) = NIL
      BY <2>2, <3>1
    <3> QED
      BY <2>3, <3>2 DEF Listed
  <2> HIDE DEF room, a, v
  <2>6. /\ Good(t, s)
        /\ \A e \in Domain : Addr(t, e) = IF e = d THEN a ELSE Addr(room, e)
        /\ Len(x) = Len(v) + 1
        /\ x[1] = d /\ \A k \in 1 .. Len(v) : x[k + 1] = v[k]
    BY <1>1, <2>2, <2>3, <2>4, <2>5, AddShard DEF x, v
  <2>7. ASSUME NEW k \in 1 .. Cap - 1
        PROVE  x[k + 1] = w[k] /\ Addr(sh, w[k]) # a
    <3>1. v[k] = w[k] /\ x[k + 1] = v[k]
      BY <1>4, <2>2, <2>6
    <3>2. Addr(room, v[k]) # a
      BY <2>3, <2>4 DEF Listed
    <3>3. k \in 1 .. Cap /\ Cap \in 1 .. Cap /\ k # Cap
      BY <1>4
    <3>4. w[k] \in Domain /\ w[k] # w[Cap]
      BY <1>2, <1>6, <3>3 DEF Listed
    <3>5. Addr(room, w[k]) = Addr(sh, w[k])
      BY <2>2, <3>4
    <3> QED
      BY <3>1, <3>2, <3>5, Zenon
  <2>8. \A e \in Domain : Addr(t, e) = IF e = d THEN a ELSE IF e = w[Cap] THEN NIL ELSE Addr(sh, e)
    BY <2>2, <2>6, Zenon
  <2>9. Len(x) = Cap
    BY <1>4, <2>2, <2>6
  <2> QED
    BY <1>4, <1>6, <2>4, <2>6, <2>7, <2>8, <2>9 DEF t, w, x
<1>7. Len(w) < Cap \/ Len(w) = Cap
  BY <1>2, <1>4
<1> QED
  BY <1>5, <1>6, <1>7

-----------------------------------------------------------------------------
(***************************************************************************)
(* What a client may rely on.                                              *)
(***************************************************************************)

\* g and u are what d was given and the domains used since: while the shard knows
\* d, g is its address and all before it in the list are in u; once it does not,
\* u is as large as the shard.
GivenOK(sh, g, u, d) ==
  /\ Addr(sh, d) # NIL => g = Addr(sh, d)
  /\ \A k \in 1 .. Len(Walk(sh)) : Walk(sh)[k] = d => \A j \in 1 .. k - 1 : Walk(sh)[j] \in u
  /\ g # NIL /\ Addr(sh, d) = NIL => Cardinality(u) >= Cap

PoolInv ==
  /\ DOMAIN shard = Shards /\ \A s \in Shards : Good(shard[s], s)
  /\ given \in [Domain -> Int] /\ since \in [Domain -> SUBSET Domain] /\ restarts \in 0 .. MaxPoolRestarts
  /\ \A d \in Domain : GivenOK(shard[ShardOf(d)], given[d], since[d], d)

\* What is used since only grows, and so does its size.
LEMMA SinceGrows ==
  ASSUME NEW u \in SUBSET Domain, NEW d \in Domain, Cardinality(u) >= Cap
  PROVE  Cardinality(u \cup {d}) >= Cap
<1>1. IsFiniteSet(Domain) /\ u \cup {d} \in SUBSET Domain /\ u \in SUBSET (u \cup {d})
  BY FakeIpConstants
<1>2. IsFiniteSet(u \cup {d})
  BY <1>1, FS_Subset
<1>3. Cardinality(u) <= Cardinality(u \cup {d}) /\ IsFiniteSet(u)
  BY <1>1, <1>2, FS_Subset
<1>4. Cardinality(u) \in Nat /\ Cardinality(u \cup {d}) \in Nat /\ Cap \in Nat
  BY <1>2, <1>3, FS_CardinalityType, Geometry
<1> QED
  BY <1>3, <1>4

\* A domain of the shard is used again.
LEMMA UseKeeps ==
  ASSUME NEW s \in Shards, NEW sh, Good(sh, s), NEW d \in Domain, sh.by_domain[d] # NIL,
         NEW e \in Domain, NEW g \in Int, NEW u \in SUBSET Domain, GivenOK(sh, g, u, e)
  PROVE  GivenOK(Promote(sh, sh.by_domain[d]), g, IF e = d THEN {} ELSE IF g # NIL THEN u \cup {d} ELSE u, e)
<1> DEFINE t == Promote(sh, sh.by_domain[d])  w == Walk(sh)  x == Walk(t)
           u1 == IF e = d THEN {} ELSE IF g # NIL THEN u \cup {d} ELSE u
<1>1. /\ Good(t, s) /\ Addr(t, e) = Addr(sh, e) /\ Len(x) = Len(w)
      /\ \E p \in 1 .. Len(w) : /\ w[p] = d /\ x[1] = d
                                /\ \A k \in 2 .. Len(w) : x[k] = IF k <= p THEN w[k - 1] ELSE w[k]
  BY UseShard
<1>2. Listed(sh, s, w, Len(w)) /\ Len(w) \in Nat
  BY GoodList, Geometry
<1>3. Listed(t, s, x, Len(w))
  BY <1>1, GoodList
<1> HIDE DEF t, w, x
<1>4. PICK p \in 1 .. Len(w) : /\ w[p] = d /\ x[1] = d
                               /\ \A k \in 2 .. Len(w) : x[k] = IF k <= p THEN w[k - 1] ELSE w[k]
  BY <1>1
<1>5. /\ Addr(sh, e) # NIL => g = Addr(sh, e)
      /\ \A k \in 1 .. Len(w) : w[k] = e => \A j \in 1 .. k - 1 : w[j] \in u
      /\ g # NIL /\ Addr(sh, e) = NIL => Cardinality(u) >= Cap
  BY DEF GivenOK, w
<1>6. Addr(sh, d) # NIL
  BY <1>2 DEF Listed
<1>7. ASSUME NEW k \in 1 .. Len(w), x[k] = e, NEW j \in 1 .. k - 1
      PROVE  x[j] \in u1
  <2>1. k \in 2 .. Len(w) /\ 1 \in 1 .. Len(w) /\ j \in 1 .. Len(w)
    BY <1>2
  <2>2. e # d
    BY <1>3, <1>4, <1>7, <2>1 DEF Listed
  <2>3. g # NIL
    <3>1. t.by_domain[e] # NIL
      BY <1>3, <1>7 DEF Listed
    <3> QED
      BY <1>1, <1>3, <1>5, <3>1 DEF Listed
  <2>4. CASE j = 1
    BY <1>4, <2>2, <2>3, <2>4
  <2>5. CASE j # 1
    <3>1. PICK l \in 1 .. Len(w) : w[l] = e /\ \E i \in 1 .. l - 1 : x[j] = w[i]
      <4>1. j \in 2 .. Len(w) /\ j < k /\ k - 1 \in 1 .. Len(w) /\ k \in 1 .. Len(w)
        BY <1>2, <2>1, <2>5
      <4>2. CASE k <= p
        <5>1. w[k - 1] = e /\ x[j] = w[j - 1] /\ j - 1 \in 1 .. (k - 1) - 1
          BY <1>4, <1>7, <2>1, <4>1, <4>2
        <5> QED
          BY <4>1, <5>1
      <4>3. CASE ~(k <= p)
        <5>1. w[k] = e /\ j - 1 \in 1 .. k - 1 /\ j \in 1 .. k - 1
          BY <1>4, <1>7, <2>1, <4>1, <4>3
        <5>2. x[j] = w[j - 1] \/ x[j] = w[j]
          BY <1>4, <4>1
        <5> QED
          BY <4>1, <5>1, <5>2
      <4> QED
        BY <4>2, <4>3
    <3>2. x[j] \in u
      BY <1>5, <3>1
    <3> QED
      BY <2>2, <2>3, <3>2
  <2> QED
    BY <2>4, <2>5
<1>8. ASSUME g # NIL, Addr(t, e) = NIL
      PROVE  Cardinality(u1) >= Cap
  <2>1. e # d /\ Cardinality(u) >= Cap
    BY <1>1, <1>5, <1>6, <1>8
  <2>2. u1 = u \cup {d}
    BY <1>8, <2>1
  <2> QED
    BY <2>1, <2>2, SinceGrows
<1> HIDE DEF u1
<1>9. GivenOK(t, g, u1, e)
  BY <1>1, <1>5, <1>7, <1>8 DEF GivenOK, x
<1> QED
  BY <1>9 DEF t, u1

\* A domain that is new to the shard is used.
LEMMA BindKeeps ==
  ASSUME NEW s \in Shards, NEW sh, Good(sh, s), NEW d \in Domain, sh.by_domain[d] = NIL, ShardOf(d) = s,
         NEW e \in Domain, NEW g \in Int, NEW u \in SUBSET Domain, GivenOK(sh, g, u, e)
  PROVE  GivenOK(Bind(sh, s, d), IF e = d THEN Addr(Bind(sh, s, d), d) ELSE g,
                 IF e = d THEN {} ELSE IF g # NIL THEN u \cup {d} ELSE u, e)
<1> DEFINE t == Bind(sh, s, d)  w == Walk(sh)  x == Walk(t)
           u1 == IF e = d THEN {} ELSE IF g # NIL THEN u \cup {d} ELSE u
           g1 == IF e = d THEN Addr(t, d) ELSE g
<1>1. /\ Good(t, s) /\ x[1] = d
      /\ \E a \in Slice(s) :
           /\ Len(w) < Cap => /\ Len(x) = Len(w) + 1
                              /\ \A k \in 1 .. Len(w) : x[k + 1] = w[k] /\ Addr(sh, w[k]) # a
                              /\ \A f \in Domain : Addr(t, f) = IF f = d THEN a ELSE Addr(sh, f)
           /\ Len(w) = Cap => /\ Len(x) = Cap
                              /\ \A k \in 1 .. Cap - 1 : x[k + 1] = w[k] /\ Addr(sh, w[k]) # a
                              /\ \A f \in Domain : Addr(t, f) = IF f = d THEN a
                                                                ELSE IF f = w[Cap] THEN NIL ELSE Addr(sh, f)
  BY BindShard
<1>2. Listed(sh, s, w, Len(w)) /\ Len(w) \in 0 .. Cap /\ Cap \in Nat \ {0}
  BY GoodList, Geometry
<1>3. Listed(t, s, x, Len(x)) /\ Len(x) \in 0 .. Cap /\ Len(x) \in Nat
  <2> HIDE DEF t
  <2>1. Listed(t, s, x, Len(x)) /\ Len(x) \in 0 .. Cap
    BY <1>1, GoodList
  <2> HIDE DEF x
  <2> QED
    BY <1>2, <2>1
<1> HIDE DEF t, w, x
<1>4. /\ Addr(sh, e) # NIL => g = Addr(sh, e)
      /\ \A k \in 1 .. Len(w) : w[k] = e => \A j \in 1 .. k - 1 : w[j] \in u
      /\ g # NIL /\ Addr(sh, e) = NIL => Cardinality(u) >= Cap
  BY DEF GivenOK, w
<1>5. PICK a \in Slice(s) :
           /\ Len(w) < Cap => /\ Len(x) = Len(w) + 1
                              /\ \A k \in 1 .. Len(w) : x[k + 1] = w[k] /\ Addr(sh, w[k]) # a
                              /\ \A f \in Domain : Addr(t, f) = IF f = d THEN a ELSE Addr(sh, f)
           /\ Len(w) = Cap => /\ Len(x) = Cap
                              /\ \A k \in 1 .. Cap - 1 : x[k + 1] = w[k] /\ Addr(sh, w[k]) # a
                              /\ \A f \in Domain : Addr(t, f) = IF f = d THEN a
                                                                ELSE IF f = w[Cap] THEN NIL ELSE Addr(sh, f)
  BY <1>1
<1>6. a # NIL
  BY Geometry DEF NIL
<1>7. /\ \A k \in 2 .. Len(x) : k - 1 \in 1 .. Len(w) /\ x[k] = w[k - 1]
      /\ Addr(t, d) = a
      /\ \A f \in Domain : f # d => Addr(t, f) = Addr(sh, f) \/ (Addr(t, f) = NIL /\ Len(w) = Cap /\ f = w[Cap])
  <2>1. CASE Len(w) < Cap
    <3>1. ASSUME NEW k \in 2 .. Len(x)
          PROVE  k - 1 \in 1 .. Len(w) /\ x[k] = w[k - 1]
      <4>1. k - 1 \in 1 .. Len(w) /\ (k - 1) + 1 = k
        BY <1>2, <1>5, <2>1
      <4>2. x[(k - 1) + 1] = w[k - 1]
        BY <1>5, <2>1, <4>1, Zenon
      <4> QED
        BY <1>2, <2>1, <4>1, <4>2
    <3> QED
      BY <1>5, <2>1, <3>1
  <2>2. CASE Len(w) = Cap
    <3>1. ASSUME NEW k \in 2 .. Len(x)
          PROVE  k - 1 \in 1 .. Len(w) /\ x[k] = w[k - 1]
      <4>1. k - 1 \in 1 .. Cap - 1 /\ (k - 1) + 1 = k
        BY <1>2, <1>5, <2>2
      <4>2. x[(k - 1) + 1] = w[k - 1]
        BY <1>5, <2>2, <4>1, Zenon
      <4> QED
        BY <1>2, <2>2, <4>1, <4>2
    <3> QED
      BY <1>5, <2>2, <3>1
  <2> QED
    BY <1>2, <2>1, <2>2
<1>8. e # d /\ Addr(t, e) # NIL => g = Addr(t, e)
  BY <1>4, <1>7
<1>9. ASSUME NEW k \in 1 .. Len(x), x[k] = e, NEW j \in 1 .. k - 1
      PROVE  x[j] \in u1
  <2>1. k \in 2 .. Len(x) /\ 1 \in 1 .. Len(x) /\ j \in 1 .. Len(x)
    BY <1>2, <1>3
  <2>2. e # d
    <3>1. x[1] = d /\ k # 1
      BY <1>1, <2>1
    <3>2. x[1] # x[k]
      BY <1>3, <2>1, <3>1 DEF Listed
    <3> QED
      BY <1>9, <3>1, <3>2
  <2>3. w[k - 1] = e /\ k - 1 \in 1 .. Len(w)
    BY <1>7, <1>9, <2>1
  <2>4. g # NIL
    <3>1. sh.by_domain[e] # NIL
      BY <1>2, <2>3 DEF Listed
    <3> QED
      BY <1>2, <1>4, <3>1 DEF Listed
  <2>5. CASE j = 1
    BY <1>1, <2>2, <2>4, <2>5
  <2>6. CASE j # 1
    <3>1. x[j] = w[j - 1] /\ j - 1 \in 1 .. (k - 1) - 1
      BY <1>7, <2>1, <2>6
    <3>2. x[j] \in u
      BY <1>4, <2>3, <3>1
    <3> QED
      BY <2>2, <2>4, <3>2
  <2> QED
    BY <2>5, <2>6
<1>10. ASSUME e # d, g # NIL, Addr(t, e) = NIL
       PROVE  Cardinality(u1) >= Cap
  <2>1. u1 = u \cup {d}
    BY <1>10
  <2>2. CASE Addr(sh, e) = NIL
    BY <1>4, <1>10, <2>1, <2>2, SinceGrows
  <2>3. CASE Addr(sh, e) # NIL
    <3>1. Len(w) = Cap /\ e = w[Cap] /\ Len(x) = Cap
      BY <1>5, <1>7, <1>10, <2>3
    <3>2. ASSUME NEW k \in 1 .. Cap
          PROVE  x[k] \in u1
      <4>1. CASE k = 1
        BY <1>1, <2>1, <4>1
      <4>2. CASE k # 1
        <5>1. k \in 2 .. Len(x) /\ k - 1 \in 1 .. Cap - 1 /\ Cap \in 1 .. Len(w)
          BY <1>2, <3>1, <4>2
        <5>2. x[k] = w[k - 1]
          BY <1>7, <5>1
        <5> QED
          BY <1>4, <2>1, <3>1, <5>1, <5>2
      <4> QED
        BY <4>1, <4>2
    <3> DEFINE f == [k \in 1 .. Cap |-> x[k]]
    <3>3. f \in Injection(1 .. Cap, u1)
      <4>1. f \in [1 .. Cap -> u1]
        BY <3>2
      <4>2. \A j, k \in 1 .. Cap : x[j] = x[k] => j = k
        BY <1>3, <3>1 DEF Listed
      <4> QED
        BY <4>1, <4>2 DEF Injection, IsInjective
    <3>4. IsFiniteSet(u1)
      BY <2>1, FakeIpConstants, FS_Subset
    <3>5. Cardinality(1 .. Cap) <= Cardinality(u1)
      <4> HIDE DEF f, u1
      <4> QED
        BY <3>3, <3>4, FS_Injection
    <3>6. Cardinality(1 .. Cap) = Cap /\ Cardinality(u1) \in Nat
      BY <1>2, <3>4, FS_Interval, FS_CardinalityType
    <3> QED
      BY <1>2, <3>5, <3>6
  <2> QED
    BY <2>2, <2>3
<1>11. /\ Addr(t, e) # NIL => g1 = Addr(t, e)
       /\ g1 # NIL /\ Addr(t, e) = NIL => Cardinality(u1) >= Cap
  <2>1. CASE e = d
    BY <1>6, <1>7, <2>1
  <2>2. CASE e # d
    BY <1>8, <1>10, <2>2
  <2> QED
    BY <2>1, <2>2
<1> HIDE DEF u1, g1
<1>12. GivenOK(t, g1, u1, e)
  BY <1>9, <1>11 DEF GivenOK, x
<1> QED
  BY <1>12 DEF t, u1, g1

\* A shard that has nothing is well formed, and so is the list of it.
LEMMA EmptyGood ==
  ASSUME NEW s \in Shards
  PROVE  Good(EmptyShard(s), s) /\ Len(Walk(EmptyShard(s))) = 0 /\ \A d \in Domain : Addr(EmptyShard(s), d) = NIL
<1> DEFINE sh == EmptyShard(s)  q == [k \in 1 .. 0 |-> 0]
<1>1. Spots(0) = {} /\ NIL \in Optional(0) /\ <<>> \in Seq(Spots(0)) /\ Len(<<>>) = 0
  BY DEF Spots, Optional
<1>2. <<>> \in [Spots(0) -> Slice(s)] /\ <<>> \in [Spots(0) -> Domain \cup {NIL}] /\ <<>> \in [Spots(0) -> Optional(0)]
  BY <1>1
<1>3. sh \in ShardRecs(0, s)
  BY <1>1, <1>2 DEF EmptyShard, ShardRecs
<1>4. q \in [1 .. 0 -> Spots(0)]
  OBVIOUS
<1>5. Chain(sh, q, 0)
  BY DEF Chain, EmptyShard
<1>6. Mapped(sh, s, q, 0)
  BY DEF Mapped, EmptyShard
<1>7. Unused(sh, q, 0)
  BY <1>1 DEF Unused, EmptyShard
<1>8. sh.count = 0 /\ 0 <= Cap
  BY Geometry DEF EmptyShard
<1> HIDE DEF q
<1>9. ShardOK(sh, s, q, 0, 0)
  BY <1>3, <1>4, <1>5, <1>6, <1>7, <1>8 DEF ShardOK
<1>10. Good(sh, s)
  BY <1>4, <1>9 DEF Good
<1>11. Listed(sh, s, Walk(sh), 0)
  BY <1>9, ListIs
<1>12. \A d \in Domain : Addr(sh, d) = NIL
  BY DEF EmptyShard, Addr
<1> QED
  BY <1>10, <1>11, <1>12 DEF Listed

\* The list of such a shard is the empty sequence.
LEMMA EmptyWalk ==
  ASSUME NEW s \in Shards
  PROVE  Walk(EmptyShard(s)) = <<>>
<1> DEFINE w == Walk(EmptyShard(s))
<1>1. Listed(EmptyShard(s), s, w, 0)
  BY EmptyGood, GoodList
<1> HIDE DEF w
<1>2. w \in Seq(Domain) /\ Len(w) = 0
  BY <1>1 DEF Listed
<1> QED
  BY <1>2 DEF w

\* What the two actions do to their shard.
LEMMA InternIs ==
  ASSUME PoolInv, NEW d \in Domain, Intern(d)
  PROVE  LET s == ShardOf(d)
             sh == shard[s]
             t == ShardIntern(sh, s, d)
         IN  /\ s \in Shards /\ Good(sh, s) /\ Good(t, s)
             /\ shard' = [shard EXCEPT ![s] = t]
             /\ given' = [given EXCEPT ![d] = Addr(t, d)] /\ Addr(t, d) \in Int
             /\ sh.by_domain[d] # NIL => t = Promote(sh, sh.by_domain[d])
             /\ sh.by_domain[d] = NIL => t = Bind(sh, s, d)
             /\ restarts' = restarts /\ Uses(d)
<1> DEFINE s == ShardOf(d)  sh == shard[s]  t == ShardIntern(sh, s, d)
<1>1. s \in Shards /\ Good(sh, s)
  BY ShardOfIs DEF PoolInv
<1>2. /\ shard' = [shard EXCEPT ![s] = t] /\ given' = [given EXCEPT ![d] = AddressIn(t, d)]
      /\ restarts' = restarts /\ Uses(d)
  BY DEF Intern
<1>3. /\ sh.by_domain[d] # NIL => t = Promote(sh, sh.by_domain[d])
      /\ sh.by_domain[d] = NIL => t = Bind(sh, s, d)
  BY DEF ShardIntern
<1> HIDE DEF sh, t
<1>4. Good(t, s) /\ Addr(t, d) # NIL
  <2>1. CASE sh.by_domain[d] # NIL
    <3>1. Listed(sh, s, Walk(sh), Len(Walk(sh)))
      BY <1>1, GoodList
    <3>2. Addr(sh, d) # NIL
      BY <2>1, <3>1 DEF Listed
    <3>3. Good(t, s) /\ Addr(t, d) = Addr(sh, d)
      BY <1>1, <1>3, <2>1, UseShard
    <3> QED
      BY <3>2, <3>3
  <2>2. CASE sh.by_domain[d] = NIL
    <3>1. Good(t, s)
      BY <1>1, <1>3, <2>2, BindShard
    <3>2. \E a \in Slice(s) : /\ Len(Walk(sh)) < Cap => Addr(t, d) = a
                              /\ Len(Walk(sh)) = Cap => Addr(t, d) = a
      BY <1>1, <1>3, <2>2, BindShard
    <3>3. Len(Walk(sh)) < Cap \/ Len(Walk(sh)) = Cap
      BY <1>1, GoodList, Geometry
    <3>4. \A a \in Slice(s) : a # NIL
      BY <1>1, Geometry DEF NIL
    <3> QED
      BY <3>1, <3>2, <3>3, <3>4
  <2> QED
    BY <2>1, <2>2
<1>5. Addr(t, d) = AddressIn(t, d)
  BY <1>4 DEF Addr
<1>6. Addr(t, d) \in Int
  <2>1. Listed(t, s, Walk(t), Len(Walk(t)))
    BY <1>1, <1>4, GoodList
  <2>2. Addr(t, d) \in Slice(s)
    BY <1>4, <2>1 DEF Listed
  <2> QED
    BY <1>1, <2>2, Geometry
<1> QED
  BY <1>1, <1>2, <1>3, <1>4, <1>5, <1>6 DEF sh, t

\* Lookback is the use of a domain that its shard knows.
LEMMA LookbackIs ==
  ASSUME PoolInv, NEW a \in Network .. Bcast, Lookback(a)
  PROVE  \E d \in Domain :
           LET s == ShardOf(d)
               sh == shard[s]
           IN  /\ s \in Shards /\ Good(sh, s) /\ sh.by_domain[d] # NIL
               /\ shard' = [shard EXCEPT ![s] = Promote(sh, sh.by_domain[d])]
               /\ UNCHANGED <<given, restarts>> /\ Uses(d)
<1> DEFINE s == LookbackShard(a)  sh == shard[s]  i == sh.by_ip[a]  d == sh.domain[i]
<1>1. Answer(a) # NIL
  BY DEF Lookback
<1>2. ~(a < Lo \/ s >= NShards) /\ i # NIL /\ Answer(a) = d
  BY <1>1, Zenon DEF Answer
<1>3. a \in Int /\ Lo \in Int /\ NShards \in Int /\ a - Lo \in Int /\ Span \in Nat \ {0}
  BY FakeIpConstants, Geometry
<1>4. s \in Int
  BY <1>3, Quotient DEF LookbackShard
<1>5. s \in Shards /\ a \in Slice(s)
  <2> HIDE DEF s
  <2>1. a >= Lo /\ s < NShards
    BY <1>2, <1>3, <1>4
  <2> QED
    BY <1>3, <2>1, LookbackShardIs DEF s
<1>6. /\ shard' = [shard EXCEPT ![s] = Promote(sh, i)] /\ Uses(d)
      /\ UNCHANGED <<given, restarts>>
  BY <1>2 DEF Lookback
<1>7. Good(sh, s)
  BY <1>5 DEF PoolInv
<1> HIDE DEF s, sh
<1>8. PICK k \in 1 .. Len(Walk(sh)) : Addr(sh, Walk(sh)[k]) = a
  <2>1. Listed(sh, s, Walk(sh), Len(Walk(sh)))
    BY <1>5, <1>7, GoodList
  <2> QED
    BY <1>2, <1>5, <2>1 DEF Listed
<1> DEFINE e == Walk(sh)[k]
<1>9. e \in Domain /\ ShardOf(e) = s /\ sh.by_domain[e] = i /\ d = e
  <2>1. Listed(sh, s, Walk(sh), Len(Walk(sh)))
    BY <1>5, <1>7, GoodList
  <2>2. e \in Domain /\ ShardOf(e) = s /\ sh.by_domain[e] # NIL
    BY <2>1 DEF Listed
  <2> QED
    BY <1>8, <2>1, <2>2 DEF Listed
<1> HIDE DEF d, e, i
<1> QED
  BY <1>2, <1>5, <1>6, <1>7, <1>9 DEF sh

\* Initially no shard knows anything.
LEMMA PoolInvInit == PoolInit => PoolInv
<1> SUFFICES ASSUME PoolInit
             PROVE  PoolInv
  OBVIOUS
<1>1. DOMAIN shard = Shards /\ \A s \in Shards : shard[s] = EmptyShard(s)
  BY DEF PoolInit
<1>2. given = [d \in Domain |-> NIL] /\ since = [d \in Domain |-> {}] /\ restarts \in 0 .. MaxPoolRestarts
  BY FakeIpConstants DEF PoolInit
<1>3. ASSUME NEW d \in Domain
      PROVE  GivenOK(shard[ShardOf(d)], given[d], since[d], d)
  BY <1>1, <1>2, ShardOfIs, EmptyGood DEF GivenOK
<1> QED
  BY <1>1, <1>2, <1>3, EmptyGood DEF PoolInv, NIL

\* Every step keeps it.
LEMMA PoolInvNext == PoolInv /\ [PoolNext]_poolVars => PoolInv'
<1> SUFFICES ASSUME PoolInv, [PoolNext]_poolVars
             PROVE  PoolInv'
  OBVIOUS
<1>1. ASSUME NEW d \in Domain, Uses(d)
      PROVE  /\ since' \in [Domain -> SUBSET Domain]
             /\ \A e \in Domain : since'[e] = IF e = d THEN {}
                                             ELSE IF ShardOf(e) = ShardOf(d) /\ given[e] # NIL
                                                  THEN since[e] \cup {d} ELSE since[e]
  BY <1>1 DEF Uses, PoolInv
<1>2. ASSUME NEW d \in Domain, Intern(d)
      PROVE  PoolInv'
  <2> DEFINE s == ShardOf(d)  sh == shard[s]  t == ShardIntern(sh, s, d)
  <2>1. /\ s \in Shards /\ Good(sh, s) /\ Good(t, s)
        /\ shard' = [shard EXCEPT ![s] = t]
        /\ given' = [given EXCEPT ![d] = Addr(t, d)] /\ Addr(t, d) \in Int
        /\ sh.by_domain[d] # NIL => t = Promote(sh, sh.by_domain[d])
        /\ sh.by_domain[d] = NIL => t = Bind(sh, s, d)
        /\ restarts' = restarts /\ Uses(d)
    BY <1>2, InternIs
  <2> HIDE DEF t
  <2>2. /\ DOMAIN shard' = Shards /\ shard'[s] = t
        /\ \A r \in Shards : r # s => shard'[r] = shard[r]
        /\ given' \in [Domain -> Int] /\ given'[d] = Addr(t, d)
        /\ \A e \in Domain : e # d => given'[e] = given[e]
    BY <2>1 DEF PoolInv
  <2>3. ASSUME NEW e \in Domain
        PROVE  GivenOK(shard'[ShardOf(e)], given'[e], since'[e], e)
    <3>1. /\ GivenOK(shard[ShardOf(e)], given[e], since[e], e) /\ given[e] \in Int /\ since[e] \in SUBSET Domain
          /\ ShardOf(e) \in Shards
      BY ShardOfIs DEF PoolInv
    <3>2. CASE ShardOf(e) # s
      <4>1. shard'[ShardOf(e)] = shard[ShardOf(e)] /\ given'[e] = given[e] /\ since'[e] = since[e]
        BY <1>1, <2>1, <2>2, <3>1, <3>2
      <4> QED
        BY <3>1, <4>1
    <3>3. CASE ShardOf(e) = s
      <4> DEFINE u == IF e = d THEN {} ELSE IF given[e] # NIL THEN since[e] \cup {d} ELSE since[e]
      <4>1. since'[e] = u /\ shard'[ShardOf(e)] = t
        BY <1>1, <2>1, <2>2, <3>3
      <4>2. GivenOK(sh, given[e], since[e], e)
        BY <3>1, <3>3
      <4> HIDE DEF sh
      <4>3. CASE sh.by_domain[d] # NIL
        <5>1. GivenOK(t, given[e], u, e)
          BY <2>1, <3>1, <4>2, <4>3, UseKeeps
        <5>2. given'[e] = given[e]
          <6>1. CASE e # d
            BY <2>2, <6>1
          <6>2. CASE e = d
            <7>1. Addr(t, d) = Addr(sh, d)
              BY <2>1, <4>3, UseShard
            <7>2. Listed(sh, s, Walk(sh), Len(Walk(sh)))
              BY <2>1, GoodList
            <7>3. Addr(sh, d) # NIL
              BY <4>3, <7>2 DEF Listed
            <7> QED
              BY <2>2, <4>2, <6>2, <7>1, <7>3 DEF GivenOK
          <6> QED
            BY <6>1, <6>2
        <5> QED
          BY <4>1, <5>1, <5>2
      <4>4. CASE sh.by_domain[d] = NIL
        <5>1. GivenOK(t, IF e = d THEN Addr(t, d) ELSE given[e], u, e)
          <6>1. GivenOK(Bind(sh, s, d), IF e = d THEN Addr(Bind(sh, s, d), d) ELSE given[e],
                        IF e = d THEN {} ELSE IF given[e] # NIL THEN since[e] \cup {d} ELSE since[e], e)
            BY <2>1, <3>1, <4>2, <4>4, BindKeeps
          <6> QED
            BY <2>1, <4>4, <6>1
        <5>2. given'[e] = IF e = d THEN Addr(t, d) ELSE given[e]
          BY <2>2
        <5> QED
          BY <4>1, <5>1, <5>2
      <4> QED
        BY <4>3, <4>4
    <3> QED
      BY <3>2, <3>3
  <2>4. \A r \in Shards : Good(shard'[r], r)
    BY <2>1, <2>2 DEF PoolInv
  <2>5. since' \in [Domain -> SUBSET Domain] /\ restarts' \in 0 .. MaxPoolRestarts
    BY <1>1, <2>1 DEF PoolInv
  <2> QED
    BY <2>2, <2>3, <2>4, <2>5 DEF PoolInv
<1>3. ASSUME NEW a \in Network .. Bcast, Lookback(a)
      PROVE  PoolInv'
  <2>1. PICK d \in Domain :
          LET s == ShardOf(d)
              sh == shard[s]
          IN  /\ s \in Shards /\ Good(sh, s) /\ sh.by_domain[d] # NIL
              /\ shard' = [shard EXCEPT ![s] = Promote(sh, sh.by_domain[d])]
              /\ UNCHANGED <<given, restarts>> /\ Uses(d)
    BY <1>3, LookbackIs
  <2> DEFINE s == ShardOf(d)  sh == shard[s]  t == Promote(sh, sh.by_domain[d])
  <2>2. /\ s \in Shards /\ Good(sh, s) /\ sh.by_domain[d] # NIL /\ shard' = [shard EXCEPT ![s] = t]
        /\ given' = given /\ restarts' = restarts /\ Uses(d)
    BY <2>1
  <2>3. Good(t, s)
    <3> HIDE DEF s, sh
    <3> QED
      BY <2>2, UseShard
  <2> HIDE DEF t
  <2>4. /\ DOMAIN shard' = Shards /\ shard'[s] = t
        /\ \A r \in Shards : r # s => shard'[r] = shard[r]
    BY <2>2 DEF PoolInv
  <2>5. ASSUME NEW e \in Domain
        PROVE  GivenOK(shard'[ShardOf(e)], given'[e], since'[e], e)
    <3>1. /\ GivenOK(shard[ShardOf(e)], given[e], since[e], e) /\ given[e] \in Int /\ since[e] \in SUBSET Domain
          /\ ShardOf(e) \in Shards
      BY ShardOfIs DEF PoolInv
    <3>2. CASE ShardOf(e) # s
      <4>1. shard'[ShardOf(e)] = shard[ShardOf(e)] /\ given'[e] = given[e] /\ since'[e] = since[e]
        BY <1>1, <2>2, <2>4, <3>1, <3>2
      <4> QED
        BY <3>1, <4>1
    <3>3. CASE ShardOf(e) = s
      <4> DEFINE u == IF e = d THEN {} ELSE IF given[e] # NIL THEN since[e] \cup {d} ELSE since[e]
      <4>1. since'[e] = u /\ shard'[ShardOf(e)] = t /\ given'[e] = given[e]
        BY <1>1, <2>2, <2>4, <3>3
      <4>2. GivenOK(sh, given[e], since[e], e)
        BY <3>1, <3>3
      <4>3. GivenOK(t, given[e], u, e)
        <5> HIDE DEF sh
        <5> QED
          BY <2>2, <3>1, <4>2, UseKeeps DEF t
      <4> QED
        BY <4>1, <4>3
    <3> QED
      BY <3>2, <3>3
  <2>6. \A r \in Shards : Good(shard'[r], r)
    BY <2>2, <2>3, <2>4 DEF PoolInv
  <2>7. since' \in [Domain -> SUBSET Domain]
    BY <1>1, <2>2
  <2> QED
    BY <2>2, <2>4, <2>5, <2>6, <2>7 DEF PoolInv
<1>4. ASSUME Restart
      PROVE  PoolInv'
  <2>1. DOMAIN shard' = Shards /\ \A s \in Shards : shard'[s] = EmptyShard(s)
    BY <1>4 DEF Restart
  <2>2. /\ given' = [d \in Domain |-> NIL] /\ since' = [d \in Domain |-> {}]
        /\ restarts' \in 0 .. MaxPoolRestarts
    BY <1>4, FakeIpConstants DEF Restart, PoolInv
  <2>3. ASSUME NEW d \in Domain
        PROVE  GivenOK(shard'[ShardOf(d)], given'[d], since'[d], d)
    BY <2>1, <2>2, ShardOfIs, EmptyGood DEF GivenOK
  <2> QED
    BY <2>1, <2>2, <2>3, EmptyGood DEF PoolInv, NIL
<1>5. CASE UNCHANGED poolVars
  BY <1>5 DEF PoolInv, poolVars
<1> QED
  BY <1>2, <1>3, <1>4, <1>5 DEF PoolNext

\* The invariant holds always.
LEMMA PoolInvAlways == PoolSpec => []PoolInv
BY PoolInvInit, PoolInvNext, PTL DEF PoolSpec

\* A shard that is well formed has its types, and maps that are inverse.
LEMMA GoodShard ==
  ASSUME NEW s \in Shards, NEW sh, Good(sh, s)
  PROVE  ShardType(sh, s) /\ ShardBijective(sh, s)
<1>1. PICK n \in Nat, m \in Nat : \E q \in [1 .. m -> Spots(n)] : ShardOK(sh, s, q, n, m)
  BY DEF Good
<1>2. PICK q \in [1 .. m -> Spots(n)] : ShardOK(sh, s, q, n, m)
  BY <1>1
<1>3. sh \in ShardRecs(n, s) /\ sh.count = m /\ m <= Cap /\ Chain(sh, q, m) /\ Mapped(sh, s, q, m)
  BY <1>2 DEF ShardOK
<1>4. ShardType(sh, s)
  <2>1. sh.len = n /\ Idx(sh) = Spots(n)
    BY <1>3 DEF ShardRecs, Idx, Spots
  <2>2. Optional(n) = Idx(sh) \cup {NIL}
    BY <2>1 DEF Optional
  <2> QED
    BY <1>3, <2>1, <2>2 DEF ShardRecs, ShardType, Link
<1>5. \A d \in Known(sh) : /\ sh.domain[sh.by_domain[d]] = d
                          /\ sh.by_ip[sh.ip[sh.by_domain[d]]] = sh.by_domain[d]
                          /\ ShardOf(d) = s
  <2> SUFFICES ASSUME NEW d \in Known(sh)
               PROVE  /\ sh.domain[sh.by_domain[d]] = d
                      /\ sh.by_ip[sh.ip[sh.by_domain[d]]] = sh.by_domain[d]
                      /\ ShardOf(d) = s
    OBVIOUS
  <2>1. PICK k \in 1 .. m : q[k] = sh.by_domain[d] /\ sh.domain[q[k]] = d
    BY <1>3 DEF Known, Mapped
  <2> QED
    BY <1>3, <2>1 DEF Mapped
<1>6. \A a \in Slice(s) : sh.by_ip[a] # NIL => sh.ip[sh.by_ip[a]] = a /\ sh.by_ip[a] \in InUse(sh)
  <2> SUFFICES ASSUME NEW a \in Slice(s), sh.by_ip[a] # NIL
               PROVE  sh.ip[sh.by_ip[a]] = a /\ sh.by_ip[a] \in InUse(sh)
    OBVIOUS
  <2>1. PICK k \in 1 .. m : q[k] = sh.by_ip[a] /\ sh.ip[q[k]] = a
    BY <1>3 DEF Mapped
  <2>2. sh.domain[q[k]] \in Domain /\ sh.by_domain[sh.domain[q[k]]] = q[k]
    BY <1>3 DEF Mapped
  <2> QED
    BY <2>1, <2>2 DEF InUse, Known
<1>7. sh.count = Cardinality(Known(sh))
  <2> DEFINE w == Walk(sh)
  <2>1. Listed(sh, s, w, m)
    BY <1>2, ListIs
  <2> HIDE DEF w
  <2>2. w \in [1 .. m -> Known(sh)]
    BY <2>1 DEF Listed, Known
  <2>3. w \in Injection(1 .. m, Known(sh))
    BY <2>1, <2>2 DEF Listed, Injection, IsInjective
  <2>4. w \in Surjection(1 .. m, Known(sh))
    BY <2>1, <2>2 DEF Listed, Known, Surjection
  <2>5. ExistsBijection(1 .. m, Known(sh))
    BY <2>3, <2>4 DEF ExistsBijection, Bijection
  <2>6. IsFiniteSet(1 .. m) /\ Cardinality(1 .. m) = m
    BY FS_Interval
  <2>7. Cardinality(Known(sh)) = Cardinality(1 .. m)
    BY <2>5, <2>6, FS_Bijection
  <2> QED
    BY <1>3, <2>6, <2>7
<1> QED
  BY <1>3, <1>4, <1>5, <1>6, <1>7 DEF ShardBijective

\* A client can rely on an address it was given: the maps of every shard are inverse
\* to each other and within max_entries, and the address leads back to its name for as
\* long as fewer other names of the shard than it has room for were used since.
THEOREM PoolKeepsAddresses == PoolSpec => []AddressesKept
<1>1. PoolInv => AddressesKept
  <2> SUFFICES ASSUME PoolInv
               PROVE  AddressesKept
    OBVIOUS
  <2>1. FakeIpTypeOK /\ Bijective
    BY GoodShard DEF PoolInv, FakeIpTypeOK, Bijective
  <2>2. ASSUME NEW d \in Domain, given[d] # NIL, Cardinality(since[d]) < Cap
        PROVE  Answer(given[d]) = d
    <3> DEFINE s == ShardOf(d)  sh == shard[s]  a == given[d]
    <3>1. s \in Shards /\ Good(sh, s) /\ GivenOK(sh, a, since[d], d) /\ IsFiniteSet(since[d])
      BY ShardOfIs, FakeIpConstants, FS_Subset DEF PoolInv
    <3>2. Cardinality(since[d]) \in Nat /\ Cap \in Nat
      BY <3>1, FS_CardinalityType, Geometry
    <3>3. Addr(sh, d) # NIL /\ a = Addr(sh, d)
      BY <2>2, <3>1, <3>2 DEF GivenOK
    <3>4. Listed(sh, s, Walk(sh), Len(Walk(sh)))
      BY <3>1, GoodList
    <3>5. a \in Slice(s) /\ sh.by_ip[a] = sh.by_domain[d] /\ sh.by_domain[d] # NIL /\ sh.domain[sh.by_domain[d]] = d
      <4> HIDE DEF sh, s, a
      <4> QED
        BY <3>3, <3>4 DEF Listed
    <3>6. a >= Lo /\ LookbackShard(a) = s /\ s < NShards /\ a \in Int /\ Lo \in Int /\ s \in Int /\ NShards \in Int
      BY <3>1, <3>5, LookbackShardIs, Geometry DEF Shards
    <3> HIDE DEF a
    <3>7. Answer(a) = IF a < Lo \/ s >= NShards THEN NIL
                      ELSE IF sh.by_ip[a] = NIL THEN NIL ELSE sh.domain[sh.by_ip[a]]
      BY <3>6, Zenon DEF Answer
    <3> HIDE DEF s, sh
    <3> QED
      BY <3>5, <3>6, <3>7 DEF a
  <2> QED
    BY <2>1, <2>2 DEF AddressesKept, LruGuarantee
<1> QED
  BY <1>1, PoolInvAlways, PTL

-----------------------------------------------------------------------------
(***************************************************************************)
(* The shards implement the bounded map of FakeIp.                         *)
(***************************************************************************)

\* What the variables and constants of FakeIp stand for.
Lists == [s \in Shards |-> Walk(shard[s])]
Adrs == [d \in Domain |-> Addr(shard[ShardOf(d)], d)]
Homes == [d \in Domain |-> ShardOf(d)]
Slices == [s \in Shards |-> Slice(s)]

\* The actions of FakeIp in these terms.
LEMMA AbstractIs ==
  /\ Abstract!ipVars = <<Lists, Adrs>>
  /\ Abstract!Init <=> Lists = [s \in Shards |-> <<>>] /\ Adrs = [d \in Domain |-> NIL]
  /\ \A s : Abstract!Free(s) = Slices[s] \ {Adrs[d] : d \in Abstract!ToSet(Lists[s])}
  /\ Abstract!Restart <=> Lists' = [s \in Shards |-> <<>>] /\ Adrs' = [d \in Domain |-> NIL]
<1>1. Abstract!ipVars = <<Lists, Adrs>>
  BY Zenon DEF Abstract!ipVars, Lists, Adrs, Addr
<1>2. Abstract!Init <=> Lists = [s \in Shards |-> <<>>] /\ Adrs = [d \in Domain |-> NIL]
  BY Zenon DEF Abstract!Init, Lists, Adrs, Addr
<1>3. ASSUME NEW s
      PROVE  Abstract!Free(s) = Slices[s] \ {Adrs[d] : d \in Abstract!ToSet(Lists[s])}
  BY Zenon DEF Abstract!Free, Lists, Adrs, Addr, Slices
<1>4. Abstract!Restart <=> Lists' = [s \in Shards |-> <<>>] /\ Adrs' = [d \in Domain |-> NIL]
  BY Zenon DEF Abstract!Restart, Lists, Adrs, Addr
<1> QED
  BY <1>1, <1>2, <1>3, <1>4

\* The same for a domain that is used, ...
LEMMA AbstractUseIs ==
  ASSUME NEW d \in Domain, Adrs[d] # NIL,
         NEW i \in DOMAIN Lists[Homes[d]], Lists[Homes[d]][i] = d,
         Lists' = [Lists EXCEPT ![Homes[d]] = Abstract!ToFront(Lists[Homes[d]], i)], Adrs' = Adrs
  PROVE  Abstract!Use(d)
BY Zenon DEF Abstract!Use, Lists, Adrs, Addr, Homes

\* ... that is new to a shard with room, ...
LEMMA AbstractBindIs ==
  ASSUME NEW d \in Domain, Adrs[d] = NIL, Len(Lists[Homes[d]]) < Cap,
         NEW a \in Abstract!Free(Homes[d]), Adrs' = [Adrs EXCEPT ![d] = a],
         Lists' = [Lists EXCEPT ![Homes[d]] = <<d>> \o Lists[Homes[d]]]
  PROVE  Abstract!Bind(d)
BY Zenon DEF Abstract!Bind, Lists, Adrs, Addr, Homes

\* ... and that is new to a full one.
LEMMA AbstractReplaceIs ==
  ASSUME NEW d \in Domain, Adrs[d] = NIL, Len(Lists[Homes[d]]) = Cap,
         NEW old, old = Abstract!Last(Lists[Homes[d]]),
         NEW a \in Abstract!Free(Homes[d]) \cup {Adrs[old]}, Adrs' = [Adrs EXCEPT ![old] = NIL, ![d] = a],
         Lists' = [Lists EXCEPT ![Homes[d]] = <<d>> \o Abstract!Front(Lists[Homes[d]])]
  PROVE  Abstract!Replace(d)
BY Zenon DEF Abstract!Replace, Lists, Adrs, Addr, Homes

\* A queue whose p-th is now its first, position by position, ...
LEMMA QueueToFront ==
  ASSUME NEW w \in Seq(Domain), NEW x \in Seq(Domain), NEW d \in Domain, x[1] = d,
         NEW p \in 1 .. Len(w), w[p] = d, Len(x) = Len(w),
         \A k \in 2 .. Len(w) : x[k] = IF k <= p THEN w[k - 1] ELSE w[k]
  PROVE  x = Abstract!ToFront(w, p)
<1>0. Len(w) \in Nat /\ Len(x) \in Nat /\ <<d>> \in Seq(Domain) /\ Len(<<d>>) = 1 /\ <<d>>[1] = d
  OBVIOUS
<1> DEFINE b == SubSeq(w, 1, p - 1)  c == SubSeq(w, p + 1, Len(w))  y == <<d>> \o (b \o c)
<1>1. Abstract!ToFront(w, p) = y
  BY DEF Abstract!ToFront, Abstract!RemoveAt
<1>2. b \in Seq(Domain) /\ Len(b) = p - 1 /\ \A k \in 1 .. p - 1 : b[k] = w[k]
  BY <1>0
<1>3. c \in Seq(Domain) /\ Len(c) = Len(w) - p /\ \A k \in 1 .. Len(w) - p : c[k] = w[p + k]
  <2>1. CASE p = Len(w)
    <3>1. c = <<>> /\ Len(<<>>) = 0 /\ <<>> \in Seq(Domain) /\ Len(w) - p = 0
      BY <1>0, <2>1
    <3> HIDE DEF c
    <3> QED
      BY <3>1
  <2>2. CASE p < Len(w)
    <3>1. c \in Seq(Domain)
      BY <1>0, <2>2
    <3>2. Len(c) = Len(w) - p
      BY <1>0, <2>2
    <3>3. ASSUME NEW k \in 1 .. Len(w) - p
          PROVE  c[k] = w[p + k]
      BY <1>0, <2>2
    <3> QED
      BY <3>1, <3>2, <3>3
  <2> QED
    BY <1>0, <2>1, <2>2
<1> HIDE DEF b, c
<1>4. /\ b \o c \in Seq(Domain) /\ Len(b \o c) = Len(w) - 1
      /\ \A k \in 1 .. Len(w) - 1 : (b \o c)[k] = IF k <= p - 1 THEN w[k] ELSE w[k + 1]
  <2>1. b \o c \in Seq(Domain) /\ Len(b \o c) = Len(w) - 1
    <3>1. b \in Seq(Domain) /\ c \in Seq(Domain)
      BY <1>2, <1>3
    <3>2. b \o c \in Seq(Domain) /\ Len(b \o c) = Len(b) + Len(c)
      BY <3>1
    <3>3. Len(b) + Len(c) = Len(w) - 1
      BY <1>0, <1>2, <1>3
    <3> QED
      BY <3>2, <3>3
  <2>2. ASSUME NEW k \in 1 .. Len(w) - 1
        PROVE  (b \o c)[k] = IF k <= p - 1 THEN w[k] ELSE w[k + 1]
    <3>1. CASE k <= p - 1
      BY <1>0, <1>2, <1>3, <3>1
    <3>2. CASE ~(k <= p - 1)
      <4>1. (b \o c)[k] = c[k - (p - 1)]
        BY <1>0, <1>2, <1>3, <3>2
      <4>2. k - (p - 1) \in 1 .. Len(w) - p /\ p + (k - (p - 1)) = k + 1
        BY <1>0, <3>2
      <4> QED
        BY <1>3, <3>2, <4>1, <4>2
    <3> QED
      BY <3>1, <3>2
  <2> QED
    BY <2>1, <2>2
<1> DEFINE e == b \o c
<1> HIDE DEF e
<1>5. e \in Seq(Domain) /\ Len(e) = Len(w) - 1 /\ \A k \in 1 .. Len(w) - 1 : e[k] = IF k <= p - 1 THEN w[k] ELSE w[k + 1]
  BY <1>4 DEF e
<1>6. y = <<d>> \o e
  BY DEF e
<1> HIDE DEF y
<1>7. y \in Seq(Domain) /\ Len(y) = Len(w) /\ y[1] = d /\ \A k \in 2 .. Len(w) : y[k] = e[k - 1]
  BY <1>0, <1>5, <1>6
<1>8. ASSUME NEW k \in 1 .. Len(x)
      PROVE  x[k] = y[k]
  <2>1. CASE k = 1
    BY <1>7, <2>1
  <2>2. CASE k # 1
    <3>1. k \in 2 .. Len(w) /\ k - 1 \in 1 .. Len(w) - 1 /\ (k - 1) + 1 = k /\ (k - 1 <= p - 1 <=> k <= p)
      BY <1>0, <2>2
    <3>2. y[k] = IF k <= p THEN w[k - 1] ELSE w[k]
      BY <1>5, <1>7, <3>1
    <3> QED
      BY <3>1, <3>2
  <2> QED
    BY <2>1, <2>2
<1>9. x = y
  BY <1>7, <1>8, SeqEqual
<1> QED
  BY <1>1, <1>9

\* ... one that has a new first, ...
LEMMA QueueGrown ==
  ASSUME NEW w \in Seq(Domain), NEW x \in Seq(Domain), NEW d \in Domain, x[1] = d,
         Len(x) = Len(w) + 1, \A k \in 1 .. Len(w) : x[k + 1] = w[k]
  PROVE  x = <<d>> \o w
<1>0. Len(w) \in Nat /\ Len(x) \in Nat /\ <<d>> \in Seq(Domain) /\ Len(<<d>>) = 1 /\ <<d>>[1] = d
  OBVIOUS
<1> DEFINE y == <<d>> \o w
<1>1. y \in Seq(Domain) /\ Len(y) = Len(w) + 1 /\ y[1] = d /\ \A k \in 2 .. Len(w) + 1 : y[k] = w[k - 1]
  BY <1>0
<1> HIDE DEF y
<1>2. ASSUME NEW k \in 1 .. Len(x)
      PROVE  x[k] = y[k]
  <2>1. CASE k = 1
    BY <1>1, <2>1
  <2>2. CASE k # 1
    <3>1. k \in 2 .. Len(w) + 1 /\ k - 1 \in 1 .. Len(w) /\ (k - 1) + 1 = k
      BY <1>0, <2>2
    <3>2. x[(k - 1) + 1] = w[k - 1]
      BY <3>1, Zenon
    <3> QED
      BY <1>1, <3>1, <3>2
  <2> QED
    BY <2>1, <2>2
<1>3. x = y
  BY <1>1, <1>2, SeqEqual
<1> QED
  BY <1>3 DEF y

\* ... and one that also lost its last.
LEMMA QueueShifted ==
  ASSUME NEW w \in Seq(Domain), NEW x \in Seq(Domain), NEW d \in Domain, x[1] = d,
         Len(x) > 0, Len(x) = Len(w), \A k \in 1 .. Len(w) - 1 : x[k + 1] = w[k]
  PROVE  x = <<d>> \o Abstract!Front(w)
<1>0. Len(w) \in Nat /\ Len(x) \in Nat \ {0} /\ <<d>> \in Seq(Domain) /\ Len(<<d>>) = 1 /\ <<d>>[1] = d
  OBVIOUS
<1> DEFINE f == SubSeq(w, 1, Len(w) - 1)  y == <<d>> \o f
<1>1. f \in Seq(Domain) /\ Len(f) = Len(w) - 1 /\ \A k \in 1 .. Len(w) - 1 : f[k] = w[k]
  BY <1>0
<1> HIDE DEF f
<1>2. y \in Seq(Domain) /\ Len(y) = Len(w) /\ y[1] = d /\ \A k \in 2 .. Len(w) : y[k] = f[k - 1]
  BY <1>0, <1>1
<1> HIDE DEF y
<1>3. ASSUME NEW k \in 1 .. Len(x)
      PROVE  x[k] = y[k]
  <2>1. CASE k = 1
    BY <1>2, <2>1
  <2>2. CASE k # 1
    <3>1. k \in 2 .. Len(w) /\ k - 1 \in 1 .. Len(w) - 1 /\ (k - 1) + 1 = k
      BY <1>0, <2>2
    <3>2. x[(k - 1) + 1] = w[k - 1]
      BY <3>1, Zenon
    <3> QED
      BY <1>1, <1>2, <3>1, <3>2
  <2> QED
    BY <2>1, <2>2
<1>4. x = y
  BY <1>2, <1>3, SeqEqual
<1> QED
  BY <1>4 DEF y, f, Abstract!Front

\* A step that sets one shard sets one list.
LEMMA OneShard ==
  ASSUME DOMAIN shard = Shards, NEW s \in Shards, NEW t, shard' = [shard EXCEPT ![s] = t]
  PROVE  /\ Lists' = [Lists EXCEPT ![s] = Walk(t)]
         /\ \A d \in Domain : Adrs'[d] = IF ShardOf(d) = s THEN Addr(t, d) ELSE Adrs[d]
         /\ Adrs \in [Domain -> {Adrs[d] : d \in Domain}] /\ Adrs' = [d \in Domain |-> Adrs'[d]]
<1>1. shard'[s] = t /\ \A r \in Shards : r # s => shard'[r] = shard[r]
  OBVIOUS
<1>2. Lists' = [Lists EXCEPT ![s] = Walk(t)]
  BY <1>1 DEF Lists
<1>3. ASSUME NEW d \in Domain
      PROVE  Adrs'[d] = IF ShardOf(d) = s THEN Addr(t, d) ELSE Adrs[d]
  BY <1>1, ShardOfIs DEF Adrs
<1>4. Adrs' = [d \in Domain |-> Adrs'[d]] /\ Adrs = [d \in Domain |-> Adrs[d]]
  BY DEF Adrs
<1> HIDE DEF Adrs
<1> QED
  BY <1>2, <1>3, <1>4

\* What FakeIp sees of a shard.
LEMMA SeenIs ==
  ASSUME PoolInv, NEW d \in Domain
  PROVE  LET s == ShardOf(d)
             sh == shard[s]
         IN  /\ Homes[d] = s /\ s \in Shards /\ Lists[s] = Walk(sh) /\ Slices[s] = Slice(s)
             /\ Listed(sh, s, Walk(sh), Len(Walk(sh))) /\ Len(Walk(sh)) \in 0 .. Cap
             /\ Adrs[d] = Addr(sh, d) /\ (Adrs[d] # NIL <=> sh.by_domain[d] # NIL)
             /\ \A k \in 1 .. Len(Walk(sh)) : Adrs[Walk(sh)[k]] = Addr(sh, Walk(sh)[k])
<1> DEFINE s == ShardOf(d)  sh == shard[s]  w == Walk(sh)
<1>1. s \in Shards /\ Good(sh, s)
  BY ShardOfIs DEF PoolInv
<1>2. Listed(sh, s, w, Len(w)) /\ Len(w) \in 0 .. Cap
  BY <1>1, GoodList
<1>3. Homes[d] = s /\ Lists[s] = w /\ Slices[s] = Slice(s) /\ Adrs[d] = Addr(sh, d)
  BY <1>1 DEF Homes, Lists, Slices, Adrs
<1> HIDE DEF w
<1>4. \A k \in 1 .. Len(w) : Adrs[w[k]] = Addr(sh, w[k])
  <2>1. \A k \in 1 .. Len(w) : w[k] \in Domain /\ ShardOf(w[k]) = s
    BY <1>2 DEF Listed
  <2> QED
    BY <2>1 DEF Adrs
<1>5. Adrs[d] # NIL <=> sh.by_domain[d] # NIL
  BY <1>2, <1>3 DEF Listed
<1> QED
  BY <1>1, <1>2, <1>3, <1>4, <1>5 DEF w

\* promote is a use.
LEMMA PromoteRefines ==
  ASSUME PoolInv, NEW d \in Domain, shard[ShardOf(d)].by_domain[d] # NIL,
         shard' = [shard EXCEPT ![ShardOf(d)] = Promote(shard[ShardOf(d)], shard[ShardOf(d)].by_domain[d])]
  PROVE  Abstract!Next
<1> DEFINE s == ShardOf(d)  sh == shard[s]  t == Promote(sh, sh.by_domain[d])  w == Walk(sh)  x == Walk(t)
<1>1. /\ Homes[d] = s /\ s \in Shards /\ Lists[s] = w
      /\ Listed(sh, s, w, Len(w)) /\ Len(w) \in 0 .. Cap
      /\ Adrs[d] # NIL
  BY SeenIs
<1>2. Good(sh, s) /\ DOMAIN shard = Shards
  BY <1>1 DEF PoolInv
<1>3. shard' = [shard EXCEPT ![s] = t]
  OBVIOUS
<1>4. /\ Lists' = [Lists EXCEPT ![s] = x]
      /\ \A e \in Domain : Adrs'[e] = IF ShardOf(e) = s THEN Addr(t, e) ELSE Adrs[e]
      /\ Adrs' = [e \in Domain |-> Adrs'[e]]
  <2> HIDE DEF t, s
  <2> QED
    BY <1>1, <1>2, <1>3, OneShard
<1>5. /\ Good(t, s) /\ \A e \in Domain : Addr(t, e) = Addr(sh, e)
      /\ Len(x) = Len(w)
      /\ \E p \in 1 .. Len(w) : /\ w[p] = d /\ x[1] = d
                                /\ \A k \in 2 .. Len(w) : x[k] = IF k <= p THEN w[k - 1] ELSE w[k]
  <2>1. s \in Shards /\ Good(sh, s) /\ sh.by_domain[d] # NIL
    BY <1>1, <1>2
  <2>2. Len(w) <= Cap
    BY <1>1
  <2> HIDE DEF s, sh
  <2> QED
    BY <2>1, UseShard
<1> HIDE DEF t, w, x
<1>6. PICK p \in 1 .. Len(w) : /\ w[p] = d /\ x[1] = d
                               /\ \A k \in 2 .. Len(w) : x[k] = IF k <= p THEN w[k - 1] ELSE w[k]
  BY <1>5
<1>7. w \in Seq(Domain) /\ x \in Seq(Domain) /\ Len(x) > 0
  <2>1. Listed(t, s, x, Len(x))
    BY <1>1, <1>5, GoodList DEF x
  <2>2. w \in Seq(Domain) /\ x \in Seq(Domain)
    BY <1>1, <2>1 DEF Listed
  <2> QED
    BY <1>5, <1>6, <2>2
<1>8. x = Abstract!ToFront(w, p)
  BY <1>5, <1>6, <1>7, QueueToFront
<1>9. Adrs' = Adrs
  <2>1. \A e \in Domain : Adrs'[e] = Adrs[e]
    <3>1. \A e \in Domain : ShardOf(e) = s => Adrs[e] = Addr(sh, e)
      BY DEF Adrs
    <3> HIDE DEF sh, s
    <3> QED
      BY <1>4, <1>5, <3>1
  <2>2. Adrs = [e \in Domain |-> Adrs[e]]
    BY DEF Adrs
  <2> QED
    BY <1>4, <2>1, <2>2
<1>10. p \in DOMAIN Lists[Homes[d]] /\ Lists[Homes[d]][p] = d
  BY <1>1, <1>6, <1>7
<1>11. Lists' = [Lists EXCEPT ![Homes[d]] = Abstract!ToFront(Lists[Homes[d]], p)]
  BY <1>1, <1>4, <1>8
<1> HIDE DEF s, sh
<1>12. Abstract!Use(d)
  BY <1>1, <1>9, <1>10, <1>11, AbstractUseIs
<1> QED
  BY <1>12, Zenon DEF Abstract!Next

\* Bind is a Bind with room, and a Replace without.
LEMMA BindRefines ==
  ASSUME PoolInv, NEW d \in Domain, shard[ShardOf(d)].by_domain[d] = NIL,
         shard' = [shard EXCEPT ![ShardOf(d)] = Bind(shard[ShardOf(d)], ShardOf(d), d)]
  PROVE  Abstract!Next
<1> DEFINE s == ShardOf(d)  sh == shard[s]  t == Bind(sh, s, d)  w == Walk(sh)  x == Walk(t)
<1>1. /\ Homes[d] = s /\ s \in Shards /\ Lists[s] = w /\ Slices[s] = Slice(s)
      /\ Listed(sh, s, w, Len(w)) /\ Len(w) \in 0 .. Cap
      /\ Adrs[d] = NIL
      /\ \A k \in 1 .. Len(w) : Adrs[w[k]] = Addr(sh, w[k])
  BY SeenIs
<1>2. Good(sh, s) /\ DOMAIN shard = Shards /\ Cap \in Nat \ {0}
  BY <1>1, Geometry DEF PoolInv
<1>3. shard' = [shard EXCEPT ![s] = t]
  OBVIOUS
<1>4. /\ Lists' = [Lists EXCEPT ![s] = x]
      /\ \A e \in Domain : Adrs'[e] = IF ShardOf(e) = s THEN Addr(t, e) ELSE Adrs[e]
      /\ Adrs' = [e \in Domain |-> Adrs'[e]] /\ Adrs = [e \in Domain |-> Adrs[e]]
  <2>1. Adrs = [e \in Domain |-> Adrs[e]]
    BY DEF Adrs
  <2> HIDE DEF t, s
  <2>2. /\ Lists' = [Lists EXCEPT ![s] = Walk(t)]
        /\ \A e \in Domain : Adrs'[e] = IF ShardOf(e) = s THEN Addr(t, e) ELSE Adrs[e]
        /\ Adrs' = [e \in Domain |-> Adrs'[e]]
    <3>1. DOMAIN shard = Shards /\ s \in Shards
      BY <1>1, <1>2
    <3> QED
      BY <1>3, <3>1, OneShard
  <2> QED
    BY <2>1, <2>2
<1>5. \A e \in Domain : ShardOf(e) = s => Adrs[e] = Addr(sh, e)
  BY DEF Adrs
<1>6. /\ Good(t, s) /\ x[1] = d
      /\ \E a \in Slice(s) :
           /\ Len(w) < Cap => /\ Len(x) = Len(w) + 1
                              /\ \A k \in 1 .. Len(w) : x[k + 1] = w[k] /\ Addr(sh, w[k]) # a
                              /\ \A f \in Domain : Addr(t, f) = IF f = d THEN a ELSE Addr(sh, f)
           /\ Len(w) = Cap => /\ Len(x) = Cap
                              /\ \A k \in 1 .. Cap - 1 : x[k + 1] = w[k] /\ Addr(sh, w[k]) # a
                              /\ \A f \in Domain : Addr(t, f) = IF f = d THEN a
                                                                ELSE IF f = w[Cap] THEN NIL ELSE Addr(sh, f)
  <2>1. s \in Shards /\ Good(sh, s) /\ sh.by_domain[d] = NIL /\ ShardOf(d) = s
    BY <1>1, <1>2
  <2> HIDE DEF s, sh
  <2> QED
    BY <2>1, BindShard
<1>7. ShardOf(d) = s
  OBVIOUS
<1> HIDE DEF s, sh, t, w, x
<1>8. PICK a \in Slice(s) :
           /\ Len(w) < Cap => /\ Len(x) = Len(w) + 1
                              /\ \A k \in 1 .. Len(w) : x[k + 1] = w[k] /\ Addr(sh, w[k]) # a
                              /\ \A f \in Domain : Addr(t, f) = IF f = d THEN a ELSE Addr(sh, f)
           /\ Len(w) = Cap => /\ Len(x) = Cap
                              /\ \A k \in 1 .. Cap - 1 : x[k + 1] = w[k] /\ Addr(sh, w[k]) # a
                              /\ \A f \in Domain : Addr(t, f) = IF f = d THEN a
                                                                ELSE IF f = w[Cap] THEN NIL ELSE Addr(sh, f)
  BY <1>6
<1>9. w \in Seq(Domain) /\ x \in Seq(Domain)
  <2>1. Listed(t, s, x, Len(x))
    BY <1>1, <1>6, GoodList DEF x
  <2> QED
    BY <1>1, <2>1 DEF Listed
<1>10. Abstract!Free(s) = Slice(s) \ {Adrs[w[k]] : k \in 1 .. Len(w)}
  <2>1. Abstract!Free(s) = Slices[s] \ {Adrs[e] : e \in Abstract!ToSet(Lists[s])}
    BY AbstractIs
  <2>2. Abstract!ToSet(w) = {w[k] : k \in 1 .. Len(w)}
    BY <1>9 DEF Abstract!ToSet
  <2> QED
    BY <1>1, <2>1, <2>2
<1>11. CASE Len(w) < Cap
  <2>1. /\ Len(x) = Len(w) + 1
        /\ \A k \in 1 .. Len(w) : x[k + 1] = w[k] /\ Addr(sh, w[k]) # a
        /\ \A f \in Domain : Addr(t, f) = IF f = d THEN a ELSE Addr(sh, f)
    BY <1>8, <1>11
  <2>2. x = <<d>> \o w
    BY <1>6, <1>9, <2>1, QueueGrown
  <2>3. a \in Abstract!Free(s)
    BY <1>1, <1>10, <2>1
  <2>4. Adrs' = [Adrs EXCEPT ![d] = a]
    <3>1. \A e \in Domain : Adrs'[e] = IF e = d THEN a ELSE Adrs[e]
      BY <1>4, <1>5, <1>7, <2>1
    <3>2. Adrs' = [e \in Domain |-> IF e = d THEN a ELSE Adrs[e]]
      BY <1>4, <3>1
    <3> QED
      BY <1>4, <3>2
  <2>5. Lists' = [Lists EXCEPT ![Homes[d]] = <<d>> \o Lists[Homes[d]]]
    BY <1>1, <1>4, <2>2
  <2>6. Abstract!Bind(d)
    BY <1>1, <1>11, <2>3, <2>4, <2>5, AbstractBindIs
  <2> QED
    BY <2>6, Zenon DEF Abstract!Next
<1>12. CASE Len(w) = Cap
  <2> DEFINE old == w[Cap]
  <2>1. /\ Len(x) = Cap
        /\ \A k \in 1 .. Cap - 1 : x[k + 1] = w[k] /\ Addr(sh, w[k]) # a
        /\ \A f \in Domain : Addr(t, f) = IF f = d THEN a ELSE IF f = old THEN NIL ELSE Addr(sh, f)
    BY <1>8, <1>12
  <2>2. x = <<d>> \o Abstract!Front(w)
    BY <1>2, <1>6, <1>9, <1>12, <2>1, QueueShifted
  <2>3. old \in Domain /\ ShardOf(old) = s /\ Cap \in 1 .. Len(w)
    BY <1>1, <1>2, <1>12 DEF Listed
  <2>4. a \in Abstract!Free(s) \cup {Adrs[old]}
    <3>1. \A k \in 1 .. Len(w) : k \in 1 .. Cap - 1 \/ k = Cap
      BY <1>2, <1>12
    <3>2. ASSUME a # Adrs[old], NEW k \in 1 .. Len(w)
          PROVE  a # Adrs[w[k]]
      BY <1>1, <2>1, <3>1, <3>2
    <3> QED
      BY <1>10, <3>2
  <2> HIDE DEF old
  <2>5. Adrs' = [Adrs EXCEPT ![old] = NIL, ![d] = a]
    <3>1. \A e \in Domain : Adrs'[e] = IF e = d THEN a ELSE IF e = old THEN NIL ELSE Adrs[e]
      BY <1>4, <1>5, <1>7, <2>1, <2>3
    <3>2. Adrs' = [e \in Domain |-> IF e = d THEN a ELSE IF e = old THEN NIL ELSE Adrs[e]]
      BY <1>4, <3>1
    <3> QED
      BY <1>4, <2>3, <3>2
  <2>6. old = Abstract!Last(Lists[Homes[d]])
    BY <1>1, <1>12 DEF old, Abstract!Last
  <2>7. Lists' = [Lists EXCEPT ![Homes[d]] = <<d>> \o Abstract!Front(Lists[Homes[d]])]
    BY <1>1, <1>4, <2>2
  <2>8. Abstract!Replace(d)
    BY <1>1, <1>12, <2>4, <2>5, <2>6, <2>7, AbstractReplaceIs
  <2> QED
    BY <2>8, Zenon DEF Abstract!Next
<1>13. Len(w) < Cap \/ Len(w) = Cap
  BY <1>1, <1>2
<1> QED
  BY <1>11, <1>12, <1>13

\* Every step is a step of FakeIp or changes nothing it has.
LEMMA StepRefines == PoolInv /\ [PoolNext]_poolVars => [Abstract!Next]_(Abstract!ipVars)
<1> SUFFICES ASSUME PoolInv, [PoolNext]_poolVars
             PROVE  [Abstract!Next]_(Abstract!ipVars)
  OBVIOUS
<1>1. ASSUME NEW d \in Domain, Intern(d)
      PROVE  Abstract!Next
  <2> DEFINE s == ShardOf(d)  sh == shard[s]  t == ShardIntern(sh, s, d)
  <2>1. /\ shard' = [shard EXCEPT ![s] = t]
        /\ sh.by_domain[d] # NIL => t = Promote(sh, sh.by_domain[d])
        /\ sh.by_domain[d] = NIL => t = Bind(sh, s, d)
    BY <1>1, InternIs
  <2> HIDE DEF t
  <2>2. CASE sh.by_domain[d] # NIL
    BY <2>1, <2>2, PromoteRefines
  <2>3. CASE sh.by_domain[d] = NIL
    BY <2>1, <2>3, BindRefines
  <2> QED
    BY <2>2, <2>3
<1>2. ASSUME NEW a \in Network .. Bcast, Lookback(a)
      PROVE  Abstract!Next
  <2>1. PICK d \in Domain :
          LET s == ShardOf(d)
              sh == shard[s]
          IN  /\ s \in Shards /\ Good(sh, s) /\ sh.by_domain[d] # NIL
              /\ shard' = [shard EXCEPT ![s] = Promote(sh, sh.by_domain[d])]
              /\ UNCHANGED <<given, restarts>> /\ Uses(d)
    BY <1>2, LookbackIs
  <2>2. /\ shard[ShardOf(d)].by_domain[d] # NIL
        /\ shard' = [shard EXCEPT ![ShardOf(d)] = Promote(shard[ShardOf(d)], shard[ShardOf(d)].by_domain[d])]
    BY <2>1, Zenon
  <2> QED
    BY <2>2, PromoteRefines
<1>3. ASSUME Restart
      PROVE  Abstract!Next
  <2>1. \A s \in Shards : shard'[s] = EmptyShard(s)
    BY <1>3 DEF Restart
  <2>2. Lists' = [s \in Shards |-> <<>>]
    BY <2>1, EmptyWalk DEF Lists
  <2>3. Adrs' = [d \in Domain |-> NIL]
    BY <2>1, ShardOfIs, EmptyGood DEF Adrs
  <2>4. Abstract!Restart
    BY <2>2, <2>3, AbstractIs
  <2> QED
    BY <2>4, Zenon DEF Abstract!Next
<1>4. ASSUME UNCHANGED poolVars
      PROVE  UNCHANGED Abstract!ipVars
  <2>1. shard' = shard
    BY <1>4 DEF poolVars
  <2> QED
    BY <2>1 DEF Abstract!ipVars, Walk, AddressIn
<1> QED
  BY <1>1, <1>2, <1>3, <1>4 DEF PoolNext

\* Initially FakeIp has nothing.
LEMMA InitRefines == PoolInit => Abstract!Init
<1> SUFFICES ASSUME PoolInit
             PROVE  Abstract!Init
  OBVIOUS
<1>1. \A s \in Shards : shard[s] = EmptyShard(s)
  BY DEF PoolInit
<1>2. Lists = [s \in Shards |-> <<>>]
  BY <1>1, EmptyWalk DEF Lists
<1>3. Adrs = [d \in Domain |-> NIL]
  BY <1>1, ShardOfIs, EmptyGood DEF Adrs
<1> QED
  BY <1>2, <1>3, AbstractIs

\* The slab, the links and the two maps implement a bounded map from domains to
\* addresses in order of use.
THEOREM PoolImplementsMap == PoolSpec => Implements /\ Abstract!Spec
<1>1. PoolInv /\ [PoolNext]_poolVars => [shard' # shard => [Abstract!Next]_(Abstract!ipVars)]_poolVars
  BY StepRefines
<1>2. PoolSpec => Implements
  BY <1>1, InitRefines, PoolInvAlways, PTL DEF PoolSpec, Implements
<1>3. PoolSpec => Abstract!Spec
  BY StepRefines, InitRefines, PoolInvAlways, PTL DEF PoolSpec, Abstract!Spec
<1> QED
  BY <1>2, <1>3
=============================================================================
