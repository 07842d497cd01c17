----------------------------- MODULE SumsProofs -----------------------------
(***************************************************************************)
(* Theorems whose proofs count: a sum is the cardinality of a set that has *)
(* an element for every unit of every value.                               *)
(*                                                                         *)
(* ConnTable, for any connections, ports and bytes: the index of local     *)
(* ports names the owner of a port or nobody, a connection that is over    *)
(* leaves nothing behind, its bytes were taken to the last one, and every  *)
(* byte is counted once and shown at most once.  Three invariants: of the  *)
(* life of connections and the index; of records and drainers; and,        *)
(* resting on both, of the sums.                                           *)
(*                                                                         *)
(* Aggregate: what the rows hold, with what left with those that are gone, *)
(* is what was folded.                                                     *)
(*                                                                         *)
(* CfMetrics: what is folded in its turn counts no byte twice.             *)
(*                                                                         *)
(* QuicSniff: the buffer's account is right, and a name comes from a hello *)
(* without holes; the pieces' cells are as many as the places they fill.   *)
(***************************************************************************)
EXTENDS Aggregate, ConnTable, CfMetrics, QuicSniff, Integers, FiniteSetTheorems, WellFoundedInduction, TLAPS

-----------------------------------------------------------------------------
(* Sums.  A function's values are added up as the cardinality of the set   *)
(* that has a pair for each unit of each value, none of which exceeds n.   *)

Units(n, f) == {b \in (DOMAIN f) \X (1 .. n) : b[2] <= f[b[1]]}
SumTo(n, f) == Cardinality(Units(n, f))

LEMMA SumIsNumber ==
  ASSUME NEW n \in Nat, NEW S, IsFiniteSet(S), NEW f \in [S -> 0 .. n]
  PROVE  IsFiniteSet(Units(n, f)) /\ SumTo(n, f) \in Nat
<1>1. IsFiniteSet(1 .. n)
  BY FS_Interval
<1>2. IsFiniteSet(S \X (1 .. n))
  BY <1>1, FS_Product
<1>3. Units(n, f) \in SUBSET (S \X (1 .. n))
  BY DEF Units
<1>4. IsFiniteSet(Units(n, f))
  BY <1>2, <1>3, FS_Subset
<1> QED
  BY <1>4, FS_CardinalityType DEF SumTo

LEMMA SumGrows ==
  ASSUME NEW n \in Nat, NEW S, IsFiniteSet(S), NEW f \in [S -> 0 .. n], NEW g \in [S -> 0 .. n],
         \A z \in S : f[z] <= g[z]
  PROVE  SumTo(n, f) <= SumTo(n, g)
<1>1. Units(n, f) \in SUBSET Units(n, g)
  <2>1. ASSUME NEW b \in Units(n, f)
        PROVE  b \in Units(n, g)
    <3>1. b \in S \X (1 .. n) /\ b[2] <= f[b[1]]
      BY DEF Units
    <3>2. b[1] \in S /\ b[2] \in Nat /\ f[b[1]] \in Nat /\ g[b[1]] \in Nat /\ f[b[1]] <= g[b[1]]
      BY <3>1
    <3>3. b[2] <= g[b[1]]
      BY <3>1, <3>2
    <3> QED
      BY <3>1, <3>3 DEF Units
  <2> QED
    BY <2>1
<1> QED
  BY <1>1, SumIsNumber, FS_Subset DEF SumTo

\* The units of one value.
LEMMA ColumnCounts ==
  ASSUME NEW x, NEW n \in Nat
  PROVE  IsFiniteSet({x} \X (1 .. n)) /\ Cardinality({x} \X (1 .. n)) = n
<1>1. IsFiniteSet({x}) /\ Cardinality({x}) = 1
  BY FS_Singleton
<1>2. IsFiniteSet(1 .. n) /\ Cardinality(1 .. n) = n
  BY FS_Interval
<1>3. /\ IsFiniteSet({x} \X (1 .. n))
      /\ Cardinality({x} \X (1 .. n)) = Cardinality({x}) * Cardinality(1 .. n)
  BY <1>1, <1>2, FS_Product
<1>4. 1 * n = n
  OBVIOUS
<1> QED
  BY <1>1, <1>2, <1>3, <1>4

\* What the others hold, and what one holds.
LEMMA SumSplits ==
  ASSUME NEW n \in Nat, NEW S, IsFiniteSet(S), NEW f \in [S -> 0 .. n], NEW x \in S
  PROVE  LET rest == {b \in Units(n, f) : b[1] # x}
         IN  IsFiniteSet(rest) /\ Cardinality(rest) \in Nat /\ SumTo(n, f) = Cardinality(rest) + f[x]
<1> DEFINE rest == {b \in Units(n, f) : b[1] # x}
           own == {x} \X (1 .. f[x])
<1>1. f[x] \in Nat /\ f[x] <= n
  OBVIOUS
<1>2. IsFiniteSet(Units(n, f)) /\ rest \in SUBSET Units(n, f)
  BY SumIsNumber
<1>3. IsFiniteSet(rest)
  BY <1>2, FS_Subset
<1>4. IsFiniteSet(own) /\ Cardinality(own) = f[x]
  BY <1>1, ColumnCounts
<1>5. Units(n, f) = rest \cup own
  <2>1. ASSUME NEW b \in Units(n, f), b[1] = x
        PROVE  b \in own
    <3>1. b \in S \X (1 .. n) /\ b[2] <= f[b[1]]
      BY DEF Units
    <3>2. b = <<b[1], b[2]>> /\ b[2] \in 1 .. f[x]
      BY <1>1, <2>1, <3>1
    <3> QED
      BY <2>1, <3>2
  <2>2. ASSUME NEW k \in 1 .. f[x]
        PROVE  <<x, k>> \in Units(n, f)
    <3>1. k \in 1 .. n /\ k <= f[x]
      BY <1>1
    <3> QED
      BY <3>1 DEF Units
  <2> QED
    BY <2>1, <2>2
<1>6. rest \cap own = {}
  OBVIOUS
<1> HIDE DEF rest, own
<1>7. Cardinality(Units(n, f)) = Cardinality(rest) + Cardinality(own) - Cardinality(rest \cap own)
  BY <1>3, <1>4, <1>5, FS_Union
<1>8. Cardinality(rest \cap own) = 0 /\ Cardinality(rest) \in Nat
  BY <1>3, <1>6, FS_EmptySet, FS_CardinalityType
<1>9. SumTo(n, f) = Cardinality(rest) + f[x]
  BY <1>1, <1>4, <1>7, <1>8 DEF SumTo
<1> QED
  BY <1>3, <1>8, <1>9 DEF rest

\* A sum changes by what its only changed part changes.
LEMMA SumChanges ==
  ASSUME NEW n \in Nat, NEW S, IsFiniteSet(S), NEW f \in [S -> 0 .. n], NEW g \in [S -> 0 .. n], NEW x \in S,
         \A z \in S : z # x => g[z] = f[z]
  PROVE  SumTo(n, g) + f[x] = SumTo(n, f) + g[x]
<1> DEFINE restF == {b \in Units(n, f) : b[1] # x}
           restG == {b \in Units(n, g) : b[1] # x}
<1>1. restF = restG
  BY DEF Units
<1>2. Cardinality(restF) \in Nat /\ SumTo(n, f) = Cardinality(restF) + f[x]
  BY SumSplits
<1>3. Cardinality(restG) \in Nat /\ SumTo(n, g) = Cardinality(restG) + g[x]
  BY SumSplits
<1>4. f[x] \in Nat /\ g[x] \in Nat
  OBVIOUS
<1> HIDE DEF restF, restG
<1> QED
  BY <1>1, <1>2, <1>3, <1>4

LEMMA PartOfSum ==
  ASSUME NEW n \in Nat, NEW S, IsFiniteSet(S), NEW f \in [S -> 0 .. n], NEW x \in S
  PROVE  f[x] <= SumTo(n, f)
<1>1. PICK k \in Nat : SumTo(n, f) = k + f[x]
  BY SumSplits
<1>2. f[x] \in Nat
  OBVIOUS
<1> QED
  BY <1>1, <1>2

LEMMA SumOfNothing ==
  ASSUME NEW n \in Nat, NEW S, NEW f \in [S -> 0 .. n], \A z \in S : f[z] = 0
  PROVE  SumTo(n, f) = 0
<1>1. Units(n, f) = {}
  BY DEF Units
<1> QED
  BY <1>1, FS_EmptySet DEF SumTo

\* The sum of two functions.
LEMMA SumAdds ==
  ASSUME NEW n \in Nat, NEW S, IsFiniteSet(S), NEW f \in [S -> 0 .. n], NEW g \in [S -> 0 .. n],
         NEW h \in [S -> 0 .. n], \A z \in S : h[z] = f[z] + g[z]
  PROVE  SumTo(n, h) = SumTo(n, f) + SumTo(n, g)
<1> DEFINE above == {b \in Units(n, h) : b[2] > f[b[1]]}
           shift == [b \in Units(n, g) |-> <<b[1], b[2] + f[b[1]]>>]
<1>1. \A z \in S : f[z] \in Nat /\ g[z] \in Nat /\ h[z] \in Nat /\ h[z] <= n /\ f[z] <= h[z]
  OBVIOUS
<1>2. ASSUME NEW b \in Units(n, g)
      PROVE  b[1] \in S /\ b[2] \in Nat /\ b[2] >= 1 /\ b[2] <= g[b[1]] /\ b = <<b[1], b[2]>>
  BY DEF Units
<1>3. shift \in [Units(n, g) -> above]
  <2>1. ASSUME NEW b \in Units(n, g)
        PROVE  <<b[1], b[2] + f[b[1]]>> \in above
    <3>1. /\ b[2] + f[b[1]] \in 1 .. n /\ b[2] + f[b[1]] <= h[b[1]] /\ b[2] + f[b[1]] > f[b[1]]
          /\ b[1] \in S
      BY <1>1, <1>2
    <3> QED
      BY <3>1 DEF Units
  <2> QED
    BY <2>1
<1>4. ASSUME NEW a \in Units(n, g), NEW b \in Units(n, g), shift[a] = shift[b]
      PROVE  a = b
  <2>1. a[1] = b[1] /\ a[2] + f[a[1]] = b[2] + f[b[1]]
    BY <1>4
  <2>2. a[2] = b[2]
    <3>1. f[a[1]] \in Nat /\ f[b[1]] = f[a[1]] /\ a[2] \in Nat /\ b[2] \in Nat
      BY <1>1, <1>2, <2>1
    <3> HIDE DEF shift
    <3> QED
      BY <2>1, <3>1
  <2> QED
    BY <1>2, <2>1, <2>2
<1>5. ASSUME NEW t \in above
      PROVE  \E s \in Units(n, g) : shift[s] = t
  <2>1. /\ t[1] \in S /\ t[2] \in Nat /\ t[2] <= h[t[1]] /\ t[2] > f[t[1]] /\ t = <<t[1], t[2]>>
    BY DEF Units
  <2> DEFINE s == <<t[1], t[2] - f[t[1]]>>
  <2>2. t[2] - f[t[1]] \in 1 .. n /\ t[2] - f[t[1]] <= g[t[1]] /\ (t[2] - f[t[1]]) + f[t[1]] = t[2]
    BY <1>1, <2>1
  <2>3. s \in Units(n, g) /\ s[1] = t[1] /\ s[2] = t[2] - f[t[1]]
    BY <2>1, <2>2 DEF Units
  <2>4. shift[s] = <<t[1], t[2]>>
    BY <2>2, <2>3
  <2> QED
    BY <2>1, <2>3, <2>4
<1>6. IsFiniteSet(Units(n, f)) /\ IsFiniteSet(Units(n, g)) /\ IsFiniteSet(Units(n, h))
  BY SumIsNumber
<1>7. ExistsBijection(Units(n, g), above)
  <2> HIDE DEF shift, above
  <2>1. /\ shift \in [Units(n, g) -> above]
        /\ \A a, b \in Units(n, g) : shift[a] = shift[b] => a = b
        /\ \A t \in above : \E s \in Units(n, g) : shift[s] = t
    BY <1>3, <1>4, <1>5
  <2>2. shift \in Injection(Units(n, g), above) /\ shift \in Surjection(Units(n, g), above)
    BY <2>1 DEF Injection, IsInjective, Surjection
  <2> QED
    BY <2>2 DEF ExistsBijection, Bijection
<1>8. IsFiniteSet(above) /\ Cardinality(above) = Cardinality(Units(n, g))
  BY <1>6, <1>7, FS_Bijection
<1>9. Units(n, h) = Units(n, f) \cup above
  <2>1. ASSUME NEW b \in Units(n, f)
        PROVE  b \in Units(n, h)
    <3>1. b \in S \X (1 .. n) /\ b[2] <= f[b[1]]
      BY DEF Units
    <3>2. b[2] <= h[b[1]]
      BY <1>1, <3>1
    <3> QED
      BY <3>1, <3>2 DEF Units
  <2>2. ASSUME NEW b \in Units(n, h), b \notin above
        PROVE  b \in Units(n, f)
    <3>1. b \in S \X (1 .. n) /\ ~(b[2] > f[b[1]])
      BY <2>2 DEF Units
    <3>2. b[2] <= f[b[1]]
      BY <1>1, <3>1
    <3> QED
      BY <3>1, <3>2 DEF Units
  <2> QED
    BY <2>1, <2>2
<1>10. Units(n, f) \cap above = {}
  <2>1. ASSUME NEW b \in Units(n, f), b \in above
        PROVE  FALSE
    <3>1. b \in S \X (1 .. n) /\ b[2] <= f[b[1]] /\ b[2] > f[b[1]]
      BY <2>1 DEF Units
    <3> QED
      BY <1>1, <3>1
  <2> QED
    BY <2>1
<1> HIDE DEF above
<1>11. Cardinality(Units(n, f) \cap above) = 0
  BY <1>10, FS_EmptySet
<1>12. /\ Cardinality(Units(n, h)) =
             Cardinality(Units(n, f)) + Cardinality(above) - Cardinality(Units(n, f) \cap above)
       /\ Cardinality(Units(n, f)) \in Nat /\ Cardinality(Units(n, g)) \in Nat
  BY <1>6, <1>8, <1>9, FS_Union, FS_CardinalityType
<1> QED
  BY <1>8, <1>11, <1>12 DEF SumTo
-----------------------------------------------------------------------------
(***************************************************************************)
(* ConnTable                                                               *)
(***************************************************************************)
Stages == {"away", "listed", "dial", "opened", "relay", "unregister", "unindex", "drain", "gone"}
Lives == [pc : Stages, port : SrcPorts \cup {Nobody}]
Open(c) == life[c].pc \in {"opened", "relay"}

IndexTypes ==
  /\ life \in [Served -> Lives]
  /\ srcIndex \in [SrcPorts -> Served \cup {Nobody}]
  /\ registry \subseteq Served

\* An open socket has a port, and no other open socket has it.
PortsDistinct ==
  \A c \in Served : Open(c) =>
    /\ life[c].port \in SrcPorts
    /\ \A x \in Served : Open(x) /\ x # c => life[x].port # life[c].port

\* An entry of the index was put there by a connection that has not removed it.
EntriesOwned ==
  \A c \in Served, p \in SrcPorts : srcIndex[p] = c =>
    life[c].port = p /\ life[c].pc \in {"relay", "unregister", "unindex"}

SendersOwned == \A c \in registry : life[c].pc \in {"dial", "opened", "relay", "unregister"}

IndexInv == IndexTypes /\ PortsDistinct /\ EntriesOwned /\ SendersOwned /\ PortNamesOwner

\* A step to another stage that opens no socket, with the port as it was.
LEMMA StageChanges ==
  ASSUME IndexTypes, NEW c \in Served, NEW pc \in Stages, Goes(c, pc)
  PROVE  /\ life' \in [Served -> Lives]
         /\ life'[c].pc = pc /\ life'[c].port = life[c].port
         /\ \A x \in Served : x # c => life'[x] = life[x]
BY DEF IndexTypes, Goes, Lives

\* Leaving the open stages for the last ones keeps the entry.
LEMMA SocketClosed ==
  ASSUME IndexInv, NEW c \in Served, InStage(c, "dial") \/ InStage(c, "relay"), Goes(c, "unregister"),
         UNCHANGED <<srcIndex, registry>>
  PROVE  IndexInv'
<1>1. /\ life' \in [Served -> Lives]
      /\ life'[c].pc = "unregister" /\ life'[c].port = life[c].port
      /\ \A x \in Served : x # c => life'[x] = life[x]
  BY StageChanges DEF IndexInv, Stages
<1>2. IndexTypes'
  BY <1>1 DEF IndexInv, IndexTypes
<1>3. PortsDistinct'
  BY <1>1 DEF IndexInv, PortsDistinct, Open
<1>4. EntriesOwned'
  BY <1>1 DEF IndexInv, EntriesOwned, InStage
<1>5. SendersOwned'
  BY <1>1 DEF IndexInv, IndexTypes, SendersOwned
<1>6. PortNamesOwner'
  BY <1>1 DEF IndexInv, PortNamesOwner, InStage
<1>7. QED
  BY <1>2, <1>3, <1>4, <1>5, <1>6 DEF IndexInv

\* Every step of a connection's task, and every closing, keeps the index truthful.
LEMMA IndexStep ==
  ASSUME IndexInv, [TableNext]_tableVars
  PROVE  IndexInv'
<1> USE TableConstants
<1>1. ASSUME UNCHANGED <<life, srcIndex, registry>>
      PROVE  IndexInv'
  BY <1>1 DEF IndexInv, IndexTypes, PortsDistinct, Open, EntriesOwned, SendersOwned, PortNamesOwner, InStage
<1>2. ASSUME NEW c \in Served, Lists(c)
      PROVE  IndexInv'
  <2>1. /\ life' \in [Served -> Lives]
        /\ life'[c].pc = "listed" /\ life'[c].port = life[c].port
        /\ \A x \in Served : x # c => life'[x] = life[x]
    BY <1>2, StageChanges DEF Lists, IndexInv, Stages
  <2>2. life[c].pc = "away" /\ UNCHANGED <<srcIndex, registry>>
    BY <1>2 DEF Lists, InStage
  <2>3. IndexTypes' /\ PortsDistinct'
    BY <2>1, <2>2 DEF IndexInv, IndexTypes, PortsDistinct, Open
  <2>4. EntriesOwned' /\ SendersOwned' /\ PortNamesOwner'
    BY <2>1, <2>2 DEF IndexInv, IndexTypes, EntriesOwned, SendersOwned, PortNamesOwner, InStage
  <2>5. QED
    BY <2>3, <2>4 DEF IndexInv
<1>3. ASSUME NEW c \in Served, Registers(c)
      PROVE  IndexInv'
  <2>1. /\ life' \in [Served -> Lives]
        /\ life'[c].pc = "dial" /\ life'[c].port = life[c].port
        /\ \A x \in Served : x # c => life'[x] = life[x]
    BY <1>3, StageChanges DEF Registers, IndexInv, Stages
  <2>2. life[c].pc = "listed" /\ registry' = registry \cup {c} /\ UNCHANGED srcIndex
    BY <1>3 DEF Registers, InStage
  <2>3. IndexTypes' /\ PortsDistinct'
    BY <2>1, <2>2 DEF IndexInv, IndexTypes, PortsDistinct, Open
  <2>4. EntriesOwned' /\ SendersOwned' /\ PortNamesOwner'
    BY <2>1, <2>2 DEF IndexInv, IndexTypes, EntriesOwned, SendersOwned, PortNamesOwner, InStage
  <2>5. QED
    BY <2>3, <2>4 DEF IndexInv
<1>4. ASSUME NEW c \in Served, Connects(c)
      PROVE  IndexInv'
  <2>1. PICK p \in FreePorts : life' = [life EXCEPT ![c] = [pc |-> "opened", port |-> p]]
    BY <1>4 DEF Connects
  <2>2. p \in SrcPorts /\ \A x \in Served : Open(x) => life[x].port # p
    BY DEF FreePorts, Open, InStage
  <2>3. /\ life' \in [Served -> Lives]
        /\ life'[c].pc = "opened" /\ life'[c].port = p
        /\ \A x \in Served : x # c => life'[x] = life[x]
    BY <2>1, <2>2 DEF IndexInv, IndexTypes, Lives, Stages
  <2>4. life[c].pc = "dial" /\ UNCHANGED <<srcIndex, registry>>
    BY <1>4 DEF Connects, InStage
  <2>5. IndexTypes' /\ PortsDistinct'
    BY <2>2, <2>3, <2>4 DEF IndexInv, IndexTypes, PortsDistinct, Open
  <2>6. EntriesOwned' /\ SendersOwned' /\ PortNamesOwner'
    BY <2>3, <2>4 DEF IndexInv, IndexTypes, EntriesOwned, SendersOwned, PortNamesOwner, InStage
  <2>7. QED
    BY <2>5, <2>6 DEF IndexInv
<1>5. ASSUME NEW c \in Served, Indexes(c)
      PROVE  IndexInv'
  <2>1. /\ life' \in [Served -> Lives]
        /\ life'[c].pc = "relay" /\ life'[c].port = life[c].port
        /\ \A x \in Served : x # c => life'[x] = life[x]
    BY <1>5, StageChanges DEF Indexes, IndexInv, Stages
  <2>2. life[c].pc = "opened" /\ UNCHANGED registry
    BY <1>5 DEF Indexes, InStage
  <2>3. life[c].port \in SrcPorts /\ \A x \in Served : Open(x) /\ x # c => life[x].port # life[c].port
    BY <2>2 DEF IndexInv, PortsDistinct, Open
  <2>4. srcIndex' = [srcIndex EXCEPT ![life[c].port] = c]
    BY <1>5 DEF Indexes
  <2>5. IndexTypes' /\ PortsDistinct'
    BY <2>1, <2>2, <2>3, <2>4 DEF IndexInv, IndexTypes, PortsDistinct, Open
  <2>6. EntriesOwned'
    BY <2>1, <2>2, <2>3, <2>4 DEF IndexInv, IndexTypes, EntriesOwned
  <2>7. SendersOwned' /\ PortNamesOwner'
    BY <2>1, <2>2, <2>3, <2>4 DEF IndexInv, IndexTypes, SendersOwned, PortNamesOwner, Open, InStage
  <2>8. QED
    BY <2>5, <2>6, <2>7 DEF IndexInv
<1>6. ASSUME NEW c \in Served, DialFails(c) \/ RelayEnds(c) \/ Cancelled(c)
      PROVE  IndexInv'
  BY <1>6, SocketClosed DEF DialFails, RelayEnds, Cancelled
<1>7. ASSUME NEW c \in Served, Unregisters(c)
      PROVE  IndexInv'
  <2>1. /\ life' \in [Served -> Lives]
        /\ life'[c].pc = "unindex" /\ life'[c].port = life[c].port
        /\ \A x \in Served : x # c => life'[x] = life[x]
    BY <1>7, StageChanges DEF Unregisters, IndexInv, Stages
  <2>2. life[c].pc = "unregister" /\ registry' = registry \ {c} /\ UNCHANGED srcIndex
    BY <1>7 DEF Unregisters, InStage
  <2>3. IndexTypes' /\ PortsDistinct'
    BY <2>1, <2>2 DEF IndexInv, IndexTypes, PortsDistinct, Open
  <2>4. EntriesOwned' /\ SendersOwned' /\ PortNamesOwner'
    BY <2>1, <2>2 DEF IndexInv, IndexTypes, EntriesOwned, SendersOwned, PortNamesOwner, InStage
  <2>5. QED
    BY <2>3, <2>4 DEF IndexInv
<1>8. ASSUME NEW c \in Served, Unindexes(c)
      PROVE  IndexInv'
  <2>1. /\ life' \in [Served -> Lives]
        /\ life'[c].pc = "drain" /\ life'[c].port = life[c].port
        /\ \A x \in Served : x # c => life'[x] = life[x]
    BY <1>8, StageChanges DEF Unindexes, IndexInv, Stages
  <2>2. life[c].pc = "unindex" /\ UNCHANGED registry
    BY <1>8 DEF Unindexes, InStage
  <2>3. srcIndex' = [p \in SrcPorts |-> IF p = life[c].port THEN Nobody ELSE srcIndex[p]]
    BY <1>8 DEF Unindexes
  <2>4. IndexTypes' /\ PortsDistinct'
    BY <2>1, <2>2, <2>3 DEF IndexInv, IndexTypes, PortsDistinct, Open
  <2>5. EntriesOwned'
    BY <2>1, <2>2, <2>3 DEF IndexInv, IndexTypes, EntriesOwned
  <2>6. SendersOwned' /\ PortNamesOwner'
    <3>1. SendersOwned'
      BY <2>1, <2>2 DEF IndexInv, IndexTypes, SendersOwned
    <3>2. ASSUME NEW x \in Served, life'[x].pc = "relay"
          PROVE  srcIndex'[life'[x].port] \in {x, Nobody}
      <4>1. x # c /\ life'[x] = life[x] /\ life[x].port \in SrcPorts
        BY <2>1, <3>2 DEF IndexInv, PortsDistinct, Open
      <4>2. QED
        BY <2>3, <3>2, <4>1 DEF IndexInv, PortNamesOwner, InStage
    <3>3. QED
      BY <3>1, <3>2 DEF PortNamesOwner, InStage
  <2>7. QED
    BY <2>4, <2>5, <2>6 DEF IndexInv
<1>9. ASSUME NEW c \in Served, Closes(c)
      PROVE  IndexInv'
  <2>1. /\ life' \in [Served -> Lives]
        /\ life'[c].pc = "gone" /\ life'[c].port = life[c].port
        /\ \A x \in Served : x # c => life'[x] = life[x]
    BY <1>9, StageChanges DEF Closes, IndexInv, Stages
  <2>2. life[c].pc = "drain" /\ UNCHANGED <<srcIndex, registry>>
    BY <1>9 DEF Closes, InStage
  <2>3. IndexTypes' /\ PortsDistinct'
    BY <2>1, <2>2 DEF IndexInv, IndexTypes, PortsDistinct, Open
  <2>4. EntriesOwned' /\ SendersOwned' /\ PortNamesOwner'
    BY <2>1, <2>2 DEF IndexInv, IndexTypes, EntriesOwned, SendersOwned, PortNamesOwner, InStage
  <2>5. QED
    BY <2>3, <2>4 DEF IndexInv
<1>10. ASSUME registry' \subseteq registry, UNCHANGED <<life, srcIndex>>
       PROVE  IndexInv'
  BY <1>10 DEF IndexInv, IndexTypes, PortsDistinct, Open, EntriesOwned, SendersOwned, PortNamesOwner, InStage
<1>11. ASSUME NEW c \in Served, TaskStep(c) \/ Relays(c) \/ RelayEnds(c) \/ CloseOne(c)
       PROVE  IndexInv'
  <2>1. CASE Relays(c)
    BY <2>1, <1>1 DEF Relays
  <2>2. CASE CloseOne(c)
    BY <2>2, <1>10 DEF CloseOne, NotWeb
  <2>3. QED
    BY <1>11, <2>1, <2>2, <1>2, <1>3, <1>4, <1>5, <1>6, <1>7, <1>8, <1>9 DEF TaskStep
<1>12. ASSUME NEW d \in Drainers, Drain(d)
       PROVE  IndexInv'
  BY <1>12, <1>1 DEF Drain, LoadLast, LoadCur, CasLast, Accounts, NotDraining
<1>13. CASE HouseStep
  BY <1>13, <1>1 DEF HouseStep, HouseStarts, HouseSweeps, HouseVisits, NotHousekeeping
<1>14. CASE CloseAll
  BY <1>14, <1>10 DEF CloseAll, NotWeb
<1>15. CASE ClearsTable \/ ClearsTotals
  BY <1>15, <1>1 DEF ClearsTable, ClearsTotals, NotWeb
<1>16. CASE View
  BY <1>16, <1>1 DEF View, ViewStarts, ViewTotals, ViewEnds, ViewIsGone, ViewLoads, ViewAdds, NotViewing, NotWeb
<1>17. CASE UNCHANGED tableVars
  BY <1>17, <1>1 DEF tableVars
<1>18. QED
  BY <1>11, <1>12, <1>13, <1>14, <1>15, <1>16, <1>17 DEF TableNext

\* The invariant of the life of connections and the index, for any connections
\* and ports.
THEOREM TableIndexInvariant == TableSpec => []IndexInv
<1>1. TableInit => IndexInv
  BY TableConstants DEF TableInit, IndexInv, IndexTypes, Lives, Stages, PortsDistinct, Open,
       EntriesOwned, SendersOwned, PortNamesOwner, InStage
<1>2. IndexInv /\ [TableNext]_tableVars => IndexInv'
  BY IndexStep
<1>3. QED
  BY <1>1, <1>2, PTL DEF TableSpec

\* The index of local ports never names a previous owner of a relaying connection's
\* port.
THEOREM TablePortNamesOwner == TableSpec => []PortNamesOwner
<1>1. IndexInv => PortNamesOwner
  BY DEF IndexInv
<1>2. QED
  BY <1>1, TableIndexInvariant, PTL

\* However a connection ends, serve_established leaves no sender and no entry.
THEOREM TableNothingLeft == TableSpec => []NothingLeft
<1>1. IndexInv => NothingLeft
  BY DEF IndexInv, IndexTypes, EntriesOwned, SendersOwned, NothingLeft, InStage
<1>2. QED
  BY <1>1, TableIndexInvariant, PTL
-----------------------------------------------------------------------------
Steps == {"idle", "last", "cur", "cas", "account"}
Drainings == [pc : Steps, of : Served \cup {Nobody}, prev : Nat, now : Nat, delta : Int]

CountTypes ==
  /\ life \in [Served -> Lives]
  /\ bytes \in [Served -> Nat]
  /\ taken \in [Served -> Nat]
  /\ drainer \in [Drainers -> Drainings]

\* A task drains its own record, at its end; housekeeping drains any.
DrainsOwn ==
  \A d \in Drainers : drainer[d].pc # "idle" =>
    /\ drainer[d].of \in Served
    /\ d \in Served => drainer[d].of = d /\ life[d].pc = "drain"

\* What a drainer remembers of a record is not ahead of it.
Remembers ==
  \A d \in Drainers :
    /\ drainer[d].pc \in {"cur", "cas"} => drainer[d].prev <= taken[drainer[d].of]
    /\ drainer[d].pc = "cas" =>
         drainer[d].prev < drainer[d].now /\ drainer[d].now <= bytes[drainer[d].of]

\* A task has read the last value of its counter: the relay is over.
ReadsLast == \A c \in Served : drainer[c].pc = "cas" => drainer[c].now = bytes[c]

\* A record never counts more than was relayed, and all of it once its task has
\* exchanged last_drained or found nothing new.
TakenSoFar ==
  \A c \in Served :
    /\ taken[c] <= bytes[c]
    /\ life[c].pc = "drain" /\ drainer[c].pc \in {"idle", "account"} => taken[c] = bytes[c]
    /\ life[c].pc = "gone" => taken[c] = bytes[c]

CountInv == CountTypes /\ DrainsOwn /\ Remembers /\ ReadsLast /\ TakenSoFar

\* drain_delta begins and ends in well-typed states.
LEMMA DrainingTypes ==
  /\ Idle \in Drainings /\ Idle.pc = "idle"
  /\ \A c \in Served : Draining(c) \in Drainings /\ Draining(c).pc = "last" /\ Draining(c).of = c
<1>1. Idle \in Drainings /\ Idle.pc = "idle"
  BY DEF Idle, Drainings, Steps
<1>2. ASSUME NEW c \in Served
      PROVE  Draining(c) \in Drainings /\ Draining(c).pc = "last" /\ Draining(c).of = c
  BY <1>1 DEF Draining, Drainings, Steps
<1>3. QED
  BY <1>1, <1>2

\* Before its last drain a task changes no counter that matters.
LEMMA CountEarly ==
  ASSUME CountInv, NEW c \in Served, life' \in [Served -> Lives],
         life[c].pc \notin {"drain", "gone"}, life'[c].pc \notin {"drain", "gone"},
         \A x \in Served : x # c => life'[x] = life[x],
         UNCHANGED <<bytes, taken, drainer>>
  PROVE  CountInv'
<1>1. CountTypes' /\ Remembers' /\ ReadsLast'
  BY DEF CountInv, CountTypes, Remembers, ReadsLast
<1>2. DrainsOwn' /\ TakenSoFar'
  BY DEF CountInv, DrainsOwn, TakenSoFar
<1>3. QED
  BY <1>1, <1>2 DEF CountInv

\* Every step of drain_one and account_delta keeps the invariant, whoever takes it
\* and whatever the others have read by then.
LEMMA CountDrain ==
  ASSUME CountInv, NEW d \in Drainers, Drain(d)
  PROVE  CountInv'
<1> USE TableConstants
<1>1. /\ life \in [Served -> Lives] /\ bytes \in [Served -> Nat] /\ taken \in [Served -> Nat]
      /\ drainer \in [Drainers -> Drainings] /\ Served \subseteq Drainers
  BY DEF CountInv, CountTypes, Drainers
<1>2. UNCHANGED <<life, bytes>>
  BY DEF Drain, LoadLast, LoadCur, CasLast, Accounts, NotDraining
<1>3. drainer[d].of \in Served /\ (d \in Served => drainer[d].of = d /\ life[d].pc = "drain")
  BY DEF CountInv, DrainsOwn, Drain, LoadLast, LoadCur, CasLast, Accounts
<1> DEFINE c == drainer[d].of
<1>n. taken[c] \in Nat /\ bytes[c] \in Nat /\ drainer[d].prev \in Nat /\ drainer[d].now \in Nat
  BY <1>1, <1>3 DEF Drainings
<1>4. CASE LoadLast(d)
  <2>1. /\ drainer' \in [Drainers -> Drainings] /\ taken' = taken
        /\ drainer'[d].pc = "cur" /\ drainer'[d].of = c /\ drainer'[d].prev = taken[c]
        /\ \A e \in Drainers : e # d => drainer'[e] = drainer[e]
    <3> DEFINE g == [drainer[d] EXCEPT !.pc = "cur", !.prev = taken[c]]
    <3>1. drainer' = [drainer EXCEPT ![d] = g] /\ taken' = taken
      BY <1>4 DEF LoadLast
    <3>2. g \in Drainings /\ g.pc = "cur" /\ g.of = c /\ g.prev = taken[c]
      BY <1>1, <1>n DEF Drainings, Steps
    <3> HIDE DEF g, c
    <3> QED
      BY <1>1, <3>1, <3>2
  <2>2. CountTypes' /\ DrainsOwn'
    BY <1>1, <1>2, <1>3, <2>1 DEF CountInv, CountTypes, DrainsOwn
  <2>3. Remembers' /\ ReadsLast'
    BY <1>1, <1>2, <1>3, <2>1 DEF CountInv, Remembers, ReadsLast
  <2>4. TakenSoFar'
    BY <1>1, <1>2, <1>3, <2>1 DEF CountInv, TakenSoFar
  <2>5. QED
    BY <2>2, <2>3, <2>4 DEF CountInv
<1>5. CASE LoadCur(d)
  <2>1. drainer[d].pc = "cur" /\ drainer[d].prev <= taken[c] /\ taken[c] <= bytes[c]
    BY <1>3, <1>5 DEF LoadCur, CountInv, Remembers, TakenSoFar
  <2>2. CASE bytes[c] <= drainer[d].prev
    <3>1. /\ drainer' \in [Drainers -> Drainings] /\ taken' = taken
          /\ drainer'[d].pc = "idle"
          /\ \A e \in Drainers : e # d => drainer'[e] = drainer[e]
      BY <1>1, <1>5, <2>2 DEF LoadCur, Drainings, Steps, Idle
    <3>2. taken[c] = bytes[c]
      BY <1>n, <2>1, <2>2
    <3>3. CountTypes' /\ DrainsOwn'
      BY <1>1, <1>2, <1>3, <3>1 DEF CountInv, CountTypes, DrainsOwn
    <3>4. Remembers' /\ ReadsLast'
      BY <1>1, <1>2, <1>3, <3>1 DEF CountInv, Remembers, ReadsLast
    <3>5. TakenSoFar'
      BY <1>1, <1>2, <1>3, <3>1, <3>2 DEF CountInv, TakenSoFar
    <3>6. QED
      BY <3>3, <3>4, <3>5 DEF CountInv
  <2>3. CASE ~(bytes[c] <= drainer[d].prev)
    <3>1. /\ drainer' \in [Drainers -> Drainings] /\ taken' = taken
          /\ drainer'[d].pc = "cas" /\ drainer'[d].of = c
          /\ drainer'[d].prev = drainer[d].prev /\ drainer'[d].now = bytes[c]
          /\ \A e \in Drainers : e # d => drainer'[e] = drainer[e]
      <4> DEFINE g == [drainer[d] EXCEPT !.pc = "cas", !.now = bytes[c]]
      <4>1. drainer' = [drainer EXCEPT ![d] = g] /\ taken' = taken
        BY <1>5, <2>3 DEF LoadCur
      <4>2. /\ g \in Drainings /\ g.pc = "cas" /\ g.of = c
            /\ g.prev = drainer[d].prev /\ g.now = bytes[c]
        BY <1>1, <1>n DEF Drainings, Steps
      <4> HIDE DEF g, c
      <4> QED
        BY <1>1, <4>1, <4>2
    <3>2. drainer[d].prev < bytes[c]
      BY <1>1, <1>3, <2>3 DEF Drainings
    <3>3. CountTypes' /\ DrainsOwn'
      BY <1>1, <1>2, <1>3, <3>1 DEF CountInv, CountTypes, DrainsOwn
    <3>4. Remembers' /\ ReadsLast'
      BY <1>1, <1>2, <1>3, <2>1, <3>1, <3>2 DEF CountInv, Remembers, ReadsLast
    <3>5. TakenSoFar'
      BY <1>1, <1>2, <1>3, <3>1 DEF CountInv, TakenSoFar
    <3>6. QED
      BY <3>3, <3>4, <3>5 DEF CountInv
  <2>4. QED
    BY <2>2, <2>3
<1>6. CASE CasLast(d)
  <2>1. /\ drainer[d].pc = "cas" /\ drainer[d].prev < drainer[d].now
        /\ drainer[d].prev <= taken[c] /\ drainer[d].now <= bytes[c] /\ taken[c] <= bytes[c]
    BY <1>3, <1>6 DEF CasLast, CountInv, Remembers, TakenSoFar
  <2>2. CASE taken[c] = drainer[d].prev
    <3>1. /\ taken' = [taken EXCEPT ![c] = drainer[d].now]
          /\ drainer' = [drainer EXCEPT ![d].pc = "account",
                                        ![d].delta = drainer[d].now - drainer[d].prev]
      BY <1>6, <2>2 DEF CasLast
    <3>2. drainer[d].now \in Nat /\ drainer[d].prev \in Nat
      BY <1>1 DEF Drainings
    <3>3. /\ drainer' \in [Drainers -> Drainings]
          /\ drainer'[d].pc = "account" /\ drainer'[d].of = c
          /\ \A e \in Drainers : e # d => drainer'[e] = drainer[e]
      <4>1. drainer[d].now - drainer[d].prev \in Int
        BY <3>2
      <4> DEFINE delta == drainer[d].now - drainer[d].prev
      <4> HIDE DEF delta
      <4>2. drainer' = [drainer EXCEPT ![d].pc = "account", ![d].delta = delta] /\ delta \in Int
        BY <3>1, <4>1 DEF delta
      <4>3. QED
        <5> DEFINE g == [drainer[d] EXCEPT !.pc = "account", !.delta = delta]
        <5>1. drainer' = [drainer EXCEPT ![d] = g]
          BY <4>2
        <5>2. g \in Drainings /\ g.pc = "account" /\ g.of = c
          BY <1>1, <4>2 DEF Drainings, Steps
        <5> HIDE DEF g, c
        <5> QED
          BY <1>1, <5>1, <5>2
    <3>4. /\ taken' \in [Served -> Nat] /\ taken'[c] = drainer[d].now
          /\ taken[c] < taken'[c] /\ taken'[c] <= bytes[c]
          /\ \A x \in Served : x # c => taken'[x] = taken[x]
      BY <1>1, <1>3, <2>1, <2>2, <3>1, <3>2
    <3>5. CountTypes' /\ DrainsOwn'
      BY <1>1, <1>2, <1>3, <3>3, <3>4 DEF CountInv, CountTypes, DrainsOwn
    <3>6. Remembers'
      <4>1. ASSUME NEW e \in Drainers, e # d, drainer[e].pc \in {"cur", "cas"}
            PROVE  drainer[e].prev <= taken'[drainer[e].of]
        <5>1. drainer[e].of \in Served /\ drainer[e].prev \in Nat /\ drainer[e].prev <= taken[drainer[e].of]
          BY <1>1, <4>1 DEF CountInv, DrainsOwn, Remembers, Drainings
        <5>2. QED
          BY <1>1, <1>3, <3>4, <5>1
      <4>2. QED
        BY <1>2, <3>3, <4>1 DEF CountInv, Remembers
    <3>7. ReadsLast'
      BY <1>1, <1>2, <3>3 DEF CountInv, ReadsLast
    <3>8. TakenSoFar'
      <4>1. ASSUME NEW x \in Served, x # c
            PROVE  taken'[x] = taken[x] /\ drainer'[x] = drainer[x]
        BY <1>1, <1>3, <3>3, <3>4, <4>1
      <4>2. taken[c] # bytes[c]
        BY <1>n, <2>1, <2>2
      <4>3. /\ life[c].pc # "gone"
            /\ ~(life[c].pc = "drain" /\ drainer[c].pc \in {"idle", "account"})
        BY <1>3, <4>2 DEF CountInv, TakenSoFar
      <4>4. d = c => taken'[c] = bytes[c]
        BY <1>3, <2>1, <3>4 DEF CountInv, ReadsLast
      <4>5. d # c => drainer'[c] = drainer[c]
        BY <1>1, <1>3, <3>3
      <4>6. QED
        BY <1>2, <1>3, <3>4, <4>1, <4>3, <4>4, <4>5 DEF CountInv, TakenSoFar
    <3>9. QED
      BY <3>5, <3>6, <3>7, <3>8 DEF CountInv
  <2>3. CASE taken[c] # drainer[d].prev
    <3>1. /\ drainer' \in [Drainers -> Drainings] /\ taken' = taken
          /\ drainer'[d].pc = "cur" /\ drainer'[d].of = c /\ drainer'[d].prev = taken[c]
          /\ \A e \in Drainers : e # d => drainer'[e] = drainer[e]
      BY <1>1, <1>3, <1>6, <2>3 DEF CasLast, Drainings, Steps
    <3>2. CountTypes' /\ DrainsOwn'
      BY <1>1, <1>2, <1>3, <2>1, <3>1 DEF CountInv, CountTypes, DrainsOwn
    <3>3. Remembers' /\ ReadsLast'
      BY <1>1, <1>2, <1>3, <3>1 DEF CountInv, Remembers, ReadsLast
    <3>4. TakenSoFar'
      BY <1>1, <1>2, <1>3, <3>1 DEF CountInv, TakenSoFar
    <3>5. QED
      BY <3>2, <3>3, <3>4 DEF CountInv
  <2>4. QED
    BY <2>2, <2>3
<1>7. CASE Accounts(d)
  <2>1. /\ drainer' \in [Drainers -> Drainings] /\ taken' = taken
        /\ drainer[d].pc = "account" /\ drainer'[d].pc = "idle"
        /\ \A e \in Drainers : e # d => drainer'[e] = drainer[e]
    BY <1>1, <1>7 DEF Accounts, Drainings, Steps, Idle
  <2>2. CountTypes' /\ DrainsOwn'
    BY <1>1, <1>2, <1>3, <2>1 DEF CountInv, CountTypes, DrainsOwn
  <2>3. Remembers' /\ ReadsLast'
    BY <1>1, <1>2, <1>3, <2>1 DEF CountInv, Remembers, ReadsLast
  <2>4. TakenSoFar'
    BY <1>1, <1>2, <1>3, <2>1 DEF CountInv, TakenSoFar
  <2>5. QED
    BY <2>2, <2>3, <2>4 DEF CountInv
<1>8. QED
  BY <1>4, <1>5, <1>6, <1>7 DEF Drain

\* Every other step.
LEMMA CountStep ==
  ASSUME CountInv, [TableNext]_tableVars
  PROVE  CountInv'
<1> USE TableConstants
<1>1. ASSUME UNCHANGED <<life, bytes, taken, drainer>>
      PROVE  CountInv'
  BY <1>1 DEF CountInv, CountTypes, DrainsOwn, Remembers, ReadsLast, TakenSoFar
<1>2. /\ life \in [Served -> Lives] /\ bytes \in [Served -> Nat] /\ taken \in [Served -> Nat]
      /\ drainer \in [Drainers -> Drainings] /\ Served \subseteq Drainers
  BY DEF CountInv, CountTypes, Drainers
<1>3. ASSUME NEW c \in Served, NEW pc \in Stages, Goes(c, pc)
      PROVE  /\ life' \in [Served -> Lives] /\ life'[c].pc = pc
             /\ \A x \in Served : x # c => life'[x] = life[x]
  BY <1>2, <1>3 DEF Goes, Lives
<1>4. ASSUME NEW c \in Served,
             Lists(c) \/ Registers(c) \/ Indexes(c) \/ DialFails(c) \/ RelayEnds(c)
               \/ Cancelled(c) \/ Unregisters(c)
      PROVE  CountInv'
  <2>1. PICK pc \in {"listed", "dial", "relay", "unregister", "unindex"} : Goes(c, pc)
    BY <1>4 DEF Lists, Registers, Indexes, DialFails, RelayEnds, Cancelled, Unregisters
  <2>2. /\ life' \in [Served -> Lives] /\ life'[c].pc = pc
        /\ \A x \in Served : x # c => life'[x] = life[x]
    BY <1>3, <2>1 DEF Stages
  <2>3. life[c].pc \notin {"drain", "gone"} /\ UNCHANGED <<bytes, taken, drainer>>
    BY <1>4 DEF Lists, Registers, Indexes, DialFails, RelayEnds, Cancelled, Unregisters, InStage, Counters, Others
  <2>4. QED
    BY <2>1, <2>2, <2>3, CountEarly
<1>5. ASSUME NEW c \in Served, Connects(c)
      PROVE  CountInv'
  <2>1. PICK p \in FreePorts : life' = [life EXCEPT ![c] = [pc |-> "opened", port |-> p]]
    BY <1>5 DEF Connects
  <2>2. /\ life' \in [Served -> Lives] /\ life'[c].pc = "opened"
        /\ \A x \in Served : x # c => life'[x] = life[x]
    BY <1>2, <2>1 DEF FreePorts, Lives, Stages
  <2>3. life[c].pc = "dial" /\ UNCHANGED <<bytes, taken, drainer>>
    BY <1>5 DEF Connects, InStage, Counters, Others
  <2>4. QED
    BY <2>2, <2>3, CountEarly
<1>6. ASSUME NEW c \in Served, Relays(c)
      PROVE  CountInv'
  <2>1. /\ life[c].pc = "relay" /\ UNCHANGED <<life, taken, drainer>>
        /\ bytes' \in [Served -> Nat] /\ bytes'[c] = bytes[c] + 1
        /\ \A x \in Served : x # c => bytes'[x] = bytes[x]
    BY <1>2, <1>6 DEF Relays, InStage, Others
  <2>2. CountTypes' /\ DrainsOwn'
    BY <1>2, <2>1 DEF CountInv, CountTypes, DrainsOwn
  <2>3. Remembers'
    <3>1. ASSUME NEW d \in Drainers, drainer[d].pc = "cas"
          PROVE  drainer[d].now <= bytes'[drainer[d].of]
      <4>1. /\ drainer[d].of \in Served /\ drainer[d].now \in Nat
            /\ drainer[d].now <= bytes[drainer[d].of] /\ bytes[drainer[d].of] \in Nat
        BY <1>2, <3>1 DEF CountInv, DrainsOwn, Remembers, Drainings
      <4>2. QED
        BY <2>1, <4>1
    <3>2. QED
      BY <2>1, <3>1 DEF CountInv, Remembers
  <2>4. ReadsLast'
    BY <1>2, <2>1 DEF CountInv, DrainsOwn, ReadsLast
  <2>5. TakenSoFar'
    BY <1>2, <2>1 DEF CountInv, TakenSoFar
  <2>6. QED
    BY <2>2, <2>3, <2>4, <2>5 DEF CountInv
<1>7. ASSUME NEW d \in Drainers, NEW c \in Served, drainer[d].pc = "idle",
             d \in Served => d = c /\ life'[c].pc = "drain" /\ life[c].pc \notin {"drain", "gone"},
             d = House => life' = life,
             life' \in [Served -> Lives], \A x \in Served : x # c => life'[x] = life[x],
             drainer' = [drainer EXCEPT ![d] = Draining(c)], UNCHANGED <<bytes, taken>>
      PROVE  CountInv'
  <2>1. /\ drainer' \in [Drainers -> Drainings]
        /\ drainer'[d].pc = "last" /\ drainer'[d].of = c
        /\ \A e \in Drainers : e # d => drainer'[e] = drainer[e]
    BY <1>2, <1>7, DrainingTypes
  <2>2. d = House \/ d \in Served
    BY DEF Drainers
  <2>3. CountTypes' /\ Remembers' /\ ReadsLast'
    BY <1>2, <1>7, <2>1 DEF CountInv, CountTypes, Remembers, ReadsLast
  <2>4. DrainsOwn'
    BY <1>2, <1>7, <2>1, <2>2 DEF CountInv, DrainsOwn
  <2>5. TakenSoFar'
    BY <1>2, <1>7, <2>1, <2>2 DEF CountInv, TakenSoFar
  <2>6. QED
    BY <2>3, <2>4, <2>5 DEF CountInv
<1>8. ASSUME NEW c \in Served, Unindexes(c)
      PROVE  CountInv'
  <2>1. /\ life' \in [Served -> Lives] /\ life'[c].pc = "drain"
        /\ \A x \in Served : x # c => life'[x] = life[x]
    BY <1>3, <1>8 DEF Unindexes, Stages
  <2>2. life[c].pc = "unindex" /\ UNCHANGED <<bytes, taken>>
    BY <1>8 DEF Unindexes, InStage, Counters
  <2>3. drainer[c].pc = "idle"
    BY <1>2, <2>2 DEF CountInv, DrainsOwn
  <2>4. QED
    BY <1>2, <1>7, <1>8, <2>1, <2>2, <2>3 DEF Unindexes
<1>9. ASSUME NEW c \in Served, HouseVisits(c)
      PROVE  CountInv'
  <2>1. House \in Drainers /\ House \notin Served
    BY DEF Drainers
  <2>2. /\ drainer[House].pc = "idle" /\ UNCHANGED <<life, bytes, taken>>
        /\ drainer' = [drainer EXCEPT ![House] = Draining(c)]
    BY <1>9 DEF HouseVisits, HouseAt, NotHousekeeping
  <2>3. QED
    BY <1>2, <1>7, <2>1, <2>2
<1>10. ASSUME NEW c \in Served, Closes(c)
       PROVE  CountInv'
  <2>1. /\ life' \in [Served -> Lives] /\ life'[c].pc = "gone"
        /\ \A x \in Served : x # c => life'[x] = life[x]
    BY <1>3, <1>10 DEF Closes, Stages
  <2>2. life[c].pc = "drain" /\ drainer[c].pc = "idle" /\ UNCHANGED <<bytes, taken, drainer>>
    BY <1>10 DEF Closes, InStage, Others
  <2>3. CountTypes' /\ Remembers' /\ ReadsLast'
    BY <2>1, <2>2 DEF CountInv, CountTypes, Remembers, ReadsLast
  <2>4. DrainsOwn' /\ TakenSoFar'
    BY <1>2, <2>1, <2>2 DEF CountInv, DrainsOwn, TakenSoFar
  <2>5. QED
    BY <2>3, <2>4 DEF CountInv
<1>11. ASSUME NEW c \in Served, TaskStep(c) \/ Relays(c) \/ RelayEnds(c) \/ CloseOne(c)
       PROVE  CountInv'
  <2>1. CASE CloseOne(c)
    BY <2>1, <1>1 DEF CloseOne, NotWeb
  <2>2. QED
    BY <1>11, <2>1, <1>4, <1>5, <1>6, <1>8, <1>10 DEF TaskStep
<1>12. CASE HouseStarts \/ HouseSweeps
  BY <1>12, <1>1 DEF HouseStarts, HouseSweeps, NotHousekeeping
<1>13. CASE CloseAll \/ ClearsTable \/ ClearsTotals
  BY <1>13, <1>1 DEF CloseAll, ClearsTable, ClearsTotals, NotWeb
<1>14. CASE View
  BY <1>14, <1>1 DEF View, ViewStarts, ViewTotals, ViewEnds, ViewIsGone, ViewLoads, ViewAdds, NotViewing, NotWeb
<1>15. CASE UNCHANGED tableVars
  BY <1>15, <1>1 DEF tableVars
<1>16. QED
  BY <1>9, <1>11, <1>12, <1>13, <1>14, <1>15, CountDrain DEF TableNext, HouseStep

\* The counting invariant holds always: drainers never run ahead of a record, and
\* a task leaves its last drain only when everything was taken.
THEOREM TableCountInvariant == TableSpec => []CountInv
<1>1. TableInit => CountInv
  <2>1. SUFFICES ASSUME TableInit PROVE CountInv
    OBVIOUS
  <2>2. /\ drainer \in [Drainers -> Drainings]
        /\ \A d \in Drainers : drainer[d].pc = "idle"
    BY <2>1, DrainingTypes DEF TableInit
  <2>3. /\ life \in [Served -> Lives] /\ \A c \in Served : life[c].pc = "away"
        /\ bytes \in [Served -> Nat] /\ taken \in [Served -> Nat]
        /\ \A c \in Served : taken[c] = 0 /\ bytes[c] = 0
    BY <2>1 DEF TableInit, Lives, Stages
  <2>4. CountTypes
    BY <2>2, <2>3 DEF CountTypes
  <2>5. DrainsOwn /\ Remembers /\ ReadsLast /\ TakenSoFar
    BY <2>2, <2>3 DEF DrainsOwn, Remembers, ReadsLast, TakenSoFar, Drainers
  <2>6. QED
    BY <2>4, <2>5 DEF CountInv
<1>2. CountInv /\ [TableNext]_tableVars => CountInv'
  BY CountStep
<1>3. QED
  BY <1>1, <1>2, PTL DEF TableSpec

\* A connection that is over was counted to its last byte, however its last drain
\* and the visits of housekeeping interleaved.
THEOREM TableCountedToTheEnd == TableSpec => []CountedToTheEnd
<1>1. CountInv => CountedToTheEnd
  BY DEF CountInv, TakenSoFar, CountedToTheEnd, InStage
<1>2. QED
  BY <1>1, TableCountInvariant, PTL

\* What serve_established leaves behind of a connection that is over: its bytes in
\* the totals and nothing else.
THEOREM TableSafety == TableSpec => []TableSafe
BY TableCountedToTheEnd, TablePortNamesOwner, TableNothingLeft, PTL DEF TableSafe
-----------------------------------------------------------------------------
(* The same of what ConnTable adds up. *)

Counts == 0 .. MaxBytes

LEMMA TotalIsNumber ==
  ASSUME NEW S, IsFiniteSet(S), NEW f \in [S -> Counts]
  PROVE  Total(f) \in Nat
BY SumIsNumber, TableConstants DEF Counts, Total, ByteSet, SumTo, Units

LEMMA TotalGrows ==
  ASSUME NEW S, IsFiniteSet(S), NEW f \in [S -> Counts], NEW g \in [S -> Counts],
         \A z \in S : f[z] <= g[z]
  PROVE  Total(f) <= Total(g)
BY SumGrows, TableConstants DEF Counts, Total, ByteSet, SumTo, Units

LEMMA TotalChanges ==
  ASSUME NEW S, IsFiniteSet(S), NEW f \in [S -> Counts], NEW g \in [S -> Counts], NEW x \in S,
         \A z \in S : z # x => g[z] = f[z]
  PROVE  Total(g) + f[x] = Total(f) + g[x]
BY SumChanges, TableConstants DEF Counts, Total, ByteSet, SumTo, Units

LEMMA PartOfTotal ==
  ASSUME NEW S, IsFiniteSet(S), NEW f \in [S -> Counts], NEW x \in S
  PROVE  f[x] <= Total(f)
BY PartOfSum, TableConstants DEF Counts, Total, ByteSet, SumTo, Units

LEMMA TotalOfNothing ==
  ASSUME NEW S, NEW f \in [S -> Counts], \A z \in S : f[z] = 0
  PROVE  Total(f) = 0
BY SumOfNothing, TableConstants DEF Counts, Total, ByteSet, SumTo, Units

-----------------------------------------------------------------------------
(* What is counted.  Deltas are on their way from a record to the totals; *)
(* Mixed is what a viewer that has the records in L still to read can come *)
(* to at most: of those what was taken, of the others their counters.      *)

Tallies == [pc : Steps, of : Served \cup {Nobody}, prev : Counts, now : Counts, delta : Counts]
Viewers == [pc : {"idle", "totals", "next", "shown"} \cup Served, left : SUBSET Served,
            cur : Nat, shown : Nat, base : Nat]

Deltas == [d \in Drainers |-> drainer[d].delta]
Mixed(L) == [c \in Served |-> IF c \in L THEN taken[c] ELSE bytes[c]]

TallyTypes ==
  /\ bytes \in [Served -> Counts] /\ taken \in [Served -> Counts]
  /\ drainer \in [Drainers -> Tallies]
  /\ totals \in Nat /\ cleared \in Nat /\ viewer \in Viewers

SideTypes ==
  /\ ended \in [Served -> BOOLEAN] /\ table \subseteq Served
  /\ house \in [pc : {"rest", "drain"}, left : SUBSET Served] /\ clearing \in BOOLEAN

\* Only who is between the exchange and the account has a difference to add.
CarriesOnce == \A d \in Drainers : drainer[d].pc # "account" => drainer[d].delta = 0

BytesBounded == Total(bytes) <= MaxBytes

\* What a viewer has added up so far and what it has to read do not overlap.
ShownSoFar ==
  /\ viewer.pc = "next" => viewer.shown + viewer.base <= Total(Mixed(viewer.left))
  /\ \A c \in Served : viewer.pc = c =>
       /\ c \notin viewer.left /\ viewer.cur <= bytes[c]
       /\ viewer.shown + viewer.base <= Total(Mixed(viewer.left \cup {c}))
  /\ viewer.pc = "shown" => viewer.shown + viewer.base <= Total(bytes)

TallyInv == TallyTypes /\ CarriesOnce /\ BytesBounded /\ CountedOnce /\ ShownSoFar

\* The tables and flags have their types.
LEMMA SideStep ==
  ASSUME IndexTypes, SideTypes, [TableNext]_tableVars
  PROVE  SideTypes'
<1>1. ASSUME NEW c \in Served, TaskStep(c) \/ Relays(c) \/ RelayEnds(c) \/ CloseOne(c)
      PROVE  SideTypes'
  BY <1>1 DEF TaskStep, Relays, RelayEnds, CloseOne, Lists, Registers, Connects, Indexes, DialFails,
       Cancelled, Unregisters, Unindexes, Closes, SideTypes, Counters, Others, NotWeb
<1>2. ASSUME NEW d \in Drainers, Drain(d)
      PROVE  SideTypes'
  BY <1>2 DEF Drain, LoadLast, LoadCur, CasLast, Accounts, NotDraining, SideTypes
<1>3. ASSUME HouseStep
      PROVE  SideTypes'
  BY <1>3 DEF HouseStep, HouseStarts, HouseSweeps, HouseVisits, NotHousekeeping, SideTypes
<1>4. ASSUME CloseAll \/ ClearsTable \/ ClearsTotals
      PROVE  SideTypes'
  BY <1>4 DEF CloseAll, ClearsTable, ClearsTotals, NotWeb, SideTypes
<1>5. ASSUME View
      PROVE  SideTypes'
  BY <1>5 DEF View, ViewStarts, ViewTotals, ViewEnds, ViewIsGone, ViewLoads, ViewAdds, NotViewing, NotWeb, SideTypes
<1>6. ASSUME UNCHANGED tableVars
      PROVE  SideTypes'
  BY <1>6 DEF tableVars, SideTypes
<1> QED
  BY <1>1, <1>2, <1>3, <1>4, <1>5, <1>6 DEF TableNext

LEMMA TallyFinite ==
  IsFiniteSet(Served) /\ IsFiniteSet(Drainers) /\ Served \subseteq Drainers
  /\ House \in Drainers /\ House \notin Served
<1>1. IsFiniteSet(Served) /\ House \notin Served
  BY TableConstants
<1>2. IsFiniteSet({House})
  BY FS_Singleton
<1> QED
  BY <1>1, <1>2, FS_Union DEF Drainers

LEMMA TallyFunctions ==
  ASSUME TallyTypes, NEW L
  PROVE  Deltas \in [Drainers -> Counts] /\ Mixed(L) \in [Served -> Counts]
BY DEF TallyTypes, Deltas, Mixed, Tallies

\* More relayed and more taken: what a viewer may come to only grows.
LEMMA ViewOutlived ==
  ASSUME TallyTypes, TallyTypes', ShownSoFar, UNCHANGED viewer,
         \A c \in Served : bytes[c] <= bytes'[c] /\ taken[c] <= taken'[c]
  PROVE  ShownSoFar'
<1>1. ASSUME NEW L
      PROVE  Total(Mixed(L)) <= Total(Mixed(L)') /\ Total(Mixed(L)) \in Nat /\ Total(Mixed(L)') \in Nat
  <2>1. Mixed(L) \in [Served -> Counts] /\ Mixed(L)' \in [Served -> Counts]
    BY TallyFunctions DEF TallyTypes, Mixed
  <2>2. \A c \in Served : Mixed(L)[c] <= Mixed(L)'[c]
    BY DEF Mixed
  <2> QED
    BY <2>1, <2>2, TotalGrows, TotalIsNumber, TallyFinite
<1>2. /\ Total(bytes) <= Total(bytes') /\ Total(bytes) \in Nat /\ Total(bytes') \in Nat
  BY TotalGrows, TotalIsNumber, TallyFinite DEF TallyTypes
<1>3. viewer.shown \in Nat /\ viewer.base \in Nat /\ viewer.cur \in Nat
  BY DEF TallyTypes, Viewers
<1>4. ASSUME NEW c \in Served
      PROVE  bytes[c] \in Nat /\ bytes'[c] \in Nat
  BY <1>4 DEF TallyTypes, Counts
<1>5. viewer.pc = "next" => viewer.shown + viewer.base <= Total(Mixed(viewer.left)')
  BY <1>1, <1>3 DEF ShownSoFar
<1>6. ASSUME NEW c \in Served, viewer.pc = c
      PROVE  /\ c \notin viewer.left /\ viewer.cur <= bytes'[c]
             /\ viewer.shown + viewer.base <= Total(Mixed(viewer.left \cup {c})')
  BY <1>1, <1>3, <1>4, <1>6 DEF ShownSoFar
<1>7. viewer.pc = "shown" => viewer.shown + viewer.base <= Total(bytes')
  BY <1>2, <1>3 DEF ShownSoFar
<1> QED
  BY <1>5, <1>6, <1>7 DEF ShownSoFar, Mixed

\* A step that neither takes nor adds.
LEMMA TallyKept ==
  ASSUME TallyInv, UNCHANGED <<bytes, taken, totals, cleared, viewer>>,
         drainer' \in [Drainers -> Tallies],
         \A d \in Drainers : drainer'[d].delta = drainer[d].delta
                             /\ (drainer'[d].pc # "account" => drainer'[d].delta = 0)
  PROVE  TallyInv'
<1>1. TallyTypes' /\ CarriesOnce' /\ BytesBounded'
  BY DEF TallyInv, TallyTypes, CarriesOnce, BytesBounded
<1>2. Deltas' = Deltas
  BY DEF Deltas
<1>3. CountedOnce'
  BY <1>2 DEF TallyInv, CountedOnce, Deltas
<1>4. ShownSoFar'
  BY DEF TallyInv, ShownSoFar, Mixed
<1> QED
  BY <1>1, <1>3, <1>4 DEF TallyInv
\* drain_delta starts with nothing to add.
LEMMA TallyStarts ==
  /\ Idle \in Tallies /\ Idle.pc = "idle" /\ Idle.delta = 0
  /\ \A c \in Served : Draining(c) \in Tallies /\ Draining(c).pc = "last" /\ Draining(c).delta = 0
<1>1. 0 \in Counts
  BY TableConstants DEF Counts
<1>2. Idle \in Tallies /\ Idle.pc = "idle" /\ Idle.delta = 0
  BY <1>1 DEF Idle, Tallies, Steps
<1>3. ASSUME NEW c \in Served
      PROVE  Draining(c) \in Tallies /\ Draining(c).pc = "last" /\ Draining(c).delta = 0
  BY <1>2 DEF Draining, Tallies, Steps
<1> QED
  BY <1>2, <1>3

\* The beginning of a drain.
LEMMA TallyDraining ==
  ASSUME TallyInv, NEW d \in Drainers, NEW c \in Served, drainer[d].pc = "idle",
         drainer' = [drainer EXCEPT ![d] = Draining(c)],
         UNCHANGED <<bytes, taken, totals, cleared, viewer>>
  PROVE  TallyInv'
<1>1. drainer \in [Drainers -> Tallies] /\ \A e \in Drainers : drainer[e].pc # "account" => drainer[e].delta = 0
  BY DEF TallyInv, TallyTypes, CarriesOnce
<1>2. /\ drainer' \in [Drainers -> Tallies]
      /\ drainer'[d].pc = "last" /\ drainer'[d].delta = 0
      /\ \A e \in Drainers : e # d => drainer'[e] = drainer[e]
  BY <1>1, TallyStarts
<1> QED
  BY <1>1, <1>2, TallyKept

\* Relayed bytes: the counter grows by one.
LEMMA TallyRelays ==
  ASSUME TallyInv, NEW c \in Served, Relays(c)
  PROVE  TallyInv'
<1>1. /\ bytes \in [Served -> Counts] /\ taken \in [Served -> Counts]
      /\ bytes' = [bytes EXCEPT ![c] = @ + 1] /\ Total(bytes) < MaxBytes
      /\ UNCHANGED <<taken, totals, cleared, drainer, viewer>>
  BY DEF TallyInv, TallyTypes, Relays, Others
<1>2. bytes[c] \in Nat /\ Total(bytes) \in Nat /\ MaxBytes \in Nat /\ bytes[c] <= Total(bytes)
  BY <1>1, TableConstants, PartOfTotal, TotalIsNumber, TallyFinite DEF Counts
<1>3. bytes[c] + 1 \in Counts
  BY <1>1, <1>2 DEF Counts
<1>4. /\ bytes' \in [Served -> Counts] /\ bytes'[c] = bytes[c] + 1
      /\ \A z \in Served : z # c => bytes'[z] = bytes[z]
  BY <1>1, <1>3
<1>5. Total(bytes') + bytes[c] = Total(bytes) + bytes'[c]
  <2>1. bytes \in [Served -> Counts]
    BY <1>1
  <2> QED
    BY <2>1, <1>4, TotalChanges, TallyFinite
<1>6. Total(bytes') \in Nat
  BY <1>4, TotalIsNumber, TallyFinite
<1>7. Total(bytes') <= MaxBytes
  BY <1>1, <1>2, <1>4, <1>5, <1>6
<1>8. TallyTypes' /\ CarriesOnce' /\ BytesBounded'
  BY <1>1, <1>4, <1>7 DEF TallyInv, TallyTypes, CarriesOnce, BytesBounded
<1>9. CountedOnce'
  BY <1>1 DEF TallyInv, CountedOnce
<1>10. \A z \in Served : bytes[z] <= bytes'[z] /\ taken[z] <= taken'[z]
  BY <1>1, <1>2, <1>4 DEF Counts
<1>11. ShownSoFar'
  BY <1>1, <1>8, <1>10, ViewOutlived DEF TallyInv
<1> QED
  BY <1>8, <1>9, <1>11 DEF TallyInv

\* The exchange takes from the record what the account adds to the totals.
LEMMA TallyTakes ==
  ASSUME CountInv, TallyInv, NEW d \in Drainers, CasLast(d), taken[drainer[d].of] = drainer[d].prev
  PROVE  TallyInv'
<1> DEFINE c == drainer[d].of
           was == drainer[d].prev
           now == drainer[d].now
<1>1. /\ bytes \in [Served -> Counts] /\ taken \in [Served -> Counts] /\ drainer \in [Drainers -> Tallies]
      /\ UNCHANGED <<bytes, totals, cleared, viewer>>
      /\ drainer[d].pc = "cas" /\ drainer[d].delta = 0
      /\ drainer' = [drainer EXCEPT ![d].pc = "account", ![d].delta = now - was]
      /\ taken' = [taken EXCEPT ![c] = now]
  BY DEF TallyInv, TallyTypes, CarriesOnce, CasLast, NotDraining
<1>2. c \in Served /\ was < now
  BY <1>1 DEF CountInv, DrainsOwn, Remembers
<1>3. was \in Counts /\ now \in Counts
  BY <1>1 DEF Tallies
<1>4. now - was \in Counts /\ was \in Nat /\ now \in Nat
  BY <1>2, <1>3, TableConstants DEF Counts
<1>5. /\ drainer' \in [Drainers -> Tallies] /\ drainer'[d].pc = "account" /\ drainer'[d].delta = now - was
      /\ \A e \in Drainers : e # d => drainer'[e] = drainer[e]
  <2> DEFINE delta == now - was
  <2>1. /\ drainer \in [Drainers -> Tallies] /\ delta \in Counts
        /\ drainer' = [drainer EXCEPT ![d].pc = "account", ![d].delta = delta]
    BY <1>1, <1>4
  <2> HIDE DEF delta
  <2>2. /\ drainer' \in [Drainers -> Tallies] /\ drainer'[d].pc = "account" /\ drainer'[d].delta = delta
        /\ \A e \in Drainers : e # d => drainer'[e] = drainer[e]
    BY <2>1 DEF Tallies, Steps
  <2> QED
    BY <2>2 DEF delta
<1>6. /\ taken' \in [Served -> Counts] /\ taken'[c] = now /\ taken[c] = was
      /\ \A z \in Served : z # c => taken'[z] = taken[z]
  BY <1>1, <1>2, <1>3
<1> HIDE DEF c, was, now
<1>7. Total(taken') + was = Total(taken) + now
  <2>1. taken \in [Served -> Counts]
    BY <1>1
  <2>2. Total(taken') + taken[c] = Total(taken) + taken'[c]
    BY <2>1, <1>2, <1>6, TotalChanges, TallyFinite
  <2> QED
    BY <2>2, <1>6
<1>8. Deltas \in [Drainers -> Counts] /\ Deltas' \in [Drainers -> Counts]
  BY <1>1, <1>5 DEF Deltas, Tallies
<1>9. /\ Deltas[d] = 0 /\ Deltas'[d] = now - was
      /\ \A e \in Drainers : e # d => Deltas'[e] = Deltas[e]
  BY <1>1, <1>5 DEF Deltas
<1>10. Total(Deltas') + 0 = Total(Deltas) + (now - was)
  <2>1. Total(Deltas') + Deltas[d] = Total(Deltas) + Deltas'[d]
    BY <1>8, <1>9, TotalChanges, TallyFinite
  <2> QED
    BY <2>1, <1>9
<1>11. /\ Total(taken) \in Nat /\ Total(taken') \in Nat /\ Total(Deltas) \in Nat /\ Total(Deltas') \in Nat
       /\ totals \in Nat /\ cleared \in Nat
  BY <1>1, <1>6, <1>8, TotalIsNumber, TallyFinite DEF TallyInv, TallyTypes
<1>12. totals + cleared + Total(Deltas) = Total(taken)
  BY DEF TallyInv, CountedOnce, Deltas
<1>13. totals + cleared + Total(Deltas') = Total(taken')
  BY <1>4, <1>7, <1>10, <1>11, <1>12
<1>14. CountedOnce'
  BY <1>1, <1>13 DEF CountedOnce, Deltas
<1>15. TallyTypes' /\ BytesBounded'
  BY <1>1, <1>5, <1>6 DEF TallyInv, TallyTypes, BytesBounded
<1>16. CarriesOnce'
  BY <1>1, <1>5 DEF TallyInv, CarriesOnce
<1>17. \A z \in Served : bytes[z] <= bytes'[z] /\ taken[z] <= taken'[z]
  BY <1>1, <1>2, <1>4, <1>6 DEF Counts
<1>18. ShownSoFar'
  BY <1>1, <1>15, <1>17, ViewOutlived DEF TallyInv
<1> QED
  BY <1>14, <1>15, <1>16, <1>18 DEF TallyInv

\* account_delta
LEMMA TallyAccounts ==
  ASSUME TallyInv, NEW d \in Drainers, Accounts(d)
  PROVE  TallyInv'
<1>1. /\ drainer \in [Drainers -> Tallies] /\ totals' = totals + drainer[d].delta
      /\ drainer' = [drainer EXCEPT ![d] = Idle] /\ UNCHANGED <<bytes, taken, cleared, viewer>>
  BY DEF TallyInv, TallyTypes, Accounts, NotDraining
<1>2. /\ drainer' \in [Drainers -> Tallies] /\ drainer'[d].pc = "idle" /\ drainer'[d].delta = 0
      /\ \A e \in Drainers : e # d => drainer'[e] = drainer[e]
  BY <1>1, TallyStarts
<1>3. Deltas \in [Drainers -> Counts] /\ Deltas' \in [Drainers -> Counts]
  BY <1>1, <1>2 DEF Deltas, Tallies
<1>4. /\ Deltas[d] = drainer[d].delta /\ Deltas'[d] = 0
      /\ \A e \in Drainers : e # d => Deltas'[e] = Deltas[e]
  BY <1>2 DEF Deltas
<1>5. Total(Deltas') + Deltas[d] = Total(Deltas) + Deltas'[d]
  BY <1>3, <1>4, TotalChanges, TallyFinite
<1>6. /\ Total(Deltas) \in Nat /\ Total(Deltas') \in Nat /\ Deltas[d] \in Nat
      /\ totals \in Nat /\ cleared \in Nat
  BY <1>3, TotalIsNumber, TallyFinite DEF TallyInv, TallyTypes, Counts
<1>7. totals + cleared + Total(Deltas) = Total(taken)
  BY DEF TallyInv, CountedOnce, Deltas
<1>8. totals' + cleared' + Total(Deltas') = Total(taken')
  BY <1>1, <1>4, <1>5, <1>6, <1>7
<1>9. CountedOnce'
  BY <1>8 DEF CountedOnce, Deltas
<1>10. totals' \in Nat
  BY <1>1, <1>4, <1>6
<1>11. TallyTypes' /\ CarriesOnce' /\ BytesBounded'
  BY <1>1, <1>2, <1>10 DEF TallyInv, TallyTypes, CarriesOnce, BytesBounded
<1>12. ShownSoFar'
  BY <1>1 DEF TallyInv, ShownSoFar, Mixed
<1> QED
  BY <1>9, <1>11, <1>12 DEF TallyInv

\* The steps of drain_one that only read, and the exchange that fails.
LEMMA TallyReads ==
  ASSUME CountInv, TallyInv, NEW d \in Drainers,
         LoadLast(d) \/ LoadCur(d) \/ (CasLast(d) /\ taken[drainer[d].of] # drainer[d].prev)
  PROVE  TallyInv'
<1>1. /\ drainer \in [Drainers -> Tallies] /\ taken \in [Served -> Counts] /\ bytes \in [Served -> Counts]
      /\ UNCHANGED <<bytes, taken, totals, cleared, viewer>>
      /\ drainer[d].pc \in {"last", "cur", "cas"} /\ drainer[d].delta = 0
  BY DEF TallyInv, TallyTypes, CarriesOnce, LoadLast, LoadCur, CasLast, NotDraining
<1>2. drainer[d].of \in Served
  BY <1>1 DEF CountInv, DrainsOwn
<1> DEFINE last == taken[drainer[d].of]
           cur == bytes[drainer[d].of]
<1>3. last \in Counts /\ cur \in Counts
  BY <1>1, <1>2
<1>4. \/ drainer' = [drainer EXCEPT ![d].pc = "cur", ![d].prev = last]
      \/ drainer' = [drainer EXCEPT ![d] = Idle]
      \/ drainer' = [drainer EXCEPT ![d] = [@ EXCEPT !.pc = "cas", !.now = cur]]
  BY <1>1, <1>2 DEF LoadLast, LoadCur, CasLast
<1> DEFINE r == drainer[d]
<1>7. r \in Tallies /\ r.delta = 0
  BY <1>1
<1> HIDE DEF last, cur, r
<1>8. /\ [r EXCEPT !.pc = "cur", !.prev = last] \in Tallies /\ [r EXCEPT !.pc = "cur", !.prev = last].delta = 0
      /\ [r EXCEPT !.pc = "cas", !.now = cur] \in Tallies /\ [r EXCEPT !.pc = "cas", !.now = cur].delta = 0
      /\ Idle \in Tallies /\ Idle.delta = 0
  BY <1>3, <1>7, TallyStarts DEF Tallies, Steps
<1>9. PICK k \in Tallies : drainer' = [drainer EXCEPT ![d] = k] /\ k.delta = 0
  <2>1. drainer' = [drainer EXCEPT ![d].pc = "cur", ![d].prev = last]
          => drainer' = [drainer EXCEPT ![d] = [r EXCEPT !.pc = "cur", !.prev = last]]
    BY <1>1 DEF r, Tallies
  <2>2. drainer' = [drainer EXCEPT ![d] = [@ EXCEPT !.pc = "cas", !.now = cur]]
          => drainer' = [drainer EXCEPT ![d] = [r EXCEPT !.pc = "cas", !.now = cur]]
    BY DEF r
  <2> QED
    BY <1>4, <1>8, <2>1, <2>2
<1>5. /\ drainer' \in [Drainers -> Tallies] /\ drainer'[d].delta = 0
      /\ \A e \in Drainers : e # d => drainer'[e] = drainer[e]
  BY <1>1, <1>9
<1>6. \A e \in Drainers : drainer[e].pc # "account" => drainer[e].delta = 0
  BY DEF TallyInv, CarriesOnce
<1> QED
  BY <1>1, <1>5, <1>6, TallyKept
\* A viewer changes itself alone.
LEMMA TallyViewed ==
  ASSUME TallyInv, UNCHANGED <<bytes, taken, totals, cleared, drainer>>, viewer' \in Viewers, ShownSoFar'
  PROVE  TallyInv'
BY DEF TallyInv, TallyTypes, CarriesOnce, BytesBounded, CountedOnce

\* What is in the totals or was cleared was taken, and what was taken was relayed.
LEMMA TotalsTaken ==
  ASSUME CountInv, TallyInv, NEW L
  PROVE  totals + cleared <= Total(Mixed(L))
<1>1. taken \in [Served -> Counts] /\ Mixed(L) \in [Served -> Counts] /\ Deltas \in [Drainers -> Counts]
  BY TallyFunctions DEF TallyInv, TallyTypes
<1>2. \A c \in Served : taken[c] <= Mixed(L)[c]
  BY <1>1 DEF CountInv, TakenSoFar, Mixed, Counts
<1>3. Total(taken) <= Total(Mixed(L))
  BY <1>1, <1>2, TotalGrows, TallyFinite
<1>4. totals + cleared + Total(Deltas) = Total(taken)
  BY DEF TallyInv, CountedOnce, Deltas
<1>5. /\ Total(Deltas) \in Nat /\ Total(taken) \in Nat /\ Total(Mixed(L)) \in Nat
      /\ totals \in Nat /\ cleared \in Nat
  BY <1>1, TotalIsNumber, TallyFinite DEF TallyInv, TallyTypes
<1> QED
  BY <1>3, <1>4, <1>5

\* Once a record was read, its counter may stand for what was taken of it.
LEMMA MixedMoves ==
  ASSUME TallyTypes, NEW c \in Served, NEW L, c \notin L
  PROVE  /\ Total(Mixed(L)) + taken[c] = Total(Mixed(L \cup {c})) + bytes[c]
         /\ Total(Mixed(L)) \in Nat /\ Total(Mixed(L \cup {c})) \in Nat
         /\ taken[c] \in Nat /\ bytes[c] \in Nat
<1>1. Mixed(L) \in [Served -> Counts] /\ Mixed(L \cup {c}) \in [Served -> Counts]
  BY TallyFunctions
<1>2. /\ Mixed(L)[c] = bytes[c] /\ Mixed(L \cup {c})[c] = taken[c]
      /\ \A z \in Served : z # c => Mixed(L \cup {c})[z] = Mixed(L)[z]
  BY DEF Mixed
<1>3. Total(Mixed(L \cup {c})) + Mixed(L)[c] = Total(Mixed(L)) + Mixed(L \cup {c})[c]
  BY <1>1, <1>2, TotalChanges, TallyFinite
<1>4. Total(Mixed(L)) \in Nat /\ Total(Mixed(L \cup {c})) \in Nat
  BY <1>1, TotalIsNumber, TallyFinite
<1>5. taken[c] \in Nat /\ bytes[c] \in Nat
  BY DEF TallyTypes, Counts
<1> QED
  BY <1>2, <1>3, <1>4, <1>5

\* Showing the totals.
LEMMA TallyViews ==
  ASSUME CountInv, TallyInv, IndexTypes, SideTypes, View
  PROVE  TallyInv'
<1>1. /\ viewer \in Viewers /\ TallyTypes /\ totals \in Nat /\ cleared \in Nat /\ table \subseteq Served
      /\ UNCHANGED <<bytes, taken, totals, cleared, drainer>>
  BY DEF TallyInv, TallyTypes, SideTypes, View, ViewStarts, ViewTotals, ViewEnds, ViewIsGone, ViewLoads,
     ViewAdds, NotViewing, NotWeb
<1>2. ASSUME ViewStarts \/ ViewIsGone
      PROVE  TallyInv'
  <2>1. viewer' \in Viewers /\ viewer'.pc \in {"totals", "idle"}
    <3>1. ASSUME ViewStarts
          PROVE  viewer' \in Viewers /\ viewer'.pc = "totals"
      BY <1>1, <3>1 DEF ViewStarts, Viewers
    <3>2. ASSUME ViewIsGone
          PROVE  viewer' \in Viewers /\ viewer'.pc = "idle"
      BY <3>2 DEF ViewIsGone, Viewers, Unviewed
    <3> QED
      BY <1>2, <3>1, <3>2
  <2>2. viewer'.pc \notin Served
    BY <2>1, TableConstants
  <2>3. ShownSoFar'
    BY <2>1, <2>2 DEF ShownSoFar
  <2> QED
    BY <1>1, <2>1, <2>3, TallyViewed
<1>3. ASSUME ViewTotals
      PROVE  TallyInv'
  <2>1. /\ viewer' \in Viewers /\ viewer'.pc = "next" /\ viewer'.left = viewer.left
        /\ viewer'.shown = totals /\ viewer'.base = cleared
    BY <1>1, <1>3 DEF ViewTotals, Viewers
  <2>2. viewer'.pc \notin Served
    BY <2>1, TableConstants
  <2>3. totals + cleared <= Total(Mixed(viewer.left))
    BY TotalsTaken
  <2>4. ShownSoFar'
    BY <1>1, <2>1, <2>2, <2>3 DEF ShownSoFar, Mixed
  <2> QED
    BY <1>1, <2>1, <2>4, TallyViewed
<1>4. ASSUME NEW c \in Served, ViewLoads(c)
      PROVE  TallyInv'
  <2>1. bytes[c] \in Nat
    BY <1>1 DEF TallyTypes, Counts
  <2>2. /\ viewer' \in Viewers /\ viewer'.pc = c /\ viewer'.left = viewer.left \ {c} /\ viewer'.cur = bytes[c]
        /\ viewer'.shown = viewer.shown /\ viewer'.base = viewer.base
        /\ viewer.pc = "next" /\ c \in viewer.left
    BY <1>1, <1>4, <2>1 DEF ViewLoads, Viewers
  <2>3. (viewer.left \ {c}) \cup {c} = viewer.left /\ c \notin {"next", "shown"}
    BY <2>2, TableConstants
  <2>4. viewer.shown + viewer.base <= Total(Mixed(viewer.left))
    BY <2>2 DEF TallyInv, ShownSoFar
  <2>5. ShownSoFar'
    BY <1>1, <2>1, <2>2, <2>3, <2>4 DEF ShownSoFar, Mixed
  <2> QED
    BY <1>1, <2>2, <2>5, TallyViewed
<1>5. ASSUME NEW c \in Served, ViewAdds(c)
      PROVE  TallyInv'
  <2> DEFINE sum == IF viewer.cur > taken[c] THEN viewer.shown + viewer.cur - taken[c] ELSE viewer.shown
  <2>1. /\ viewer.pc = c /\ c \notin viewer.left /\ viewer.cur <= bytes[c]
        /\ viewer.shown + viewer.base <= Total(Mixed(viewer.left \cup {c}))
    BY <1>5 DEF ViewAdds, TallyInv, ShownSoFar
  <2>2. viewer.shown \in Nat /\ viewer.base \in Nat /\ viewer.cur \in Nat
    BY <1>1 DEF Viewers
  <2>3. /\ Total(Mixed(viewer.left)) + taken[c] = Total(Mixed(viewer.left \cup {c})) + bytes[c]
        /\ Total(Mixed(viewer.left)) \in Nat /\ Total(Mixed(viewer.left \cup {c})) \in Nat
        /\ taken[c] \in Nat /\ bytes[c] \in Nat
    BY <1>1, <2>1, MixedMoves
  <2>4. taken[c] <= bytes[c]
    BY DEF CountInv, TakenSoFar
  <2>5. sum \in Nat /\ sum + viewer.base <= Total(Mixed(viewer.left))
    BY <2>1, <2>2, <2>3, <2>4
  <2>6. viewer' = [viewer EXCEPT !.pc = "next", !.cur = 0, !.shown = sum]
    BY <1>5 DEF ViewAdds
  <2> HIDE DEF sum
  <2>7. /\ viewer' \in Viewers /\ viewer'.pc = "next" /\ viewer'.left = viewer.left
        /\ viewer'.shown = sum /\ viewer'.base = viewer.base
    BY <1>1, <2>5, <2>6 DEF Viewers
  <2>8. viewer'.pc \notin Served
    BY <2>7, TableConstants
  <2>9. ShownSoFar'
    BY <1>1, <2>5, <2>7, <2>8 DEF ShownSoFar, Mixed
  <2> QED
    BY <1>1, <2>7, <2>9, TallyViewed
<1>6. ASSUME ViewEnds
      PROVE  TallyInv'
  <2>1. /\ viewer' \in Viewers /\ viewer'.pc = "shown"
        /\ viewer'.shown = viewer.shown /\ viewer'.base = viewer.base
        /\ viewer.pc = "next" /\ viewer.left = {}
    BY <1>1, <1>6 DEF ViewEnds, Viewers
  <2>2. viewer'.pc \notin Served
    BY <2>1, TableConstants
  <2>3. Mixed({}) = bytes
    BY <1>1 DEF TallyTypes, Mixed
  <2>4. viewer.shown + viewer.base <= Total(bytes)
    BY <2>1, <2>3 DEF TallyInv, ShownSoFar
  <2>5. ShownSoFar'
    BY <1>1, <2>1, <2>2, <2>4 DEF ShownSoFar
  <2> QED
    BY <1>1, <2>1, <2>5, TallyViewed
<1> QED
  BY <1>2, <1>3, <1>4, <1>5, <1>6 DEF View

\* A clear moves the totals to what was cleared.
LEMMA TallyClears ==
  ASSUME TallyInv, ClearsTotals
  PROVE  TallyInv'
<1>1. /\ totals \in Nat /\ cleared \in Nat /\ totals' = 0 /\ cleared' = cleared + totals
      /\ UNCHANGED <<bytes, taken, drainer, viewer>>
  BY DEF TallyInv, TallyTypes, ClearsTotals, NotWeb
<1>2. Deltas \in [Drainers -> Counts] /\ totals + cleared + Total(Deltas) = Total(taken)
  BY TallyFunctions DEF TallyInv, CountedOnce, Deltas
<1>3. Total(Deltas) \in Nat
  BY <1>2, TotalIsNumber, TallyFinite
<1>4. totals' + cleared' + Total(Deltas) = Total(taken)
  BY <1>1, <1>2, <1>3
<1>5. CountedOnce'
  BY <1>1, <1>4 DEF CountedOnce, Deltas
<1>6. TallyTypes' /\ CarriesOnce' /\ BytesBounded' /\ ShownSoFar'
  BY <1>1 DEF TallyInv, TallyTypes, CarriesOnce, BytesBounded, ShownSoFar, Mixed
<1> QED
  BY <1>5, <1>6 DEF TallyInv

\* Every step keeps the accounts.
LEMMA TallyStep ==
  ASSUME CountInv, IndexTypes, SideTypes, TallyInv, [TableNext]_tableVars
  PROVE  TallyInv'
<1>1. ASSUME UNCHANGED <<bytes, taken, totals, cleared, viewer, drainer>>
      PROVE  TallyInv'
  <2>1. /\ drainer \in [Drainers -> Tallies]
        /\ \A d \in Drainers : drainer[d].pc # "account" => drainer[d].delta = 0
    BY DEF TallyInv, TallyTypes, CarriesOnce
  <2> QED
    BY <1>1, <2>1, TallyKept
<1>2. ASSUME NEW c \in Served, TaskStep(c) \/ Relays(c) \/ RelayEnds(c) \/ CloseOne(c)
      PROVE  TallyInv'
  <2>1. ASSUME Unindexes(c)
        PROVE  TallyInv'
    <3>1. /\ life[c].pc = "unindex" /\ drainer' = [drainer EXCEPT ![c] = Draining(c)]
          /\ UNCHANGED <<bytes, taken, totals, cleared, viewer>>
      BY <2>1 DEF Unindexes, InStage, Counters
    <3>2. c \in Drainers /\ drainer[c].pc = "idle"
      BY <3>1, TallyFinite DEF CountInv, DrainsOwn
    <3> QED
      BY <3>1, <3>2, TallyDraining
  <2>2. ASSUME Lists(c) \/ Registers(c) \/ Connects(c) \/ Indexes(c) \/ DialFails(c) \/ Cancelled(c)
                 \/ Unregisters(c) \/ Closes(c) \/ RelayEnds(c) \/ CloseOne(c)
        PROVE  TallyInv'
    BY <2>2, <1>1 DEF Lists, Registers, Connects, Indexes, DialFails, Cancelled, Unregisters, Closes,
       RelayEnds, CloseOne, Counters, Others, NotWeb
  <2> QED
    BY <1>2, <2>1, <2>2, TallyRelays DEF TaskStep
<1>3. ASSUME NEW d \in Drainers, Drain(d)
      PROVE  TallyInv'
  BY <1>3, TallyReads, TallyTakes, TallyAccounts DEF Drain
<1>4. ASSUME NEW c \in Served, HouseVisits(c)
      PROVE  TallyInv'
  <2>1. /\ House \in Drainers /\ drainer[House].pc = "idle" /\ drainer' = [drainer EXCEPT ![House] = Draining(c)]
        /\ UNCHANGED <<bytes, taken, totals, cleared, viewer>>
    BY <1>4, TallyFinite DEF HouseVisits, HouseAt, NotHousekeeping
  <2> QED
    BY <2>1, TallyDraining
<1>5. ASSUME HouseStarts \/ HouseSweeps \/ CloseAll \/ ClearsTable \/ UNCHANGED tableVars
      PROVE  TallyInv'
  BY <1>5, <1>1 DEF HouseStarts, HouseSweeps, CloseAll, ClearsTable, NotHousekeeping, NotWeb, tableVars
<1> QED
  BY <1>2, <1>3, <1>4, <1>5, TallyViews, TallyClears DEF TableNext, HouseStep

\* The accounts begin even.
LEMMA TallyInit ==
  ASSUME TableInit
  PROVE  TallyInv /\ SideTypes
<1>1. MaxBytes \in Nat /\ 0 \in Counts
  BY TableConstants DEF Counts
<1>2. /\ bytes \in [Served -> Counts] /\ \A c \in Served : bytes[c] = 0
      /\ taken \in [Served -> Counts] /\ \A c \in Served : taken[c] = 0
      /\ totals = 0 /\ cleared = 0
  BY <1>1 DEF TableInit
<1>3. /\ drainer \in [Drainers -> Tallies]
      /\ \A d \in Drainers : drainer[d].delta = 0
  BY TallyStarts DEF TableInit
<1>4. viewer \in Viewers /\ viewer.pc = "idle" /\ "idle" \notin Served
  BY TableConstants DEF TableInit, Unviewed, Viewers
<1>5. Deltas \in [Drainers -> Counts] /\ \A d \in Drainers : Deltas[d] = 0
  BY <1>1, <1>3 DEF Deltas
<1>6. Total(bytes) = 0 /\ Total(taken) = 0
  BY <1>2, TotalOfNothing
<1>7. Total(Deltas) = 0
  BY <1>5, TotalOfNothing
<1>8. CountedOnce
  BY <1>2, <1>6, <1>7 DEF CountedOnce, Deltas
<1>9. TallyTypes /\ CarriesOnce /\ BytesBounded
  BY <1>1, <1>2, <1>3, <1>4, <1>6 DEF TallyTypes, CarriesOnce, BytesBounded
<1>10. ShownSoFar
  BY <1>4 DEF ShownSoFar
<1>11. SideTypes
  BY DEF TableInit, SideTypes
<1> QED
  BY <1>8, <1>9, <1>10, <1>11 DEF TallyInv

\* The three invariants say what the run checks.
LEMMA TallySays ==
  ASSUME IndexInv, CountInv, SideTypes, TallyInv
  PROVE  TableCounts
<1>1. NeverOvercounts
  BY DEF TallyInv, ShownSoFar, NeverOvercounts
<1>2. drainer \in [Drainers -> [pc : {"idle", "last", "cur", "cas", "account"}, of : Served \cup {Nobody},
        prev : 0 .. MaxBytes, now : 0 .. MaxBytes, delta : 0 .. MaxBytes]]
  BY DEF TallyInv, TallyTypes, Tallies, Steps, Counts
<1>3. life \in [Served ->
       [pc : {"away", "listed", "dial", "opened", "relay", "unregister", "unindex", "drain", "gone"},
        port : SrcPorts \cup {Nobody}]]
  BY DEF IndexInv, IndexTypes, Lives, Stages
<1>4. bytes \in [Served -> 0 .. MaxBytes] /\ taken \in [Served -> 0 .. MaxBytes]
      /\ totals \in Nat /\ cleared \in Nat /\ viewer.pc \in {"idle", "totals", "next", "shown"} \cup Served
  BY DEF TallyInv, TallyTypes, Viewers, Counts
<1>5. registry \subseteq Served /\ srcIndex \in [SrcPorts -> Served \cup {Nobody}]
  BY DEF IndexInv, IndexTypes
<1>6. \A c \in Served : drainer[c].pc # "idle" => InStage(c, "drain")
  BY TallyFinite DEF CountInv, DrainsOwn, InStage
<1>7. TableTypeOK
  BY <1>2, <1>3, <1>4, <1>5, <1>6 DEF TableTypeOK, SideTypes
<1> QED
  BY <1>1, <1>7 DEF TableCounts, TallyInv

\* However tasks, housekeeping, a clear of the statistics and a viewer interleave, each
\* byte is counted once and none is shown twice, for any connections, ports and bytes.
THEOREM TableCountsOnce == TableSpec => []TableCounts
<1>1. SideTypes /\ IndexInv /\ [TableNext]_tableVars => SideTypes'
  BY SideStep DEF IndexInv
<1>2. IndexInv /\ CountInv /\ SideTypes /\ TallyInv /\ [TableNext]_tableVars => TallyInv'
  BY TallyStep DEF IndexInv
<1>3. TableInit => SideTypes /\ TallyInv
  BY TallyInit
<1>4. IndexInv /\ CountInv /\ SideTypes /\ TallyInv => TableCounts
  BY TallySays
<1> QED
  BY <1>1, <1>2, <1>3, <1>4, TableIndexInvariant, TableCountInvariant, PTL DEF TableSpec
-----------------------------------------------------------------------------
(***************************************************************************)
(* CfMetrics.  Due(w, n) is what a fold adds that finds n where w was      *)
(* found before.  As long as every fold was of a whole body and in order,  *)
(* what is counted and what is due add up to no more than what was sent;   *)
(* of a body that is still to be folded, what is due splits at the body.   *)
(***************************************************************************)
Sents == 0 .. MaxSent
Bodies == UNION {[S -> Sents] : S \in SUBSET Conns}
AskRecs == [at : {"idle", "fold"}, body : Bodies, whole : BOOLEAN, before : Nat]

Full(b) == [c \in Conns |-> IF c \in DOMAIN b THEN b[c] ELSE 0]
Due(w, n) == [c \in Conns |-> IF n[c] >= w[c] THEN n[c] - w[c] ELSE n[c]]
Below(f, g) == \A c \in Conns : f[c] <= g[c]

\* A body that a fold may take without becoming unclean.
InOrder(a) == ask[a].at = "fold" /\ ask[a].whole /\ ask[a].before = folds

MetTypes ==
  /\ counter \in [Conns -> Sents] /\ really \in Sents /\ up \in Nat /\ folds \in Nat
  /\ prev \in Bodies /\ ask \in [Askers -> AskRecs]
  /\ resets \in Nat /\ clean \in BOOLEAN

CountersSent == \A c \in Conns : counter[c] <= really

BodiesWhole ==
  \A a \in Askers : /\ ask[a].before <= folds
                    /\ ask[a].at = "fold" /\ ask[a].whole => DOMAIN ask[a].body = Conns

DueNow == up + SumOf(Due(Full(prev), counter)) <= really
DueLater(b) == up + SumOf(Due(Full(prev), b)) + SumOf(Due(b, counter)) <= really

Exact == Below(Full(prev), counter) /\ up = SumOf(Full(prev))
Between(b) == Below(Full(prev), b) /\ Below(b, counter)

Balanced ==
  clean => /\ DueNow
           /\ resets = 0 => Exact
           /\ \A a \in Askers : InOrder(a) => /\ DueLater(ask[a].body)
                                              /\ resets = 0 => Between(ask[a].body)

MetInv == MetTypes /\ CountersSent /\ BodiesWhole /\ Balanced

LEMMA SumOfIsNumber ==
  ASSUME NEW f \in [Conns -> Sents]
  PROVE  SumOf(f) \in Nat
BY SumIsNumber, MetAssumption DEF Sents, SumOf, SumTo, Units

LEMMA SumOfGrows ==
  ASSUME NEW f \in [Conns -> Sents], NEW g \in [Conns -> Sents], Below(f, g)
  PROVE  SumOf(f) <= SumOf(g)
BY SumGrows, MetAssumption DEF Sents, SumOf, SumTo, Units, Below

LEMMA SumOfChanges ==
  ASSUME NEW f \in [Conns -> Sents], NEW g \in [Conns -> Sents], NEW x \in Conns,
         \A z \in Conns : z # x => g[z] = f[z]
  PROVE  SumOf(g) + f[x] = SumOf(f) + g[x]
BY SumChanges, MetAssumption DEF Sents, SumOf, SumTo, Units

LEMMA SumOfZero ==
  ASSUME NEW f \in [Conns -> Sents], \A z \in Conns : f[z] = 0
  PROVE  SumOf(f) = 0
BY SumOfNothing, MetAssumption DEF Sents, SumOf, SumTo, Units

LEMMA SumOfAdds ==
  ASSUME NEW f \in [Conns -> Sents], NEW g \in [Conns -> Sents], NEW h \in [Conns -> Sents],
         \A z \in Conns : h[z] = f[z] + g[z]
  PROVE  SumOf(h) = SumOf(f) + SumOf(g)
BY SumAdds, MetAssumption DEF Sents, SumOf, SumTo, Units

\* A connection that a body does not name has sent nothing.
LEMMA FullSum ==
  ASSUME NEW b \in Bodies
  PROVE  /\ Full(b) \in [Conns -> Sents] /\ SumOf(Full(b)) = SumOf(b)
         /\ DOMAIN b = Conns => b \in [Conns -> Sents] /\ Full(b) = b
<1>1. PICK S \in SUBSET Conns : b \in [S -> Sents]
  BY DEF Bodies
<1>2. 0 \in Sents
  BY MetAssumption DEF Sents
<1>3. Full(b) \in [Conns -> Sents]
  BY <1>1, <1>2 DEF Full
<1>4. DOMAIN b = Conns => b \in [Conns -> Sents] /\ Full(b) = b
  BY <1>1 DEF Full
<1>5. ASSUME NEW p \in Conns \X (1 .. MaxSent), p[2] <= Full(b)[p[1]]
      PROVE  p \in (DOMAIN b) \X (1 .. MaxSent) /\ p[2] <= b[p[1]]
  <2>1. p[1] \in Conns /\ p[2] \in 1 .. MaxSent /\ p = <<p[1], p[2]>>
    OBVIOUS
  <2>2. p[1] \in DOMAIN b
    BY <1>5, <2>1 DEF Full
  <2> QED
    BY <1>5, <2>1, <2>2 DEF Full
<1>6. ASSUME NEW p \in (DOMAIN b) \X (1 .. MaxSent), p[2] <= b[p[1]]
      PROVE  p \in Conns \X (1 .. MaxSent) /\ p[2] <= Full(b)[p[1]]
  BY <1>1, <1>6 DEF Full
<1>7. DOMAIN Full(b) = Conns
  BY DEF Full
<1>8. {p \in (DOMAIN Full(b)) \X (1 .. MaxSent) : p[2] <= Full(b)[p[1]]}
        = {p \in (DOMAIN b) \X (1 .. MaxSent) : p[2] <= b[p[1]]}
  BY <1>5, <1>6, <1>7
<1> QED
  BY <1>3, <1>4, <1>8 DEF SumOf

LEMMA DueTypes ==
  ASSUME NEW w \in [Conns -> Sents], NEW n \in [Conns -> Sents]
  PROVE  /\ Due(w, n) \in [Conns -> Sents] /\ SumOf(Due(w, n)) \in Nat
         /\ \A c \in Conns : Due(w, n)[c] = IF n[c] >= w[c] THEN n[c] - w[c] ELSE n[c]
<1>1. ASSUME NEW c \in Conns
      PROVE  (IF n[c] >= w[c] THEN n[c] - w[c] ELSE n[c]) \in Sents
  <2>1. n[c] \in Sents /\ w[c] \in Sents
    OBVIOUS
  <2> QED
    BY <2>1, MetAssumption DEF Sents
<1>2. Due(w, n) \in [Conns -> Sents]
  BY <1>1 DEF Due
<1>3. SumOf(Due(w, n)) \in Nat
  BY <1>2, SumOfIsNumber
<1>4. \A c \in Conns : Due(w, n)[c] = IF n[c] >= w[c] THEN n[c] - w[c] ELSE n[c]
  BY DEF Due
<1> QED
  BY <1>2, <1>3, <1>4

\* A byte that is sent adds at most one to what is due.
LEMMA DueOfSent ==
  ASSUME NEW w \in [Conns -> Sents], NEW n \in [Conns -> Sents], NEW m \in [Conns -> Sents], NEW x \in Conns,
         m[x] = n[x] + 1, \A z \in Conns : z # x => m[z] = n[z]
  PROVE  SumOf(Due(w, m)) <= SumOf(Due(w, n)) + 1
<1> DEFINE p == Due(w, n)
           q == Due(w, m)
<1>1. p \in [Conns -> Sents] /\ q \in [Conns -> Sents] /\ SumOf(p) \in Nat /\ SumOf(q) \in Nat
  BY DueTypes
<1>2. \A z \in Conns : z # x => q[z] = p[z]
  BY DueTypes
<1>3. q[x] <= p[x] + 1
  <2>1. /\ p[x] = IF n[x] >= w[x] THEN n[x] - w[x] ELSE n[x]
        /\ q[x] = IF m[x] >= w[x] THEN m[x] - w[x] ELSE m[x]
    BY DueTypes
  <2>2. n[x] \in Nat /\ w[x] \in Nat /\ m[x] = n[x] + 1
    BY DEF Sents
  <2> HIDE DEF p, q
  <2> QED
    BY <2>1, <2>2
<1>4. p[x] \in Nat /\ q[x] \in Nat
  BY <1>1 DEF Sents
<1> HIDE DEF p, q
<1>5. SumOf(q) + p[x] = SumOf(p) + q[x]
  BY <1>1, <1>2, SumOfChanges
<1>6. SumOf(q) <= SumOf(p) + 1
  BY <1>1, <1>3, <1>4, <1>5
<1> QED
  BY <1>6 DEF p, q

\* A counter that starts again adds nothing to what is due.
LEMMA DueOfReset ==
  ASSUME NEW w \in [Conns -> Sents], NEW n \in [Conns -> Sents], NEW m \in [Conns -> Sents],
         \A z \in Conns : m[z] = 0 \/ m[z] = n[z]
  PROVE  SumOf(Due(w, m)) <= SumOf(Due(w, n))
<1>1. Due(w, n) \in [Conns -> Sents] /\ Due(w, m) \in [Conns -> Sents]
  BY DueTypes
<1>2. ASSUME NEW z \in Conns
      PROVE  Due(w, m)[z] <= Due(w, n)[z]
  <2>1. /\ Due(w, n)[z] = IF n[z] >= w[z] THEN n[z] - w[z] ELSE n[z]
        /\ Due(w, m)[z] = IF m[z] >= w[z] THEN m[z] - w[z] ELSE m[z]
    BY DueTypes
  <2>2. n[z] \in Nat /\ w[z] \in Nat /\ (m[z] = 0 \/ m[z] = n[z])
    BY DEF Sents
  <2> QED
    BY <2>1, <2>2
<1> QED
  BY <1>1, <1>2, SumOfGrows DEF Below

\* Nothing is due of what was found as it is.
LEMMA DueOfSame ==
  ASSUME NEW n \in [Conns -> Sents]
  PROVE  SumOf(Due(n, n)) = 0
<1>1. Due(n, n) \in [Conns -> Sents]
  BY DueTypes
<1>2. ASSUME NEW z \in Conns
      PROVE  Due(n, n)[z] = 0
  <2>1. n[z] \in Nat
    BY DEF Sents
  <2> QED
    BY <2>1 DEF Due
<1> QED
  BY <1>1, <1>2, SumOfZero

\* Without restarts, what is due is the difference.
LEMMA DueOfGrown ==
  ASSUME NEW w \in [Conns -> Sents], NEW n \in [Conns -> Sents], Below(w, n)
  PROVE  SumOf(n) = SumOf(w) + SumOf(Due(w, n))
<1>1. Due(w, n) \in [Conns -> Sents]
  BY DueTypes
<1>2. ASSUME NEW z \in Conns
      PROVE  n[z] = w[z] + Due(w, n)[z]
  <2>1. n[z] \in Nat /\ w[z] \in Nat /\ w[z] <= n[z]
    BY DEF Sents, Below
  <2>2. Due(w, n)[z] = IF n[z] >= w[z] THEN n[z] - w[z] ELSE n[z]
    BY DueTypes
  <2> QED
    BY <2>1, <2>2
<1> QED
  BY <1>1, <1>2, SumOfAdds

\* A body in order is one of all connections.
LEMMA BodyInOrder ==
  ASSUME MetInv, NEW a \in Askers, ask[a].at = "fold", ask[a].whole
  PROVE  ask[a].body \in [Conns -> Sents] /\ Full(ask[a].body) = ask[a].body
<1>1. ask[a].body \in Bodies /\ DOMAIN ask[a].body = Conns
  BY DEF MetInv, MetTypes, AskRecs, BodiesWhole
<1> QED
  BY <1>1, FullSum

LEMMA MetSends ==
  ASSUME MetInv, NEW c \in Conns, Sends(c)
  PROVE  MetInv'
<1>1. /\ counter \in [Conns -> Sents] /\ really \in Sents /\ really < MaxSent /\ really' = really + 1
      /\ counter' = [counter EXCEPT ![c] = @ + 1] /\ UNCHANGED <<ask, prev, up, folds, resets, clean>>
      /\ Full(prev) \in [Conns -> Sents] /\ up \in Nat
  BY FullSum DEF MetInv, MetTypes, Sends
<1>2. counter[c] <= really /\ counter[c] \in Nat /\ really \in Nat /\ MaxSent \in Nat
  BY <1>1, MetAssumption DEF MetInv, CountersSent, Sents
<1>3. counter[c] + 1 \in Sents /\ really' \in Sents
  BY <1>1, <1>2 DEF Sents
<1>4. /\ counter' \in [Conns -> Sents] /\ counter'[c] = counter[c] + 1
      /\ \A z \in Conns : z # c => counter'[z] = counter[z]
  BY <1>1, <1>3
<1>5. MetTypes' /\ BodiesWhole'
  BY <1>1, <1>3, <1>4 DEF MetInv, MetTypes, BodiesWhole
<1>6. CountersSent'
  <2>1. ASSUME NEW z \in Conns
        PROVE  counter'[z] <= really'
    <3>1. counter[z] <= really /\ counter[z] \in Nat
      BY <1>1 DEF MetInv, CountersSent, Sents
    <3> QED
      BY <1>1, <1>2, <1>4, <3>1
  <2> QED
    BY <2>1 DEF CountersSent
<1>7. ASSUME NEW w \in [Conns -> Sents]
      PROVE  /\ SumOf(Due(w, counter')) <= SumOf(Due(w, counter)) + 1
             /\ SumOf(Due(w, counter')) \in Nat /\ SumOf(Due(w, counter)) \in Nat
  BY <1>1, <1>4, DueOfSent, DueTypes
<1>8. \A z \in Conns : counter[z] <= counter'[z] /\ counter[z] \in Nat /\ counter'[z] \in Nat
  BY <1>1, <1>2, <1>4 DEF Sents
<1>9. ASSUME clean, DueNow
      PROVE  DueNow'
  <2>1. up + SumOf(Due(Full(prev), counter')) <= really'
    <3> DEFINE x == SumOf(Due(Full(prev), counter))
               y == SumOf(Due(Full(prev), counter'))
    <3>1. x \in Nat /\ y \in Nat /\ y <= x + 1 /\ up + x <= really
      BY <1>1, <1>7, <1>9 DEF DueNow
    <3>2. up \in Nat /\ really \in Nat /\ really' = really + 1
      BY <1>1, <1>2
    <3> HIDE DEF x, y
    <3>3. up + y <= really'
      BY <3>1, <3>2
    <3> QED
      BY <3>3 DEF y
  <2> QED
    BY <1>1, <2>1 DEF DueNow, Full, Due
<1>10. ASSUME NEW a \in Askers, InOrder(a), DueLater(ask[a].body)
       PROVE  DueLater(ask[a].body)'
  <2>1. ask[a].body \in [Conns -> Sents]
    BY <1>10, BodyInOrder DEF InOrder
  <2>2. SumOf(Due(Full(prev), ask[a].body)) \in Nat
    BY <1>1, <2>1, DueTypes
  <2>3. up + SumOf(Due(Full(prev), ask[a].body)) + SumOf(Due(ask[a].body, counter')) <= really'
    <3> DEFINE v == SumOf(Due(Full(prev), ask[a].body))
               x == SumOf(Due(ask[a].body, counter))
               y == SumOf(Due(ask[a].body, counter'))
    <3>1. x \in Nat /\ y \in Nat /\ y <= x + 1 /\ v \in Nat /\ up + v + x <= really
      BY <1>7, <1>10, <2>1, <2>2 DEF DueLater
    <3>2. up \in Nat /\ really \in Nat /\ really' = really + 1
      BY <1>1, <1>2
    <3> HIDE DEF v, x, y
    <3>3. up + v + y <= really'
      BY <3>1, <3>2
    <3> QED
      BY <3>3 DEF v, y
  <2> QED
    BY <1>1, <2>3 DEF DueLater, Full, Due
<1>11. ASSUME Exact
       PROVE  Exact'
  <2>1. \A z \in Conns : Full(prev)[z] \in Nat /\ Full(prev)[z] <= counter[z]
    BY <1>1, <1>11 DEF Exact, Below, Sents
  <2>2. Below(Full(prev), counter')
    BY <1>8, <2>1 DEF Below
  <2> QED
    BY <1>1, <1>11, <2>2 DEF Exact, Below, Full
<1>12. ASSUME NEW a \in Askers, InOrder(a), Between(ask[a].body)
       PROVE  Between(ask[a].body)'
  <2>1. \A z \in Conns : ask[a].body[z] \in Nat /\ ask[a].body[z] <= counter[z]
    BY <1>12, BodyInOrder DEF Between, Below, Sents, InOrder
  <2>2. Below(ask[a].body, counter')
    BY <1>8, <2>1 DEF Below
  <2> QED
    BY <1>1, <1>12, <2>2 DEF Between, Below, Full
<1>13. \A a \in Askers : InOrder(a)' => InOrder(a)
  BY <1>1 DEF InOrder
<1>14. Balanced'
  BY <1>1, <1>9, <1>10, <1>11, <1>12, <1>13 DEF MetInv, Balanced
<1> QED
  BY <1>5, <1>6, <1>14 DEF MetInv

LEMMA MetReconnects ==
  ASSUME MetInv, NEW S, Reconnects(S)
  PROVE  MetInv'
<1>1. /\ counter \in [Conns -> Sents] /\ resets \in Nat /\ resets' = resets + 1
      /\ counter' = [c \in Conns |-> IF c \in S THEN 0 ELSE counter[c]]
      /\ UNCHANGED <<really, ask, prev, up, folds, clean>>
      /\ Full(prev) \in [Conns -> Sents] /\ up \in Nat /\ really \in Nat
  BY FullSum DEF MetInv, MetTypes, Reconnects, Sents
<1>2. 0 \in Sents
  BY MetAssumption DEF Sents
<1>3. counter' \in [Conns -> Sents] /\ \A z \in Conns : counter'[z] = 0 \/ counter'[z] = counter[z]
  BY <1>1, <1>2
<1>4. resets' \in Nat /\ resets' # 0
  BY <1>1
<1>5. MetTypes' /\ BodiesWhole'
  BY <1>1, <1>3, <1>4 DEF MetInv, MetTypes, BodiesWhole
<1>6. CountersSent'
  BY <1>1, <1>3 DEF MetInv, CountersSent
<1>7. ASSUME NEW w \in [Conns -> Sents]
      PROVE  /\ SumOf(Due(w, counter')) <= SumOf(Due(w, counter))
             /\ SumOf(Due(w, counter')) \in Nat /\ SumOf(Due(w, counter)) \in Nat
  BY <1>1, <1>3, DueOfReset, DueTypes
<1>8. ASSUME DueNow
      PROVE  DueNow'
  <2>1. up + SumOf(Due(Full(prev), counter')) <= really
    BY <1>1, <1>7, <1>8 DEF DueNow
  <2> QED
    BY <1>1, <2>1 DEF DueNow, Full, Due
<1>9. ASSUME NEW a \in Askers, InOrder(a), DueLater(ask[a].body)
      PROVE  DueLater(ask[a].body)'
  <2>1. ask[a].body \in [Conns -> Sents]
    BY <1>9, BodyInOrder DEF InOrder
  <2>2. SumOf(Due(Full(prev), ask[a].body)) \in Nat
    BY <1>1, <2>1, DueTypes
  <2>3. up + SumOf(Due(Full(prev), ask[a].body)) + SumOf(Due(ask[a].body, counter')) <= really
    BY <1>1, <1>7, <1>9, <2>1, <2>2 DEF DueLater
  <2> QED
    BY <1>1, <2>3 DEF DueLater, Full, Due
<1>10. \A a \in Askers : InOrder(a)' => InOrder(a)
  BY <1>1 DEF InOrder
<1>11. Balanced'
  BY <1>1, <1>4, <1>8, <1>9, <1>10 DEF MetInv, Balanced
<1> QED
  BY <1>5, <1>6, <1>11 DEF MetInv
LEMMA MetScrapes ==
  ASSUME MetInv, NEW a \in Askers, Scrapes(a)
  PROVE  MetInv'
<1>1. PICK S \in SUBSET Conns :
        ask' = [ask EXCEPT ![a] = [at |-> "fold", body |-> [c \in S |-> counter[c]], whole |-> S = Conns,
                                   before |-> folds]]
  BY DEF Scrapes
<1> DEFINE b == [c \in S |-> counter[c]]
           k == [at |-> "fold", body |-> b, whole |-> S = Conns, before |-> folds]
<1>2. /\ counter \in [Conns -> Sents] /\ folds \in Nat /\ ask \in [Askers -> AskRecs]
      /\ UNCHANGED <<counter, really, prev, up, folds, resets, clean>>
      /\ Full(prev) \in [Conns -> Sents] /\ up \in Nat /\ really \in Nat
  BY FullSum DEF MetInv, MetTypes, Scrapes, Sents
<1>3. b \in Bodies
  BY <1>2 DEF Bodies
<1>4. k \in AskRecs
  BY <1>2, <1>3 DEF AskRecs
<1>5. /\ ask' \in [Askers -> AskRecs] /\ ask'[a] = k
      /\ \A x \in Askers : x # a => ask'[x] = ask[x]
  BY <1>1, <1>2, <1>4
<1>6. MetTypes' /\ CountersSent'
  BY <1>2, <1>5 DEF MetInv, MetTypes, CountersSent
<1>7. BodiesWhole'
  <2>1. k.before <= folds
    BY <1>2
  <2>2. k.whole => DOMAIN k.body = Conns
    OBVIOUS
  <2> HIDE DEF k
  <2> QED
    BY <1>2, <1>5, <2>1, <2>2 DEF MetInv, BodiesWhole
<1>8. k.whole => k.body = counter
  BY <1>2
<1>9. DueNow => DueLater(counter)
  <2>1. SumOf(Due(counter, counter)) = 0 /\ SumOf(Due(Full(prev), counter)) \in Nat
    BY <1>2, DueOfSame, DueTypes
  <2> QED
    BY <1>2, <2>1 DEF DueNow, DueLater
<1>10. Exact => Between(counter)
  <2>1. \A z \in Conns : counter[z] \in Nat
    BY <1>2 DEF Sents
  <2> QED
    BY <2>1 DEF Exact, Between, Below
<1> HIDE DEF k
<1>11. ASSUME NEW x \in Askers, InOrder(x)'
       PROVE  ask'[x].body = counter \/ (InOrder(x) /\ ask'[x].body = ask[x].body)
  <2>1. CASE x = a
    BY <1>5, <1>8, <1>11, <2>1 DEF InOrder
  <2>2. CASE x # a
    BY <1>2, <1>5, <1>11, <2>2 DEF InOrder
  <2> QED
    BY <2>1, <2>2
<1>12. ASSUME clean, NEW x \in Askers, InOrder(x)'
       PROVE  DueLater(ask[x].body)' /\ (resets = 0 => Between(ask[x].body)')
  <2>1. DueNow /\ (resets = 0 => Exact)
    BY <1>12 DEF MetInv, Balanced
  <2>2. InOrder(x) => DueLater(ask[x].body) /\ (resets = 0 => Between(ask[x].body))
    BY <1>12 DEF MetInv, Balanced
  <2>3. DueLater(ask'[x].body) /\ (resets = 0 => Between(ask'[x].body))
    BY <1>9, <1>10, <1>11, <1>12, <2>1, <2>2
  <2> QED
    BY <1>2, <2>3 DEF DueLater, Between, Below, Full, Due
<1>13. (DueNow => DueNow') /\ (Exact => Exact')
  BY <1>2 DEF DueNow, Exact, Below, Full, Due
<1>14. Balanced'
  BY <1>2, <1>12, <1>13 DEF MetInv, Balanced
<1> QED
  BY <1>6, <1>7, <1>14 DEF MetInv

\* The fold: what was due at the body is counted, what is due after it remains.
LEMMA MetFolds ==
  ASSUME MetInv, NEW a \in Askers, Folds(a)
  PROVE  MetInv'
<1> DEFINE b == ask[a].body
           new == [c \in DOMAIN b |-> Delta(c, b[c])]
<1>1. /\ ask[a].at = "fold" /\ up' = up + SumOf(new) /\ prev' = b
      /\ clean' = (clean /\ ask[a].whole /\ ask[a].before = folds)
      /\ folds' = folds + 1 /\ ask' = [ask EXCEPT ![a] = NoAsk] /\ UNCHANGED <<counter, really, asks, resets>>
  BY DEF Folds
<1>2. /\ counter \in [Conns -> Sents] /\ folds \in Nat /\ ask \in [Askers -> AskRecs] /\ clean \in BOOLEAN
      /\ prev \in Bodies /\ b \in Bodies
      /\ Full(prev) \in [Conns -> Sents] /\ Full(b) \in [Conns -> Sents] /\ up \in Nat /\ really \in Nat
  BY FullSum DEF MetInv, MetTypes, Sents, AskRecs
<1>3. new \in Bodies
  <2>1. PICK S \in SUBSET Conns : b \in [S -> Sents]
    BY <1>2 DEF Bodies
  <2>2. ASSUME NEW c \in S
        PROVE  Delta(c, b[c]) \in Sents
    <3>1. Was(c) = Full(prev)[c]
      BY <2>1 DEF Was, Full
    <3>2. Was(c) \in Sents /\ b[c] \in Sents
      BY <1>2, <2>1, <3>1
    <3> QED
      BY <3>2, MetAssumption DEF Delta, Sents
  <2>3. new \in [S -> Sents]
    BY <2>1, <2>2
  <2> QED
    BY <2>3 DEF Bodies
<1>4. SumOf(new) \in Nat
  BY <1>3, FullSum, SumOfIsNumber
<1>5. /\ NoAsk \in AskRecs /\ NoAsk.at = "idle" /\ NoAsk.before = 0
  <2>1. Empty \in [{} -> Sents]
    BY DEF Empty
  <2>2. Empty \in Bodies
    BY <2>1 DEF Bodies
  <2> QED
    BY <2>2 DEF NoAsk, AskRecs
<1>6. /\ ask' \in [Askers -> AskRecs] /\ ask'[a].at = "idle" /\ ask'[a].before = 0
      /\ \A x \in Askers : x # a => ask'[x] = ask[x]
  BY <1>1, <1>2, <1>5
<1>7. MetTypes' /\ CountersSent'
  BY <1>1, <1>2, <1>4, <1>6 DEF MetInv, MetTypes, CountersSent
<1>8. \A x \in Askers : ask[x].before <= folds /\ ask[x].before \in Nat
  BY <1>2 DEF MetInv, BodiesWhole, AskRecs
<1>9. BodiesWhole' /\ \A x \in Askers : ~InOrder(x)'
  <2>1. ASSUME NEW x \in Askers
        PROVE  /\ ask'[x].before <= folds'
               /\ ask'[x].at = "fold" /\ ask'[x].whole => DOMAIN ask'[x].body = Conns
               /\ ~InOrder(x)'
    <3>1. CASE x = a
      BY <1>1, <1>2, <1>6, <3>1 DEF InOrder
    <3>2. CASE x # a
      <4>1. ask'[x] = ask[x] /\ folds' = folds + 1 /\ ask[x].before <= folds /\ ask[x].before \in Nat
        BY <1>1, <1>6, <1>8, <3>2
      <4>2. ask'[x].before <= folds' /\ ask'[x].before # folds'
        BY <1>2, <4>1
      <4> QED
        BY <4>1, <4>2 DEF MetInv, BodiesWhole, InOrder
    <3> QED
      BY <3>1, <3>2
  <2> QED
    BY <2>1 DEF BodiesWhole
<1>10. ASSUME clean'
       PROVE  DueNow' /\ (resets' = 0 => Exact')
  <2>1. clean /\ InOrder(a)
    BY <1>1, <1>2, <1>10 DEF InOrder
  <2>2. b \in [Conns -> Sents] /\ Full(b) = b
    BY <2>1, BodyInOrder DEF InOrder
  <2>3. new = Due(Full(prev), b)
    BY <2>2 DEF Delta, Was, Full, Due
  <2>4. DueLater(b) /\ (resets = 0 => Between(b) /\ Exact)
    BY <2>1 DEF MetInv, Balanced
  <2>5. SumOf(Due(Full(prev), b)) \in Nat /\ SumOf(Due(b, counter)) \in Nat
    BY <1>2, <2>2, DueTypes
  <2>6. up' = up + SumOf(Due(Full(prev), b)) /\ Full(prev)' = b
    BY <1>1, <2>2, <2>3 DEF Full
  <2> HIDE DEF b, new
  <2>7. up' + SumOf(Due(b, counter)) <= really
    BY <1>2, <2>4, <2>5, <2>6 DEF DueLater
  <2>8. DueNow'
    BY <1>1, <2>6, <2>7 DEF DueNow, Due
  <2>9. ASSUME resets' = 0
        PROVE  Exact'
    <3>1. Between(b) /\ Exact
      BY <1>1, <2>4, <2>9
    <3>2. SumOf(b) = SumOf(Full(prev)) + SumOf(Due(Full(prev), b))
      BY <1>2, <2>2, <3>1, DueOfGrown DEF Between
    <3>3. up' = SumOf(b)
      BY <2>6, <3>1, <3>2 DEF Exact
    <3> QED
      BY <1>1, <2>6, <3>1, <3>3 DEF Exact, Between, Below
  <2> QED
    BY <2>8, <2>9
<1> QED
  BY <1>7, <1>9, <1>10 DEF MetInv, Balanced

\* The metrics begin with nothing sent and nothing counted.
LEMMA MetBegins ==
  ASSUME MetInit
  PROVE  MetInv
<1>1. /\ counter = [c \in Conns |-> 0] /\ really = 0 /\ ask = [a \in Askers |-> NoAsk]
      /\ prev = Empty /\ up = 0 /\ folds = 0 /\ resets = 0 /\ clean = TRUE
  BY DEF MetInit
<1>2. 0 \in Sents
  BY MetAssumption DEF Sents
<1>3. counter \in [Conns -> Sents] /\ \A c \in Conns : counter[c] = 0
  BY <1>1, <1>2
<1>4. Empty \in Bodies /\ Full(Empty) = [c \in Conns |-> 0]
  <2>1. Empty \in [{} -> Sents] /\ DOMAIN Empty = {}
    BY DEF Empty
  <2> QED
    BY <2>1 DEF Bodies, Full
<1>5. NoAsk \in AskRecs /\ NoAsk.at = "idle" /\ NoAsk.before = 0
  BY <1>4 DEF NoAsk, AskRecs
<1>6. ask \in [Askers -> AskRecs] /\ \A a \in Askers : ask[a].at = "idle" /\ ask[a].before = 0
  BY <1>1, <1>5
<1>7. MetTypes /\ CountersSent /\ BodiesWhole
  BY <1>1, <1>2, <1>3, <1>4, <1>6 DEF MetTypes, CountersSent, BodiesWhole
<1>8. \A a \in Askers : ~InOrder(a)
  BY <1>6 DEF InOrder
<1>9. Full(prev) = counter
  BY <1>1, <1>4
<1>10. SumOf(Due(Full(prev), counter)) = 0 /\ SumOf(Full(prev)) = 0
  BY <1>3, <1>9, DueOfSame, SumOfZero
<1>11. DueNow
  BY <1>1, <1>10 DEF DueNow
<1>12. Exact
  BY <1>1, <1>3, <1>9, <1>10 DEF Exact, Below
<1> QED
  BY <1>7, <1>8, <1>11, <1>12 DEF MetInv, Balanced

\* However connections restart and requests overlap: as long as every scrape was whole
\* and folded in its turn, no byte is counted twice, and without restarts none is missed
\* up to the last scrape, for any connections and any number of requests.
THEOREM MetricsNotOvercounted == MetSpec => []NotOvercounted
<1>1. MetInit => MetInv
  BY MetBegins
<1>2. MetInv /\ [MetNext]_metVars => MetInv'
  <2>1. ASSUME MetInv, NEW a \in Askers, ScrapeFails(a)
        PROVE  MetInv'
    BY <2>1 DEF ScrapeFails, MetInv, MetTypes, CountersSent, BodiesWhole, Balanced, InOrder, DueNow, DueLater,
       Exact, Between, Below, Full, Due
  <2>2. ASSUME MetInv, UNCHANGED metVars
        PROVE  MetInv'
    BY <2>2 DEF metVars, MetInv, MetTypes, CountersSent, BodiesWhole, Balanced, InOrder, DueNow, DueLater,
       Exact, Between, Below, Full, Due
  <2> QED
    BY <2>1, <2>2, MetSends, MetReconnects, MetScrapes, MetFolds DEF MetNext
<1>3. MetInv => NotOvercounted
  <2>1. ASSUME MetInv, clean
        PROVE  up <= really
    <3>1. Full(prev) \in [Conns -> Sents] /\ counter \in [Conns -> Sents] /\ up \in Nat /\ really \in Nat
      BY <2>1, FullSum DEF MetInv, MetTypes, Sents
    <3>2. SumOf(Due(Full(prev), counter)) \in Nat
      BY <3>1, DueTypes
    <3>3. up + SumOf(Due(Full(prev), counter)) <= really
      BY <2>1 DEF MetInv, Balanced, DueNow
    <3> QED
      BY <3>1, <3>2, <3>3
  <2>2. ASSUME MetInv, clean, resets = 0
        PROVE  up = SumOf(prev)
    BY <2>2, FullSum DEF MetInv, MetTypes, Balanced, Exact
  <2> QED
    BY <2>1, <2>2 DEF NotOvercounted
<1> QED
  BY <1>1, <1>2, <1>3, PTL DEF MetSpec

-----------------------------------------------------------------------------
(* The QUIC sniffer. *)

\* Every set of numbers that is not empty has a least one ...
LEMMA LeastNat ==
  ASSUME NEW T \in SUBSET Nat, T # {}
  PROVE  \E m \in T : \A k \in T : m <= k
<1> DEFINE R == {ss \in Nat \X Nat : ss[1] < ss[2]}
<1>1. IsWellFoundedOn(R, Nat)
  BY NatLessThanWellFounded DEF OpToRel
<1> HIDE DEF R
<1>2. PICK x \in T : \A y \in T : ~ (<<y, x>> \in R)
  BY <1>1, WFMin
<1>3. \A y \in T : ~(y < x)
  BY <1>2 DEF R
<1> QED
  BY <1>3

\* ... and a greatest one, when there is a bound.
LEMMA GreatestNat ==
  ASSUME NEW n \in Nat, NEW T \in SUBSET (0 .. n), T # {}
  PROVE  \E m \in T : \A k \in T : k <= m
<1> DEFINE S == {i \in 0 .. n : n - i \in T}
<1>1. PICK m0 \in T : TRUE
  OBVIOUS
<1>2. n - m0 \in S
  BY <1>1
<1>3. PICK i \in S : \A j \in S : i <= j
  <2>1. S \subseteq Nat
    OBVIOUS
  <2> HIDE DEF S
  <2>2. S \in SUBSET Nat /\ S # {}
    BY <1>2, <2>1
  <2> QED
    BY <2>2, LeastNat
<1>4. \A k \in T : n - k \in S /\ k \in 0 .. n
  OBVIOUS
<1>5. n - i \in T /\ \A k \in T : k <= n - i
  BY <1>3, <1>4
<1> QED
  BY <1>5

\* What can be kept of a hello: pieces that lie in it.
Kepts == {kept \in UNION {[D -> 1 .. HelloLen] : D \in SUBSET (0 .. HelloLen - 1)} :
            \A o \in DOMAIN kept : o + kept[o] <= HelloLen}
Piece(kept, o) == [off |-> o, len |-> kept[o]]
PiecesOf(kept) == {Piece(kept, o) : o \in DOMAIN kept}
Apart(C) == \A f, g \in C : f = g \/ Cells(f) \cap Cells(g) = {}

LEMMA KeptTypes ==
  ASSUME NEW kept \in Kepts
  PROVE  /\ DOMAIN kept \in SUBSET (0 .. HelloLen - 1) /\ IsFiniteSet(DOMAIN kept)
         /\ kept \in [DOMAIN kept -> 0 .. MaxCrypto]
         /\ \A o \in DOMAIN kept : kept[o] \in Nat /\ kept[o] >= 1 /\ o \in Nat /\ o + kept[o] <= HelloLen
         /\ KeptCells(kept) = Units(MaxCrypto, kept) /\ IsFiniteSet(KeptCells(kept))
         /\ KeptLength(kept) = SumTo(MaxCrypto, kept) /\ KeptLength(kept) \in Nat
<1>1. HelloLen \in Nat /\ MaxCrypto \in Nat /\ HelloLen <= MaxCrypto
  BY QuicAssumption
<1>2. PICK D \in SUBSET (0 .. HelloLen - 1) : kept \in [D -> 1 .. HelloLen]
  BY DEF Kepts
<1>3. DOMAIN kept = D /\ \A o \in D : kept[o] \in 1 .. HelloLen /\ o + kept[o] <= HelloLen
  BY <1>2 DEF Kepts
<1>4. IsFiniteSet(0 .. HelloLen - 1)
  BY <1>1, FS_Interval
<1>5. IsFiniteSet(D)
  BY <1>4, FS_Subset
<1>6. kept \in [D -> 0 .. MaxCrypto]
  BY <1>1, <1>2
<1>7. KeptCells(kept) = Units(MaxCrypto, kept)
  BY DEF KeptCells, Units
<1>8. IsFiniteSet(Units(MaxCrypto, kept)) /\ SumTo(MaxCrypto, kept) \in Nat
  BY <1>1, <1>5, <1>6, SumIsNumber
<1>9. \A o \in D : o \in Nat
  BY <1>1
<1> QED
  BY <1>1, <1>3, <1>5, <1>6, <1>7, <1>8, <1>9 DEF KeptLength, SumTo

LEMMA PieceCells ==
  ASSUME NEW kept \in Kepts, NEW o \in DOMAIN kept
  PROVE  Cells(Piece(kept, o)) = o .. o + kept[o] - 1 /\ Piece(kept, o) \in Frames
<1>1. kept[o] \in 1 .. HelloLen /\ o \in 0 .. HelloLen - 1 /\ o + kept[o] <= HelloLen
  BY DEF Kepts
<1> QED
  BY <1>1 DEF Cells, Piece, Frames

\* A piece in the place of the one of its offset, or of none.
LEMMA KeepChanges ==
  ASSUME NEW kept \in Kepts, NEW f \in Frames
  PROVE  LET old == IF f.off \in DOMAIN kept THEN kept[f.off] ELSE 0
         IN  /\ Keep(kept, f) \in Kepts /\ DOMAIN Keep(kept, f) = (DOMAIN kept) \cup {f.off}
             /\ Keep(kept, f)[f.off] = f.len
             /\ \A o \in DOMAIN kept : o # f.off => Keep(kept, f)[o] = kept[o]
             /\ KeptLength(Keep(kept, f)) = KeptLength(kept) - old + f.len
<1> DEFINE old == IF f.off \in DOMAIN kept THEN kept[f.off] ELSE 0
           new == Keep(kept, f)
           rest == {b \in Units(MaxCrypto, kept) : b[1] # f.off}
<1>1. HelloLen \in Nat /\ MaxCrypto \in Nat /\ HelloLen <= MaxCrypto
  BY QuicAssumption
<1>2. f.off \in 0 .. HelloLen - 1 /\ f.len \in 1 .. HelloLen /\ f.off + f.len <= HelloLen
  BY DEF Frames
<1>3. /\ DOMAIN new = (DOMAIN kept) \cup {f.off} /\ new[f.off] = f.len
      /\ \A o \in DOMAIN kept : o # f.off => new[o] = kept[o]
  BY DEF Keep
<1>4. new \in Kepts
  <2>1. DOMAIN kept \in SUBSET (0 .. HelloLen - 1)
    BY KeptTypes
  <2>2. \A o \in DOMAIN kept : kept[o] \in 1 .. HelloLen /\ o + kept[o] <= HelloLen
    BY DEF Kepts
  <2>3. \A o \in DOMAIN new : new[o] \in 1 .. HelloLen /\ o + new[o] <= HelloLen
    BY <1>2, <1>3, <2>2
  <2>4. new = [o \in DOMAIN new |-> new[o]]
    BY DEF Keep
  <2>5. DOMAIN new \in SUBSET (0 .. HelloLen - 1)
    BY <1>2, <1>3, <2>1
  <2> HIDE DEF new
  <2>6. new \in [DOMAIN new -> 1 .. HelloLen]
    BY <2>3, <2>4
  <2> QED
    BY <2>3, <2>5, <2>6 DEF Kepts
<1>5. {b \in Units(MaxCrypto, new) : b[1] # f.off} = rest
  BY <1>3 DEF Units
<1> HIDE DEF new
<1>6. SumTo(MaxCrypto, new) = Cardinality(rest) + f.len /\ Cardinality(rest) \in Nat
  <2>1. /\ new \in [DOMAIN new -> 0 .. MaxCrypto] /\ IsFiniteSet(DOMAIN new) /\ f.off \in DOMAIN new
    BY <1>3, <1>4, KeptTypes
  <2> HIDE DEF rest
  <2> QED
    BY <1>1, <1>3, <1>5, <2>1, SumSplits
<1>7. SumTo(MaxCrypto, kept) = Cardinality(rest) + old
  <2>1. CASE f.off \in DOMAIN kept
    <3>1. /\ kept \in [DOMAIN kept -> 0 .. MaxCrypto] /\ IsFiniteSet(DOMAIN kept)
      BY KeptTypes
    <3> QED
      BY <1>1, <2>1, <3>1, SumSplits
  <2>2. CASE f.off \notin DOMAIN kept
    <3>1. rest = Units(MaxCrypto, kept)
      BY <2>2 DEF Units
    <3> QED
      BY <1>6, <2>2, <3>1 DEF SumTo
  <2> QED
    BY <2>1, <2>2
<1>8. old \in Nat /\ f.len \in Nat
  BY <1>2, KeptTypes
<1>9. KeptLength(new) = SumTo(MaxCrypto, new) /\ KeptLength(kept) = SumTo(MaxCrypto, kept)
  BY <1>4, KeptTypes
<1> HIDE DEF old, rest
<1>10. KeptLength(new) = KeptLength(kept) - old + f.len
  BY <1>6, <1>7, <1>8, <1>9
<1> QED
  BY <1>3, <1>4, <1>10 DEF new, old

LEMMA CellTypes ==
  ASSUME NEW kept \in Kepts, NEW b \in KeptCells(kept)
  PROVE  /\ b[1] \in DOMAIN kept /\ b[1] \in Nat /\ b[2] \in Nat /\ b[2] >= 1 /\ b[2] <= kept[b[1]]
         /\ b = <<b[1], b[2]>> /\ b[1] + b[2] - 1 \in Cells(Piece(kept, b[1]))
<1>1. b[1] \in DOMAIN kept /\ b[2] \in 1 .. MaxCrypto /\ b[2] <= kept[b[1]] /\ b = <<b[1], b[2]>>
  BY DEF KeptCells
<1>2. MaxCrypto \in Nat
  BY QuicAssumption
<1>3. b[1] \in Nat /\ kept[b[1]] \in Nat
  BY <1>1, KeptTypes
<1>4. b[2] \in Nat /\ b[2] >= 1
  BY <1>1, <1>2
<1>5. b[1] + b[2] - 1 \in b[1] .. b[1] + kept[b[1]] - 1
  BY <1>1, <1>3, <1>4
<1> QED
  BY <1>1, <1>3, <1>4, <1>5, PieceCells

\* The cells of pieces that are apart, up to a place in none of them, are as many as
\* the places of the hello they fill.
LEMMA CellsArePlaces ==
  ASSUME NEW kept \in Kepts, Apart(PiecesOf(kept)), NEW m \in 0 .. HelloLen,
         \A o \in DOMAIN kept : o < m => o + kept[o] <= m
  PROVE  LET below == {b \in KeptCells(kept) : b[1] < m}
         IN  /\ Cardinality(below) <= m
             /\ (\A x \in 0 .. m - 1 : \E o \in DOMAIN kept : x \in Cells(Piece(kept, o)))
                => Cardinality(below) = m
<1> DEFINE below == {b \in KeptCells(kept) : b[1] < m}
           place == [b \in below |-> b[1] + b[2] - 1]
<1>1. m \in Nat
  BY QuicAssumption
<1>2. IsFiniteSet(0 .. m - 1) /\ Cardinality(0 .. m - 1) = m
  <2>1. 0 \in Int /\ m - 1 \in Int /\ (m - 1) - 0 + 1 = m /\ (0 > m - 1 => m = 0)
    BY <1>1
  <2> QED
    BY <2>1, FS_Interval
<1>3. \A b \in below : /\ b \in KeptCells(kept) /\ b[1] \in DOMAIN kept /\ b[1] \in Nat /\ b[2] \in Nat
                       /\ b[2] >= 1 /\ b[2] <= kept[b[1]] /\ kept[b[1]] \in Nat /\ b = <<b[1], b[2]>>
                       /\ b[1] < m /\ b[1] + kept[b[1]] <= m
  BY CellTypes, KeptTypes
<1>4. \A b \in below : b[1] + b[2] - 1 \in 0 .. m - 1
  BY <1>1, <1>3
<1>5. ASSUME NEW b \in below, NEW d \in below, b[1] + b[2] - 1 = d[1] + d[2] - 1
      PROVE  b = d
  <2>1. /\ b[1] + b[2] - 1 \in Cells(Piece(kept, b[1])) /\ d[1] + d[2] - 1 \in Cells(Piece(kept, d[1]))
        /\ b[1] \in DOMAIN kept /\ d[1] \in DOMAIN kept
    BY <1>3, CellTypes
  <2>2. Piece(kept, b[1]) \in PiecesOf(kept) /\ Piece(kept, d[1]) \in PiecesOf(kept)
    BY <2>1 DEF PiecesOf
  <2>3. Piece(kept, b[1]) = Piece(kept, d[1])
    BY <1>5, <2>1, <2>2 DEF Apart
  <2>4. b[1] = d[1]
    <3>1. Piece(kept, b[1]).off = b[1] /\ Piece(kept, d[1]).off = d[1]
      BY DEF Piece
    <3> QED
      BY <2>3, <3>1
  <2>5. b[2] = d[2]
    <3>1. b[1] \in Nat /\ b[2] \in Nat /\ d[2] \in Nat /\ b[1] + b[2] - 1 = b[1] + d[2] - 1
      BY <1>3, <1>5, <2>4
    <3>2. \A i, j, k \in Nat : i + j - 1 = i + k - 1 => j = k
      OBVIOUS
    <3> QED
      BY <3>1, <3>2
  <2> QED
    BY <1>3, <2>4, <2>5
<1>6. place \in Injection(below, 0 .. m - 1)
  <2>1. place \in [below -> 0 .. m - 1]
    BY <1>4
  <2>2. \A b, d \in below : place[b] = place[d] => b = d
    BY <1>5
  <2> HIDE DEF place, below
  <2> QED
    BY <2>1, <2>2 DEF Injection, IsInjective
<1>7. ASSUME \A x \in 0 .. m - 1 : \E o \in DOMAIN kept : x \in Cells(Piece(kept, o))
      PROVE  place \in Surjection(below, 0 .. m - 1)
  <2>1. ASSUME NEW x \in 0 .. m - 1
        PROVE  \E b \in below : place[b] = x
    <3>1. PICK o \in DOMAIN kept : x \in Cells(Piece(kept, o))
      BY <1>7
    <3>2. x \in o .. o + kept[o] - 1 /\ o \in Nat /\ kept[o] \in Nat /\ o + kept[o] <= HelloLen
      BY <3>1, PieceCells, KeptTypes
    <3>3. x - o + 1 \in 1 .. MaxCrypto /\ x - o + 1 <= kept[o] /\ o < m /\ o + (x - o + 1) - 1 = x
      BY <1>1, <3>2, QuicAssumption
    <3>4. <<o, x - o + 1>> \in below
      BY <3>1, <3>3 DEF KeptCells
    <3> QED
      BY <3>3, <3>4
  <2>2. place \in [below -> 0 .. m - 1]
    BY <1>4
  <2> HIDE DEF place, below
  <2> QED
    BY <2>1, <2>2 DEF Surjection
<1> HIDE DEF place, below
<1>8. Cardinality(below) <= m
  BY <1>2, <1>6, FS_Injection
<1>9. ASSUME \A x \in 0 .. m - 1 : \E o \in DOMAIN kept : x \in Cells(Piece(kept, o))
      PROVE  Cardinality(below) = m
  BY <1>2, <1>6, <1>7, <1>9, FS_Injection
<1> QED
  BY <1>8, <1>9 DEF below

\* All cells lie below the end of the hello.
LEMMA CellsBelowEnd ==
  ASSUME NEW kept \in Kepts
  PROVE  KeptCells(kept) = {b \in KeptCells(kept) : b[1] < HelloLen}
<1>1. \A b \in KeptCells(kept) : b[1] \in 0 .. HelloLen - 1 /\ HelloLen \in Nat
  BY CellTypes, KeptTypes, QuicAssumption
<1>2. \A b \in KeptCells(kept) : b[1] < HelloLen
  BY <1>1
<1> QED
  BY <1>2

\* Pieces that are apart fit in the hello ...
LEMMA ApartFits ==
  ASSUME NEW kept \in Kepts, Apart(PiecesOf(kept))
  PROVE  KeptLength(kept) <= HelloLen
<1>1. HelloLen \in 0 .. HelloLen
  BY QuicAssumption
<1>2. \A o \in DOMAIN kept : o + kept[o] <= HelloLen
  BY KeptTypes
<1>3. Cardinality({b \in KeptCells(kept) : b[1] < HelloLen}) <= HelloLen
  BY <1>1, <1>2, CellsArePlaces
<1> QED
  BY <1>3, CellsBelowEnd DEF KeptLength

\* ... and are the whole hello when they leave no place empty.
LEMMA FullIsWhole ==
  ASSUME NEW kept \in Kepts, Apart(PiecesOf(kept)),
         \A x \in 0 .. HelloLen - 1 : \E o \in DOMAIN kept : x \in Cells(Piece(kept, o))
  PROVE  Whole(kept)
<1>1. HelloLen \in 0 .. HelloLen /\ HelloLen \in Nat
  BY QuicAssumption
<1>2. \A o \in DOMAIN kept : o + kept[o] <= HelloLen
  BY KeptTypes
<1>3. Cardinality({b \in KeptCells(kept) : b[1] < HelloLen}) = HelloLen
  BY <1>1, <1>2, CellsArePlaces
<1>4. KeptLength(kept) = HelloLen
  BY <1>3, CellsBelowEnd DEF KeptLength
<1>5. ASSUME NEW o \in DOMAIN kept
      PROVE  o = LengthBefore(kept, o)
  <2>1. o \in Nat /\ kept[o] \in Nat /\ kept[o] >= 1 /\ o + kept[o] <= HelloLen
    BY KeptTypes
  <2>2. o \in Cells(Piece(kept, o)) /\ o \in 0 .. HelloLen
    BY <1>1, <2>1, PieceCells
  <2>3. ASSUME NEW q \in DOMAIN kept, q < o
        PROVE  q + kept[q] <= o
    <3>1. q \in Nat /\ kept[q] \in Nat
      BY KeptTypes
    <3>2. Piece(kept, q) \in PiecesOf(kept) /\ Piece(kept, o) \in PiecesOf(kept)
      BY DEF PiecesOf
    <3>3. Piece(kept, q) # Piece(kept, o)
      <4>1. Piece(kept, q).off = q /\ Piece(kept, o).off = o
        BY DEF Piece
      <4> QED
        BY <2>1, <2>3, <3>1, <4>1
    <3>4. o \notin Cells(Piece(kept, q))
      BY <2>2, <3>2, <3>3 DEF Apart
    <3>5. o \notin q .. q + kept[q] - 1
      BY <3>4, PieceCells
    <3> QED
      BY <2>1, <2>3, <3>1, <3>5
  <2>4. ASSUME NEW x \in 0 .. o - 1
        PROVE  \E q \in DOMAIN kept : x \in Cells(Piece(kept, q))
    <3>1. x \in 0 .. HelloLen - 1
      BY <1>1, <2>1
    <3> QED
      BY <3>1
  <2>5. Cardinality({b \in KeptCells(kept) : b[1] < o}) = o
    BY <2>2, <2>3, <2>4, CellsArePlaces
  <2> QED
    BY <2>5 DEF LengthBefore
<1> QED
  BY <1>1, <1>4, <1>5 DEF Whole

\* Conversely the whole hello has no hole.
LEMMA WholeIsFull ==
  ASSUME NEW kept \in Kepts, Whole(kept), NEW x \in 0 .. HelloLen - 1
  PROVE  \E o \in DOMAIN kept : x \in Cells(Piece(kept, o))
<1> DEFINE from == {o \in DOMAIN kept : o <= x}
           after == {o \in DOMAIN kept : o > x}
<1>1. HelloLen \in Nat \ {0} /\ MaxCrypto \in Nat /\ x \in Nat /\ x < HelloLen
  BY QuicAssumption
<1>2. /\ \A o \in DOMAIN kept : o = LengthBefore(kept, o)
      /\ KeptLength(kept) >= HelloLen /\ KeptLength(kept) \in Nat
  BY KeptTypes DEF Whole
<1>3. DOMAIN kept \in SUBSET Nat /\ \A o \in DOMAIN kept : kept[o] \in Nat /\ kept[o] >= 1
  BY KeptTypes
\* The cells of the pieces up to a number end where the next piece begins, or all.
<1>4. ASSUME NEW n, NEW B, B = {b \in KeptCells(kept) : b[1] <= x}, n = Cardinality(B), n <= x
      PROVE  FALSE
  <2>1. CASE after = {}
    <3>1. KeptCells(kept) = B
      BY <1>1, <1>3, <1>4, <2>1, CellTypes
    <3>2. KeptLength(kept) = n
      BY <1>4, <3>1 DEF KeptLength
    <3>3. n \in Nat /\ n >= HelloLen /\ n <= x
      BY <1>2, <1>4, <3>2
    <3> QED
      BY <1>1, <3>3
  <2>2. CASE after # {}
    <3>1. after \in SUBSET Nat
      BY <1>3
    <3> HIDE DEF after
    <3>2. PICK m \in after : \A o \in after : m <= o
      BY <2>2, <3>1, LeastNat
    <3>3. m \in DOMAIN kept /\ m > x /\ m \in Nat
      BY <1>3, <3>2 DEF after
    <3>4. \A b \in KeptCells(kept) : b[1] < m <=> b[1] <= x
      <4>1. ASSUME NEW b \in KeptCells(kept)
            PROVE  b[1] < m <=> b[1] <= x
        <5>1. b[1] \in DOMAIN kept /\ b[1] \in Nat
          BY CellTypes
        <5>2. b[1] > x => m <= b[1]
          BY <3>2, <5>1 DEF after
        <5> QED
          BY <1>1, <3>3, <5>1, <5>2
      <4> QED
        BY <4>1
    <3>5. {b \in KeptCells(kept) : b[1] < m} = B
      BY <1>4, <3>4
    <3>6. LengthBefore(kept, m) = n
      BY <1>4, <3>5 DEF LengthBefore
    <3>7. m = n
      BY <1>2, <3>3, <3>6
    <3> QED
      BY <1>1, <1>4, <3>3, <3>7
  <2> QED
    BY <2>1, <2>2
<1>5. from # {}
  <2>1. SUFFICES ASSUME from = {}
                 PROVE  FALSE
    OBVIOUS
  <2>2. {b \in KeptCells(kept) : b[1] <= x} = {}
    BY <2>1, CellTypes
  <2>3. Cardinality({b \in KeptCells(kept) : b[1] <= x}) = 0
    BY <2>2, FS_EmptySet
  <2> QED
    BY <1>1, <1>4, <2>3
<1>6. PICK o \in from : \A q \in from : q <= o
  <2>1. from \in SUBSET (0 .. x)
    BY <1>1, <1>3
  <2> HIDE DEF from
  <2> QED
    BY <1>1, <1>5, <2>1, GreatestNat
<1>7. o \in DOMAIN kept /\ o \in Nat /\ o <= x /\ kept[o] \in Nat /\ kept[o] <= MaxCrypto
  BY <1>3, <1>6, KeptTypes
<1>8. Cardinality({b \in KeptCells(kept) : b[1] <= x}) = o + kept[o]
  <2> DEFINE before == {b \in KeptCells(kept) : b[1] < o}
             own == {o} \X (1 .. kept[o])
  <2>1. IsFiniteSet(own) /\ Cardinality(own) = kept[o]
    BY <1>7, ColumnCounts
  <2>2. IsFiniteSet(before) /\ Cardinality(before) = o
    <3>1. before \in SUBSET KeptCells(kept) /\ IsFiniteSet(KeptCells(kept))
      BY KeptTypes
    <3>2. LengthBefore(kept, o) = Cardinality(before)
      BY DEF LengthBefore
    <3> QED
      BY <1>2, <1>7, <3>1, <3>2, FS_Subset
  <2>3. before \cap own = {}
    BY <1>7
  <2>4. {b \in KeptCells(kept) : b[1] <= x} = before \cup own
    <3>1. ASSUME NEW b \in KeptCells(kept), b[1] <= x
          PROVE  b \in before \cup own
      <4>1. b[1] \in DOMAIN kept /\ b[1] \in Nat /\ b[2] \in Nat /\ b[2] >= 1 /\ b[2] <= kept[b[1]]
            /\ b = <<b[1], b[2]>>
        BY CellTypes
      <4>2. b[1] <= o
        BY <1>6, <3>1, <4>1
      <4>3. CASE b[1] = o
        BY <1>7, <4>1, <4>3
      <4>4. CASE b[1] < o
        BY <4>4
      <4> QED
        BY <1>7, <4>1, <4>2, <4>3, <4>4
    <3>2. ASSUME NEW k \in 1 .. kept[o]
          PROVE  <<o, k>> \in KeptCells(kept)
      <4>1. k \in 1 .. MaxCrypto /\ k <= kept[o]
        BY <1>1, <1>7
      <4> QED
        BY <1>7, <4>1 DEF KeptCells
    <3>3. ASSUME NEW b \in before
          PROVE  b \in KeptCells(kept) /\ b[1] <= x
      <4>1. b[1] \in Nat /\ b[1] < o
        BY CellTypes
      <4> QED
        BY <1>1, <1>7, <4>1
    <3> QED
      BY <1>7, <3>1, <3>2, <3>3
  <2> HIDE DEF before, own
  <2>5. Cardinality(before \cap own) = 0
    BY <2>3, FS_EmptySet
  <2>6. Cardinality(before \cup own) = Cardinality(before) + Cardinality(own) - Cardinality(before \cap own)
    BY <2>1, <2>2, FS_Union
  <2>7. Cardinality(before \cup own) = o + kept[o] - 0
    BY <2>1, <2>2, <2>5, <2>6
  <2>8. o + kept[o] - 0 = o + kept[o]
    BY <1>7
  <2> QED
    BY <2>4, <2>7, <2>8
<1>9. o + kept[o] > x
  BY <1>1, <1>4, <1>7, <1>8
<1>10. x \in o .. o + kept[o] - 1
  BY <1>1, <1>7, <1>9
<1> QED
  BY <1>7, <1>10, PieceCells

\* A buffer: its account is right and it keeps within its bounds, and one that gave up
\* is empty.  b holds the frames taken so far, of all those that are to come: its pieces
\* are some of all and, when all are of one cut, it has those that were taken.
Bufs == {b \in [kept : Kepts, total : Nat, full : BOOLEAN] :
           /\ b.total = KeptLength(b.kept) /\ b.total <= MaxCrypto
           /\ Cardinality(DOMAIN b.kept) <= MaxPieces
           /\ b.full => b.kept = NoPieces /\ b.total = 0}
InOneCut(all) == Apart(all) /\ Cardinality(all) <= MaxPieces
Holds(b, had, all) ==
  /\ b \in Bufs /\ PiecesOf(b.kept) \subseteq all
  /\ InOneCut(all) => ~b.full /\ had \subseteq PiecesOf(b.kept)

LEMMA FramesFinite ==
  ASSUME NEW C \in SUBSET Frames
  PROVE  IsFiniteSet(C)
<1> DEFINE S == (0 .. HelloLen - 1) \X (1 .. HelloLen)
           T == {f \in [off : 0 .. HelloLen - 1, len : 1 .. HelloLen] : TRUE}
           pair == [p \in S |-> [off |-> p[1], len |-> p[2]]]
<1>1. IsFiniteSet(0 .. HelloLen - 1) /\ IsFiniteSet(1 .. HelloLen)
  BY QuicAssumption, FS_Interval
<1>2. IsFiniteSet(S)
  BY <1>1, FS_Product
<1>3. pair \in [S -> T]
  OBVIOUS
<1>4. ASSUME NEW t \in T
      PROVE  \E p \in S : pair[p] = t
  <2>1. <<t.off, t.len>> \in S /\ t = [off |-> t.off, len |-> t.len]
    OBVIOUS
  <2>2. pair[<<t.off, t.len>>] = t
    BY <2>1
  <2> QED
    BY <2>1, <2>2
<1>5. C \in SUBSET T
  BY DEF Frames
<1> HIDE DEF pair, S, T
<1>6. pair \in Surjection(S, T)
  BY <1>3, <1>4 DEF Surjection
<1>7. IsFiniteSet(T)
  BY <1>2, <1>6, FS_Surjection
<1> QED
  BY <1>5, <1>7, FS_Subset

\* There are no more pieces than frames they come from.
LEMMA PiecesFew ==
  ASSUME NEW kept \in Kepts, NEW C \in SUBSET Frames, PiecesOf(kept) \subseteq C
  PROVE  Cardinality(DOMAIN kept) <= Cardinality(C)
<1> DEFINE piece == [o \in DOMAIN kept |-> Piece(kept, o)]
<1>1. piece \in [DOMAIN kept -> C]
  BY DEF PiecesOf
<1>2. ASSUME NEW o \in DOMAIN kept, NEW q \in DOMAIN kept, piece[o] = piece[q]
      PROVE  o = q
  <2>1. Piece(kept, o).off = o /\ Piece(kept, q).off = q
    BY DEF Piece
  <2> QED
    BY <1>2, <2>1
<1> HIDE DEF piece
<1>3. piece \in Injection(DOMAIN kept, C)
  BY <1>1, <1>2 DEF Injection, IsInjective
<1> QED
  BY <1>3, FramesFinite, FS_Injection

\* The pieces after another is kept.
LEMMA PiecesOfKeep ==
  ASSUME NEW kept \in Kepts, NEW f \in Frames
  PROVE  PiecesOf(Keep(kept, f)) = {Piece(kept, o) : o \in (DOMAIN kept) \ {f.off}} \cup {f}
<1> DEFINE new == Keep(kept, f)
<1>1. /\ DOMAIN new = (DOMAIN kept) \cup {f.off} /\ new[f.off] = f.len
      /\ \A o \in DOMAIN kept : o # f.off => new[o] = kept[o]
  BY KeepChanges
<1>2. f = [off |-> f.off, len |-> f.len]
  BY DEF Frames
<1> HIDE DEF new
<1>3. Piece(new, f.off) = f
  BY <1>1, <1>2 DEF Piece
<1>4. \A o \in (DOMAIN kept) \ {f.off} : Piece(new, o) = Piece(kept, o)
  BY <1>1 DEF Piece
<1>5. PiecesOf(new) = {Piece(kept, o) : o \in (DOMAIN kept) \ {f.off}} \cup {f}
  BY <1>1, <1>3, <1>4 DEF PiecesOf
<1> QED
  BY <1>5 DEF new

LEMMA ApartPart ==
  ASSUME NEW C, Apart(C), NEW D \in SUBSET C
  PROVE  Apart(D)
BY DEF Apart

\* Frames of one cut that begin together are the same.
LEMMA ApartDiffer ==
  ASSUME NEW C \in SUBSET Frames, Apart(C), NEW f \in C, NEW g \in C, f.off = g.off
  PROVE  f = g
<1>1. /\ f.off \in 0 .. HelloLen - 1 /\ f.len \in 1 .. HelloLen /\ g.len \in 1 .. HelloLen
  BY DEF Frames
<1>2. f.off \in f.off .. f.off + f.len - 1 /\ f.off \in g.off .. g.off + g.len - 1
  BY <1>1, QuicAssumption
<1>3. f.off \in Cells(f) \cap Cells(g)
  BY <1>2 DEF Cells
<1> QED
  BY <1>3 DEF Apart

\* A buffer that gave up keeps nothing.
LEMMA OverflownTypes == Overflown \in Bufs /\ PiecesOf(Overflown.kept) = {} /\ Overflown.full
<1>1. NoPieces \in Kepts /\ DOMAIN NoPieces = {}
  <2>1. NoPieces \in [{} -> 1 .. HelloLen] /\ DOMAIN NoPieces = {} /\ {} \in SUBSET (0 .. HelloLen - 1)
    BY DEF NoPieces
  <2> QED
    BY <2>1 DEF Kepts
<1>2. KeptCells(NoPieces) = {}
  BY <1>1 DEF KeptCells
<1>3. KeptLength(NoPieces) = 0 /\ Cardinality(DOMAIN NoPieces) = 0
  BY <1>1, <1>2, FS_EmptySet DEF KeptLength
<1>4. 0 <= MaxCrypto /\ 0 <= MaxPieces
  BY QuicAssumption
<1> QED
  BY <1>1, <1>3, <1>4 DEF Overflown, Bufs, PiecesOf

\* One frame of the session taken.
LEMMA IngestHolds ==
  ASSUME NEW all \in SUBSET Frames, NEW had, NEW b, Holds(b, had, all), NEW f \in all
  PROVE  Holds(Ingest(b, f), had \cup {f}, all)
<1> DEFINE old == IF f.off \in DOMAIN b.kept THEN b.kept[f.off] ELSE 0
           total == b.total - old + f.len
           new == Keep(b.kept, f)
<1>1. /\ b.kept \in Kepts /\ b.total = KeptLength(b.kept) /\ b.total \in Nat /\ b.full \in BOOLEAN
      /\ Cardinality(DOMAIN b.kept) <= MaxPieces /\ b \in Bufs /\ f \in Frames
  BY DEF Holds, Bufs
<1>2. /\ new \in Kepts /\ DOMAIN new = (DOMAIN b.kept) \cup {f.off} /\ KeptLength(new) = total
      /\ PiecesOf(new) = {Piece(b.kept, o) : o \in (DOMAIN b.kept) \ {f.off}} \cup {f}
  <2>1. PiecesOf(new) = {Piece(b.kept, o) : o \in (DOMAIN b.kept) \ {f.off}} \cup {f}
    BY <1>1, PiecesOfKeep
  <2>2. /\ new \in Kepts /\ DOMAIN new = (DOMAIN b.kept) \cup {f.off}
        /\ KeptLength(new) = KeptLength(b.kept) - old + f.len
    BY <1>1, KeepChanges
  <2> HIDE DEF new, old
  <2> QED
    BY <1>1, <2>1, <2>2
<1>3. PiecesOf(new) \subseteq all
  BY <1>2 DEF Holds, PiecesOf
<1>4. CASE b.full \/ (f.off \in DOMAIN b.kept /\ old = f.len)
  <2>1. Ingest(b, f) = b
    BY <1>4 DEF Ingest
  <2>2. ASSUME InOneCut(all)
        PROVE  f \in PiecesOf(b.kept)
    <3>1. ~b.full
      BY <2>2 DEF Holds
    <3>2. f.off \in DOMAIN b.kept /\ b.kept[f.off] = f.len /\ f = [off |-> f.off, len |-> f.len]
      BY <1>1, <1>4, <3>1 DEF Frames
    <3> QED
      BY <3>2 DEF PiecesOf, Piece
  <2> QED
    BY <2>1, <2>2 DEF Holds
<1>5. CASE /\ ~(b.full \/ (f.off \in DOMAIN b.kept /\ old = f.len))
           /\ (f.off \notin DOMAIN b.kept /\ Cardinality(DOMAIN b.kept) >= MaxPieces) \/ total > MaxCrypto
  <2>1. Ingest(b, f) = Overflown
    BY <1>5 DEF Ingest
  <2>2. ASSUME InOneCut(all)
        PROVE  FALSE
    <3>1. Apart(PiecesOf(new))
      BY <1>3, <2>2, ApartPart DEF InOneCut
    <3>2. total <= HelloLen /\ total \in Nat
      BY <1>2, <3>1, ApartFits, KeptTypes
    <3>3. total <= MaxCrypto
      BY <3>2, QuicAssumption
    <3>4. f.off \notin DOMAIN b.kept /\ Cardinality(DOMAIN b.kept) >= MaxPieces
      BY <1>5, <3>2, <3>3, QuicAssumption
    <3>5. Cardinality(DOMAIN new) = Cardinality(DOMAIN b.kept) + 1
      BY <1>1, <1>2, <3>4, KeptTypes, FS_AddElement
    <3>6. Cardinality(DOMAIN new) <= Cardinality(all) /\ Cardinality(all) <= MaxPieces
      BY <1>2, <1>3, <2>2, PiecesFew DEF InOneCut
    <3>7. Cardinality(DOMAIN b.kept) \in Nat /\ Cardinality(all) \in Nat
      BY <1>1, KeptTypes, FramesFinite, FS_CardinalityType
    <3> HIDE DEF new
    <3> QED
      BY <3>4, <3>5, <3>6, <3>7, QuicAssumption
  <2> QED
    BY <2>1, <2>2, OverflownTypes DEF Holds
<1>6. CASE /\ ~(b.full \/ (f.off \in DOMAIN b.kept /\ old = f.len))
           /\ ~(f.off \notin DOMAIN b.kept /\ Cardinality(DOMAIN b.kept) >= MaxPieces) /\ ~(total > MaxCrypto)
  <2>1. Ingest(b, f) = [kept |-> new, total |-> total, full |-> FALSE]
    BY <1>6 DEF Ingest
  <2>2. total \in Nat /\ total <= MaxCrypto
    BY <1>2, <1>6, KeptTypes, QuicAssumption
  <2>3. Cardinality(DOMAIN new) <= MaxPieces
    <3>1. IsFiniteSet(DOMAIN b.kept) /\ Cardinality(DOMAIN b.kept) \in Nat /\ MaxPieces \in Nat
      BY <1>1, KeptTypes, FS_CardinalityType, QuicAssumption
    <3>2. CASE f.off \in DOMAIN b.kept
      <4>1. DOMAIN new = DOMAIN b.kept
        BY <1>2, <3>2
      <4> QED
        BY <1>1, <4>1
    <3>3. CASE f.off \notin DOMAIN b.kept
      <4>1. Cardinality(DOMAIN new) = Cardinality(DOMAIN b.kept) + 1
        BY <1>2, <3>1, <3>3, FS_AddElement
      <4>2. ~(Cardinality(DOMAIN b.kept) >= MaxPieces)
        BY <1>6, <3>3
      <4> HIDE DEF new
      <4> QED
        BY <3>1, <4>1, <4>2
    <3> QED
      BY <3>2, <3>3
  <2> HIDE DEF total, new
  <2>4. Ingest(b, f) \in Bufs
    BY <1>2, <2>1, <2>2, <2>3 DEF Bufs
  <2>5. ASSUME InOneCut(all), NEW g \in had
        PROVE  g \in PiecesOf(new)
    <3>1. PICK o \in DOMAIN b.kept : g = Piece(b.kept, o)
      BY <2>5 DEF Holds, PiecesOf
    <3>2. CASE o # f.off
      BY <1>2, <3>1, <3>2
    <3>3. CASE o = f.off
      <4>1. g \in all /\ g.off = f.off
        BY <3>1, <3>3 DEF Holds, PiecesOf, Piece
      <4>2. g = f
        BY <2>5, <4>1, ApartDiffer DEF InOneCut
      <4> QED
        BY <1>2, <4>2
    <3> QED
      BY <3>2, <3>3
  <2> QED
    BY <1>2, <1>3, <2>1, <2>4, <2>5 DEF Holds
<1> QED
  BY <1>4, <1>5, <1>6

\* The frames of a packet, one by one: there is the function that Ingested is defined by.
IngestSteps(g, n, b, s) == g = [i \in 0 .. n |-> IF i = 0 THEN b ELSE Ingest(g[i - 1], s[i])]

LEMMA StepsExist ==
  ASSUME NEW b, NEW s, NEW n \in Nat
  PROVE  \E g : IngestSteps(g, n, b, s)
<1> DEFINE without == {k \in Nat : ~ \E g : IngestSteps(g, k, b, s)}
<1>1. SUFFICES ASSUME without # {}
               PROVE  FALSE
  OBVIOUS
<1>2. PICK k \in without : \A j \in without : k <= j
  <2>1. without \in SUBSET Nat
    OBVIOUS
  <2> HIDE DEF without
  <2> QED
    BY <1>1, <2>1, LeastNat
<1>3. k # 0
  <2>1. SUFFICES ASSUME k = 0
                 PROVE  FALSE
    OBVIOUS
  <2> DEFINE g == [i \in 0 .. 0 |-> b]
  <2>2. g = [i \in 0 .. 0 |-> IF i = 0 THEN b ELSE Ingest(g[i - 1], s[i])]
    OBVIOUS
  <2>3. IngestSteps(g, k, b, s)
    BY <2>1, <2>2 DEF IngestSteps
  <2> QED
    BY <2>3
<1>4. k \in Nat /\ k - 1 \in Nat /\ k - 1 < k
  BY <1>3
<1>5. PICK h : IngestSteps(h, k - 1, b, s)
  <2>1. k - 1 \notin without
    BY <1>2, <1>4
  <2> QED
    BY <1>4, <2>1
<1> DEFINE g == [i \in 0 .. k |-> IF i = k THEN Ingest(h[k - 1], s[k]) ELSE h[i]]
<1>6. ASSUME NEW i \in 0 .. k
      PROVE  g[i] = IF i = 0 THEN b ELSE Ingest(g[i - 1], s[i])
  <2>1. CASE i = k
    <3>1. i # 0 /\ i - 1 \in 0 .. k /\ i - 1 # k
      BY <1>3, <1>4, <2>1
    <3> QED
      BY <2>1, <3>1
  <2>2. CASE i # k
    <3>1. i \in 0 .. k - 1
      BY <1>4, <2>2
    <3>2. h[i] = IF i = 0 THEN b ELSE Ingest(h[i - 1], s[i])
      BY <1>5, <3>1 DEF IngestSteps
    <3>3. i # 0 => i - 1 \in 0 .. k /\ i - 1 # k
      BY <1>4, <3>1
    <3> QED
      BY <2>2, <3>2, <3>3
  <2> QED
    BY <2>1, <2>2
<1>7. g = [i \in 0 .. k |-> g[i]]
  OBVIOUS
<1> HIDE DEF g
<1>8. IngestSteps(g, k, b, s)
  <2>1. [i \in 0 .. k |-> g[i]] = [i \in 0 .. k |-> IF i = 0 THEN b ELSE Ingest(g[i - 1], s[i])]
    BY <1>6
  <2> QED
    BY <1>7, <2>1 DEF IngestSteps
<1> QED
  BY <1>8

LEMMA IngestedUnfolds ==
  ASSUME NEW b, NEW s, Len(s) \in Nat
  PROVE  \E g : IngestSteps(g, Len(s), b, s) /\ Ingested(b, s) = g[Len(s)]
<1> HIDE DEF Ingest
<1>1. \E g : g = [i \in 0 .. Len(s) |-> IF i = 0 THEN b ELSE Ingest(g[i - 1], s[i])]
  <2>1. \A n \in Nat : \E g : IngestSteps(g, n, b, s)
    BY StepsExist
  <2> QED
    BY <2>1, Zenon DEF IngestSteps
<1>2. \E g : /\ g = [i \in 0 .. Len(s) |-> IF i = 0 THEN b ELSE Ingest(g[i - 1], s[i])]
             /\ Ingested(b, s) = g[Len(s)]
  BY <1>1, Zenon DEF Ingested
<1> QED
  BY <1>2 DEF IngestSteps

LEMMA IngestedHolds ==
  ASSUME NEW all \in SUBSET Frames, NEW had, NEW b, Holds(b, had, all), NEW s \in Seq(all)
  PROVE  Holds(Ingested(b, s), had \cup {s[i] : i \in DOMAIN s}, all)
<1>1. Len(s) \in Nat /\ DOMAIN s = 1 .. Len(s) /\ \A i \in 1 .. Len(s) : s[i] \in all
  OBVIOUS
<1>2. PICK g : IngestSteps(g, Len(s), b, s) /\ Ingested(b, s) = g[Len(s)]
  BY <1>1, IngestedUnfolds
<1>3. /\ g[0] = b
      /\ \A i \in 1 .. Len(s) : g[i] = Ingest(g[i - 1], s[i])
  <2>1. \A i \in 0 .. Len(s) : g[i] = IF i = 0 THEN b ELSE Ingest(g[i - 1], s[i])
    BY <1>2 DEF IngestSteps
  <2>2. 0 \in 0 .. Len(s) /\ \A i \in 1 .. Len(s) : i \in 0 .. Len(s) /\ i # 0
    BY <1>1
  <2> QED
    BY <2>1, <2>2
<1> DEFINE first(k) == had \cup {s[i] : i \in 1 .. k}
           bad == {k \in 0 .. Len(s) : ~Holds(g[k], first(k), all)}
<1>4. bad = {}
  <2>1. SUFFICES ASSUME bad # {}
                 PROVE  FALSE
    OBVIOUS
  <2>2. bad \in SUBSET Nat
    BY <1>1
  <2>3. PICK k \in bad : \A j \in bad : k <= j
    <3> HIDE DEF bad
    <3> QED
      BY <2>1, <2>2, LeastNat
  <2>4. k \in 0 .. Len(s) /\ ~Holds(g[k], first(k), all)
    OBVIOUS
  <2>5. k # 0
    <3>1. first(0) = had
      OBVIOUS
    <3> HIDE DEF first
    <3> QED
      BY <1>3, <2>4, <3>1
  <2>6. k \in 1 .. Len(s) /\ k - 1 \in 0 .. Len(s) /\ k - 1 < k /\ k \in Nat
    BY <1>1, <2>4, <2>5
  <2>7. Holds(g[k - 1], first(k - 1), all)
    <3>1. k - 1 \notin bad
      <4> HIDE DEF bad
      <4> QED
        BY <2>3, <2>6
    <3> HIDE DEF first
    <3> QED
      BY <2>6, <3>1
  <2>8. first(k) = first(k - 1) \cup {s[k]}
    <3>1. 1 .. k = (1 .. k - 1) \cup {k}
      BY <2>6
    <3> QED
      BY <3>1
  <2> HIDE DEF first
  <2>9. Holds(Ingest(g[k - 1], s[k]), first(k - 1) \cup {s[k]}, all)
    BY <1>1, <2>6, <2>7, IngestHolds
  <2> QED
    BY <1>3, <2>4, <2>6, <2>8, <2>9
<1>5. Holds(g[Len(s)], first(Len(s)), all)
  <2>1. Len(s) \in 0 .. Len(s) /\ Len(s) \notin bad
    <3> HIDE DEF bad
    <3> QED
      BY <1>1, <1>4
  <2> HIDE DEF first
  <2> QED
    BY <2>1
<1> QED
  BY <1>1, <1>2, <1>5

\* The buffer holds what came while the sniffer is at work, and nothing afterwards; the
\* name is known when the hello was whole, and at once if it was cut in one way.
Filled(C) == 0 .. HelloLen - 1 \subseteq UNION {Cells(f) : f \in C}
AtWork == [kept |-> pieces, total |-> totalBytes, full |-> FALSE]
QuicInv ==
  /\ came \in SUBSET Frames
  /\ sni => finished /\ Filled(came)
  /\ InOneCut(came) /\ Filled(came) => sni
  /\ ~finished => Holds(AtWork, came, came)
  /\ finished => pieces = NoPieces /\ totalBytes = 0

LEMMA HoldsOfMore ==
  ASSUME NEW all \in SUBSET Frames, NEW C \in SUBSET all, NEW b, Holds(b, C, C)
  PROVE  Holds(b, C, all)
<1>1. ASSUME InOneCut(all)
      PROVE  InOneCut(C)
  <2>1. Cardinality(C) <= Cardinality(all) /\ Cardinality(C) \in Nat /\ Cardinality(all) \in Nat
    BY FramesFinite, FS_Subset, FS_CardinalityType
  <2>2. Cardinality(C) <= MaxPieces
    BY <1>1, <2>1, QuicAssumption DEF InOneCut
  <2> QED
    BY <1>1, <2>2, ApartPart DEF InOneCut
<1> QED
  BY <1>1 DEF Holds

LEMMA FilledPieces ==
  ASSUME NEW kept \in Kepts, NEW C \in SUBSET Frames, PiecesOf(kept) \subseteq C, Whole(kept)
  PROVE  Filled(C)
<1>1. ASSUME NEW x \in 0 .. HelloLen - 1
      PROVE  x \in UNION {Cells(f) : f \in C}
  <2>1. PICK o \in DOMAIN kept : x \in Cells(Piece(kept, o))
    BY WholeIsFull
  <2>2. Piece(kept, o) \in C
    BY DEF PiecesOf
  <2> QED
    BY <2>1, <2>2
<1> QED
  BY <1>1 DEF Filled

LEMMA PiecesFilled ==
  ASSUME NEW kept \in Kepts, NEW C \in SUBSET Frames, PiecesOf(kept) \subseteq C, C \subseteq PiecesOf(kept),
         Apart(C), Filled(C)
  PROVE  Whole(kept)
<1>1. PiecesOf(kept) = C
  OBVIOUS
<1>2. ASSUME NEW x \in 0 .. HelloLen - 1
      PROVE  \E o \in DOMAIN kept : x \in Cells(Piece(kept, o))
  <2>1. PICK f \in C : x \in Cells(f)
    BY DEF Filled
  <2>2. PICK o \in DOMAIN kept : f = Piece(kept, o)
    BY <1>1 DEF PiecesOf
  <2> QED
    BY <2>1, <2>2
<1> QED
  BY <1>1, <1>2, FullIsWhole

LEMMA QuicAbsorbs ==
  ASSUME QuicInv, ~finished, NEW p \in Packets, Absorbed(p)
  PROVE  QuicInv'
<1> DEFINE b == Ingested(AtWork, p.frames)
           new == came \cup {p.frames[i] : i \in DOMAIN p.frames}
           whole == ~b.full /\ Whole(b.kept)
<1>1. /\ came' = new /\ sni' = whole /\ finished' = (whole \/ b.full)
      /\ whole => pieces' = NoPieces /\ totalBytes' = 0
      /\ ~whole => pieces' = b.kept /\ totalBytes' = b.total
  BY DEF Absorbed, Keeps, AtWork
<1>2. p.frames \in Seq(Frames)
  BY QuicAssumption
<1>3. new \in SUBSET Frames /\ came \in SUBSET new
  BY <1>2 DEF QuicInv
<1>4. p.frames \in Seq(new)
  <2>1. Len(p.frames) \in Nat /\ DOMAIN p.frames = 1 .. Len(p.frames)
        /\ p.frames = [i \in 1 .. Len(p.frames) |-> p.frames[i]]
    BY <1>2
  <2>2. \A i \in 1 .. Len(p.frames) : p.frames[i] \in new
    BY <2>1
  <2> HIDE DEF new
  <2> QED
    BY <2>1, <2>2
<1>5. Holds(b, new, new)
  <2>1. Holds(AtWork, came, new)
    <3> HIDE DEF new
    <3> QED
      BY <1>3, HoldsOfMore DEF QuicInv
  <2>2. Holds(Ingested(AtWork, p.frames), came \cup {p.frames[i] : i \in DOMAIN p.frames}, new)
    <3> HIDE DEF new
    <3> QED
      BY <1>3, <1>4, <2>1, IngestedHolds
  <2> QED
    BY <2>2
<1> HIDE DEF b, new
<1>6. b.kept \in Kepts /\ b \in [kept : Kepts, total : Nat, full : BOOLEAN] /\ PiecesOf(b.kept) \subseteq new
  BY <1>5 DEF Holds, Bufs
<1>7. sni' => finished' /\ Filled(new)
  BY <1>1, <1>3, <1>6, FilledPieces
<1>8. ASSUME InOneCut(new), Filled(new)
      PROVE  sni'
  <2>1. ~b.full /\ new \subseteq PiecesOf(b.kept) /\ Apart(new)
    BY <1>5, <1>8 DEF Holds, InOneCut
  <2>2. Whole(b.kept)
    BY <1>3, <1>6, <1>8, <2>1, PiecesFilled
  <2> QED
    BY <1>1, <2>1, <2>2
<1>9. ASSUME ~finished'
      PROVE  Holds(AtWork', new, new)
  <2>1. ~whole /\ b.full = FALSE
    BY <1>1, <1>6, <1>9
  <2>2. AtWork' = b
    BY <1>1, <1>6, <2>1 DEF AtWork
  <2> QED
    BY <1>5, <2>2
<1>10. ASSUME finished'
       PROVE  pieces' = NoPieces /\ totalBytes' = 0
  <2>1. CASE whole
    BY <1>1, <2>1
  <2>2. CASE ~whole
    <3>1. b.full
      BY <1>1, <1>10, <2>2
    <3>2. b.kept = NoPieces /\ b.total = 0
      BY <3>1, <1>5 DEF Holds, Bufs
    <3> QED
      BY <1>1, <2>2, <3>2
  <2> QED
    BY <2>1, <2>2
<1> QED
  BY <1>1, <1>3, <1>7, <1>8, <1>9, <1>10 DEF QuicInv

\* Whatever the packets, their order and number: the account of the buffer is right and
\* within its bounds, no name is taken from a hello with a hole, and a hello cut in one
\* way is recognised when its last piece has come.
THEOREM SnifferReadsWholeHello == QuicSpec => []NameFromWholeHello
<1>1. QuicInit => QuicInv
  <2> SUFFICES ASSUME QuicInit
               PROVE  QuicInv
    OBVIOUS
  <2>1. came = {} /\ sni = FALSE /\ finished = FALSE /\ pieces = NoPieces /\ totalBytes = 0
    BY DEF QuicInit
  <2>2. ~Filled({})
    <3>1. 0 \in 0 .. HelloLen - 1
      BY QuicAssumption
    <3> QED
      BY <3>1 DEF Filled
  <2>3. Holds(AtWork, came, came)
    <3>1. NoPieces \in Kepts /\ KeptLength(NoPieces) = 0 /\ PiecesOf(NoPieces) = {}
          /\ Cardinality(DOMAIN NoPieces) <= MaxPieces /\ 0 <= MaxCrypto
      BY OverflownTypes DEF Overflown, Bufs
    <3>2. AtWork = [kept |-> NoPieces, total |-> 0, full |-> FALSE]
      BY <2>1 DEF AtWork
    <3> QED
      BY <2>1, <3>1, <3>2 DEF Holds, Bufs
  <2> QED
    BY <2>1, <2>2, <2>3 DEF QuicInv
<1>2. QuicInv /\ [QuicNext]_quicVars => QuicInv'
  <2>1. ASSUME QuicInv, NEW p \in Packets, Feed(p)
        PROVE  QuicInv'
    <3>1. CASE Spent
      BY <2>1, <3>1 DEF Feed, Spent, Keeps, QuicInv
    <3>2. CASE Unread
      BY <2>1, <3>2 DEF Feed, Unread, QuicInv, AtWork
    <3>3. CASE Absorbed(p)
      BY <2>1, <3>3, QuicAbsorbs DEF Feed
    <3> QED
      BY <2>1, <3>1, <3>2, <3>3 DEF Feed
  <2>2. ASSUME QuicInv, UNCHANGED quicVars
        PROVE  QuicInv'
    BY <2>2 DEF quicVars, QuicInv, AtWork
  <2> QED
    BY <2>1, <2>2 DEF QuicNext
<1>3. QuicInv => NameFromWholeHello
  <2> SUFFICES ASSUME QuicInv
               PROVE  NameFromWholeHello
    OBVIOUS
  <2>1. totalBytes = KeptLength(pieces) /\ totalBytes <= MaxCrypto /\ Cardinality(DOMAIN pieces) <= MaxPieces
    <3>1. CASE finished
      BY <3>1, OverflownTypes DEF QuicInv, Overflown, Bufs
    <3>2. CASE ~finished
      BY <3>2 DEF QuicInv, Holds, Bufs, AtWork
    <3> QED
      BY <3>1, <3>2
  <2> QED
    BY <2>1 DEF QuicInv, NameFromWholeHello, InOneCut, Apart, Filled, OneCut, Covered
<1> QED
  BY <1>1, <1>2, <1>3, PTL DEF QuicSpec

-----------------------------------------------------------------------------
(* The rows of the aggregate (Aggregate): what they hold, with what left   *)
(* with rows that are gone, is what was folded.                            *)

Amts == 0 .. MaxTraffic
Heads == 0 .. Cardinality(Recs)
AggRow == [up : Amts, conns : Heads, age : Nat]
CountedRecs == {r \in Recs : counted[r]}

AggTypes == /\ moved \in [Recs -> Amts] /\ folded \in [Recs -> Amts] /\ counted \in [Recs -> BOOLEAN]
            /\ \A r \in Recs : folded[r] <= moved[r]
            /\ rows \in [Keys -> AggRow \cup {NoRow}] /\ keeper.left \in SUBSET Recs
            /\ open \in SUBSET Recs /\ lost.up \in Nat /\ lost.conns \in Nat
AggInv == AggTypes /\ Traffic <= MaxTraffic /\ AggregateExact

\* An amount is a sum of values, as long as none exceeds some number.
LEMMA AmountIsSum ==
  ASSUME NEW n \in Nat, NEW S, NEW f \in [S -> 0 .. n]
  PROVE  Amount(f) = SumTo(n, f)
<1> DEFINE all == UNION {{z} \X (1 .. f[z]) : z \in DOMAIN f}
<1>1. ASSUME NEW b \in Units(n, f)
      PROVE  b \in all
  <2>1. b \in S \X (1 .. n) /\ b[2] <= f[b[1]]
    BY DEF Units
  <2>2. b = <<b[1], b[2]>> /\ b[1] \in S /\ b[2] \in 1 .. f[b[1]]
    BY <2>1
  <2>3. b \in {b[1]} \X (1 .. f[b[1]])
    BY <2>2
  <2> QED
    BY <2>2, <2>3
<1>2. ASSUME NEW b \in all
      PROVE  b \in Units(n, f)
  <2>1. PICK z \in S : b \in {z} \X (1 .. f[z])
    OBVIOUS
  <2>2. f[z] \in 0 .. n
    OBVIOUS
  <2>3. b = <<z, b[2]>> /\ b[1] = z /\ b[2] \in 1 .. f[z]
    BY <2>1
  <2>4. b[2] \in 1 .. n /\ b[2] <= f[z]
    BY <2>2, <2>3
  <2> QED
    BY <2>3, <2>4 DEF Units
<1>3. all = Units(n, f)
  BY <1>1, <1>2
<1> QED
  BY <1>3 DEF Amount, SumTo

LEMMA AmountIsNumber ==
  ASSUME NEW n \in Nat, NEW S, IsFiniteSet(S), NEW f \in [S -> 0 .. n]
  PROVE  Amount(f) \in Nat
BY AmountIsSum, SumIsNumber

LEMMA AmountGrows ==
  ASSUME NEW n \in Nat, NEW S, IsFiniteSet(S), NEW f \in [S -> 0 .. n], NEW g \in [S -> 0 .. n],
         \A z \in S : f[z] <= g[z]
  PROVE  Amount(f) <= Amount(g)
<1>1. Amount(f) = SumTo(n, f) /\ Amount(g) = SumTo(n, g)
  BY AmountIsSum
<1> QED
  BY <1>1, SumGrows

LEMMA AmountChanges ==
  ASSUME NEW n \in Nat, NEW S, IsFiniteSet(S), NEW f \in [S -> 0 .. n], NEW g \in [S -> 0 .. n], NEW x \in S,
         \A z \in S : z # x => g[z] = f[z]
  PROVE  Amount(g) + f[x] = Amount(f) + g[x]
<1>1. Amount(f) = SumTo(n, f) /\ Amount(g) = SumTo(n, g)
  BY AmountIsSum
<1> QED
  BY <1>1, SumChanges

LEMMA PartOfAmount ==
  ASSUME NEW n \in Nat, NEW S, IsFiniteSet(S), NEW f \in [S -> 0 .. n], NEW x \in S
  PROVE  f[x] <= Amount(f)
<1>1. Amount(f) = SumTo(n, f)
  BY AmountIsSum
<1> QED
  BY <1>1, PartOfSum

LEMMA AmountOfNothing ==
  ASSUME NEW S, NEW f \in [S -> {0}]
  PROVE  Amount(f) = 0
<1>1. f \in [S -> 0 .. 0] /\ \A z \in S : f[z] = 0
  OBVIOUS
<1>2. Amount(f) = SumTo(0, f)
  BY <1>1, AmountIsSum
<1> QED
  BY <1>1, <1>2, SumOfNothing

\* The two columns of any rows.
LEMMA Columns ==
  ASSUME NEW t \in [Keys -> AggRow \cup {NoRow}]
  PROVE  /\ IsFiniteSet(Keys) /\ Cardinality(Recs) \in Nat /\ MaxTraffic \in Nat
         /\ UpOf(t) \in [Keys -> Amts] /\ ConnsOf(t) \in [Keys -> Heads]
         /\ Up(t) \in Nat /\ Amount(ConnsOf(t)) \in Nat
<1>1. IsFiniteSet(Recs) /\ Cardinality(Recs) \in Nat /\ MaxTraffic \in Nat
  BY AggConstants, FS_CardinalityType
<1>2. IsFiniteSet(Keys)
  <2>1. [r \in Recs |-> KeyOf[r]] \in Surjection(Recs, Keys)
    BY DEF Keys, Surjection
  <2> QED
    BY <1>1, <2>1, FS_Surjection
<1>3. UpOf(t) \in [Keys -> Amts]
  <2>1. \A k \in Keys : (IF t[k] = NoRow THEN 0 ELSE t[k].up) \in Amts
    BY <1>1 DEF AggRow, Amts
  <2> QED
    BY <2>1 DEF UpOf
<1>4. ConnsOf(t) \in [Keys -> Heads]
  <2>1. \A k \in Keys : (IF t[k] = NoRow THEN 0 ELSE t[k].conns) \in Heads
    BY <1>1 DEF AggRow, Heads
  <2> QED
    BY <2>1 DEF ConnsOf
<1>5. Up(t) \in Nat
  BY <1>1, <1>2, <1>3, AmountIsNumber DEF Up, Amts
<1>6. Amount(ConnsOf(t)) \in Nat
  BY <1>1, <1>2, <1>4, AmountIsNumber DEF Heads
<1> QED
  BY <1>1, <1>2, <1>3, <1>4, <1>5, <1>6

\* What the invariant says of the numbers.
LEMMA AggNumbers ==
  ASSUME AggInv
  PROVE  /\ IsFiniteSet(Recs) /\ MaxTraffic \in Nat /\ Amount(folded) \in Nat /\ Amount(folded) <= Traffic
         /\ IsFiniteSet(CountedRecs) /\ Cardinality(CountedRecs) \in Nat /\ Cardinality(CountedRecs) <= Cardinality(Recs)
         /\ Up(rows) + lost.up = Amount(folded) /\ Amount(ConnsOf(rows)) + lost.conns = Cardinality(CountedRecs)
<1>1. IsFiniteSet(Recs) /\ MaxTraffic \in Nat
  BY AggConstants
<1>2. Amount(folded) \in Nat
  BY <1>1, AmountIsNumber DEF AggInv, AggTypes, Amts
<1>3. Amount(folded) <= Traffic
  BY <1>1, AmountGrows DEF AggInv, AggTypes, Amts, Traffic
<1>4. CountedRecs \in SUBSET Recs
  BY DEF CountedRecs
<1>5. IsFiniteSet(CountedRecs) /\ Cardinality(CountedRecs) \in Nat /\ Cardinality(CountedRecs) <= Cardinality(Recs)
  BY <1>1, <1>4, FS_Subset, FS_CardinalityType
<1> QED
  BY <1>1, <1>2, <1>3, <1>5 DEF AggInv, AggregateExact, CountedRecs

\* Rows that lose some of themselves, and what is lost with them.
LEMMA RowsGo ==
  ASSUME AggInv, NEW S \in SUBSET Keys, UNCHANGED <<moved, folded, counted>>,
         rows' = [k \in Keys |-> IF k \in S THEN rows[k] ELSE NoRow],
         lost' = [up |-> lost.up + Up(rows) - Up(rows'), conns |-> lost.conns + Amount(ConnsOf(rows)) - Amount(ConnsOf(rows'))],
         keeper'.left \in SUBSET Recs, open' \in SUBSET Recs
  PROVE  AggInv'
<1>1. rows \in [Keys -> AggRow \cup {NoRow}] /\ lost.up \in Nat /\ lost.conns \in Nat
  BY DEF AggInv, AggTypes
<1>2. rows' \in [Keys -> AggRow \cup {NoRow}]
  BY <1>1
<1>3. /\ IsFiniteSet(Keys) /\ Cardinality(Recs) \in Nat /\ MaxTraffic \in Nat
      /\ UpOf(rows) \in [Keys -> Amts] /\ ConnsOf(rows) \in [Keys -> Heads]
      /\ Up(rows) \in Nat /\ Amount(ConnsOf(rows)) \in Nat
  BY <1>1, Columns
<1>4. /\ UpOf(rows') \in [Keys -> Amts] /\ ConnsOf(rows') \in [Keys -> Heads]
      /\ Up(rows') \in Nat /\ Amount(ConnsOf(rows')) \in Nat
  BY <1>2, Columns
<1>5. \A k \in Keys : UpOf(rows')[k] <= UpOf(rows)[k] /\ ConnsOf(rows')[k] <= ConnsOf(rows)[k]
  <2> SUFFICES ASSUME NEW k \in Keys
               PROVE  UpOf(rows')[k] <= UpOf(rows)[k] /\ ConnsOf(rows')[k] <= ConnsOf(rows)[k]
    OBVIOUS
  <2>1. UpOf(rows)[k] \in Amts /\ ConnsOf(rows)[k] \in Heads
    BY <1>3
  <2>2. CASE k \in S
    <3>1. UpOf(rows')[k] = UpOf(rows)[k] /\ ConnsOf(rows')[k] = ConnsOf(rows)[k]
      BY <2>2 DEF UpOf, ConnsOf
    <3> QED
      BY <1>3, <2>1, <3>1 DEF Amts, Heads
  <2>3. CASE k \notin S
    <3>1. UpOf(rows')[k] = 0 /\ ConnsOf(rows')[k] = 0
      BY <2>3 DEF UpOf, ConnsOf
    <3> QED
      BY <1>3, <2>1, <3>1 DEF Amts, Heads
  <2> QED
    BY <2>2, <2>3
<1>6. Up(rows') <= Up(rows)
  BY <1>3, <1>4, <1>5, AmountGrows DEF Up, Amts
<1>7. Amount(ConnsOf(rows')) <= Amount(ConnsOf(rows))
  BY <1>3, <1>4, <1>5, AmountGrows DEF Heads
<1>8. /\ lost'.up \in Nat /\ lost'.conns \in Nat /\ Up(rows') + lost'.up = Up(rows) + lost.up
      /\ Amount(ConnsOf(rows')) + lost'.conns = Amount(ConnsOf(rows)) + lost.conns
  <2>1. lost'.up = lost.up + Up(rows) - Up(rows') /\ lost'.conns = lost.conns + Amount(ConnsOf(rows)) - Amount(ConnsOf(rows'))
    OBVIOUS
  <2> QED
    BY <1>1, <1>3, <1>4, <1>6, <1>7, <2>1
<1>9. AggTypes'
  BY <1>2, <1>8 DEF AggInv, AggTypes
<1> QED
  BY <1>8, <1>9 DEF AggInv, AggregateExact, Traffic

\* Steps that move neither counters nor amounts.
LEMMA AggStays ==
  ASSUME AggInv, UNCHANGED <<moved, folded, counted, lost>>, rows' \in [Keys -> AggRow \cup {NoRow}],
         UpOf(rows') = UpOf(rows), ConnsOf(rows') = ConnsOf(rows), keeper'.left \in SUBSET Recs, open' \in SUBSET Recs
  PROVE  AggInv'
BY DEF AggInv, AggTypes, AggregateExact, Traffic, Up

\* A connection is counted once, with its first bytes.
LEMMA AggFolds ==
  ASSUME AggInv, NEW r \in Recs, FoldsRecord(r)
  PROVE  AggInv'
<1>1. /\ UNCHANGED <<moved, open, lost>> /\ keeper'.left \in SUBSET Recs /\ moved \in [Recs -> Amts]
      /\ folded \in [Recs -> Amts] /\ counted \in [Recs -> BOOLEAN] /\ open \in SUBSET Recs
      /\ rows \in [Keys -> AggRow \cup {NoRow}] /\ lost.up \in Nat /\ lost.conns \in Nat /\ folded[r] <= moved[r]
  <2>1. keeper' = [keeper EXCEPT !.left = @ \ {r}] /\ keeper.left \in SUBSET Recs
    BY DEF FoldsRecord, AggInv, AggTypes
  <2>2. keeper'.left \in SUBSET Recs
    BY <2>1
  <2> QED
    BY <2>2 DEF FoldsRecord, AggInv, AggTypes
<1>2. CASE moved[r] = folded[r]
  <2>1. UNCHANGED <<folded, counted, rows>>
    BY <1>2 DEF FoldsRecord
  <2> QED
    BY <1>1, <2>1, AggStays
<1>3. CASE moved[r] # folded[r]
  <2> DEFINE k == KeyOf[r]
             w == [up |-> Row(k).up + moved[r] - folded[r], age |-> 0, conns |-> Row(k).conns + IF counted[r] THEN 0 ELSE 1]
  <2>1. /\ rows' = [rows EXCEPT ![k] = w] /\ folded' = [folded EXCEPT ![r] = moved[r]]
        /\ counted' = [counted EXCEPT ![r] = TRUE]
    BY <1>3 DEF FoldsRecord
  <2>2. k \in Keys
    BY DEF Keys
  <2>3. /\ IsFiniteSet(Recs) /\ MaxTraffic \in Nat /\ Amount(folded) \in Nat /\ Amount(folded) <= Traffic
        /\ IsFiniteSet(CountedRecs) /\ Cardinality(CountedRecs) \in Nat /\ Cardinality(CountedRecs) <= Cardinality(Recs)
        /\ Up(rows) + lost.up = Amount(folded) /\ Amount(ConnsOf(rows)) + lost.conns = Cardinality(CountedRecs)
    BY AggNumbers
  <2>4. /\ IsFiniteSet(Keys) /\ Cardinality(Recs) \in Nat
        /\ UpOf(rows) \in [Keys -> Amts] /\ ConnsOf(rows) \in [Keys -> Heads]
        /\ Up(rows) \in Nat /\ Amount(ConnsOf(rows)) \in Nat
    BY <1>1, Columns
  <2>5. Row(k).up = UpOf(rows)[k] /\ Row(k).conns = ConnsOf(rows)[k]
    BY <2>2 DEF Row, UpOf, ConnsOf
  <2>6. folded' \in [Recs -> Amts] /\ \A z \in Recs : folded'[z] = IF z = r THEN moved[r] ELSE folded[z]
    BY <1>1, <2>1
  <2>7. Amount(folded') + folded[r] = Amount(folded) + moved[r] /\ Amount(folded') \in Nat
    <3>1. Amount(folded') + folded[r] = Amount(folded) + folded'[r]
      <4>1. /\ folded \in [Recs -> 0 .. MaxTraffic] /\ folded' \in [Recs -> 0 .. MaxTraffic]
            /\ \A z \in Recs : z # r => folded'[z] = folded[z]
        BY <1>1, <2>6 DEF Amts
      <4> QED
        BY <2>3, <4>1, AmountChanges
    <3>2. Amount(folded') \in Nat
      BY <2>3, <2>6, AmountIsNumber DEF Amts
    <3> QED
      BY <2>6, <3>1, <3>2
  <2>8. Amount(folded') <= Traffic
    <3>1. \A z \in Recs : folded'[z] <= moved[z]
      <4>1. \A z \in Recs : folded[z] <= moved[z]
        BY DEF AggInv, AggTypes
      <4>2. moved[r] \in Nat
        BY <1>1, <2>3 DEF Amts
      <4> QED
        BY <2>6, <4>1, <4>2
    <3> QED
      BY <1>1, <2>3, <2>6, <3>1, AmountGrows DEF Amts, Traffic
  <2>9. UpOf(rows)[k] <= Up(rows) /\ ConnsOf(rows)[k] <= Amount(ConnsOf(rows))
    <3>1. UpOf(rows)[k] <= Up(rows)
      BY <2>2, <2>3, <2>4, PartOfAmount DEF Up, Amts
    <3>2. ConnsOf(rows)[k] <= Amount(ConnsOf(rows))
      BY <2>2, <2>4, PartOfAmount DEF Heads
    <3> QED
      BY <3>1, <3>2
  <2>10. /\ counted' \in [Recs -> BOOLEAN] /\ IsFiniteSet(CountedRecs') /\ Cardinality(CountedRecs') <= Cardinality(Recs)
         /\ Cardinality(CountedRecs') = Cardinality(CountedRecs) + IF counted[r] THEN 0 ELSE 1
    <3>1. CountedRecs' = CountedRecs \cup {r} /\ counted' \in [Recs -> BOOLEAN]
      BY <1>1, <2>1 DEF CountedRecs
    <3>2. CountedRecs' \in SUBSET Recs
      BY DEF CountedRecs
    <3>3. IsFiniteSet(CountedRecs') /\ Cardinality(CountedRecs') <= Cardinality(Recs)
      BY <2>3, <3>2, FS_Subset
    <3>4. r \in CountedRecs <=> counted[r]
      BY DEF CountedRecs
    <3>5. Cardinality(CountedRecs \cup {r}) = IF r \in CountedRecs THEN Cardinality(CountedRecs) ELSE Cardinality(CountedRecs) + 1
      BY <2>3, FS_AddElement
    <3> QED
      BY <2>3, <3>1, <3>3, <3>4, <3>5
  <2>11. w.up \in Amts /\ w.conns \in Heads /\ w.up = UpOf(rows)[k] + moved[r] - folded[r]
         /\ w.conns = ConnsOf(rows)[k] + (IF counted[r] THEN 0 ELSE 1)
    <3>1. /\ UpOf(rows)[k] \in Nat /\ ConnsOf(rows)[k] \in Nat /\ moved[r] \in Nat /\ folded[r] \in Nat
          /\ folded[r] <= moved[r] /\ Traffic <= MaxTraffic /\ Traffic \in Nat
      <4>1. Traffic \in Nat
        BY <1>1, <2>3, AmountIsNumber DEF Amts, Traffic
      <4>2. Traffic <= MaxTraffic
        BY DEF AggInv
      <4> QED
        BY <1>1, <2>2, <2>3, <2>4, <4>1, <4>2 DEF Amts, Heads
    <3>2. w.up = UpOf(rows)[k] + moved[r] - folded[r] /\ w.conns = ConnsOf(rows)[k] + (IF counted[r] THEN 0 ELSE 1)
      BY <2>5
    <3> HIDE DEF w, k
    <3>3. w.up \in Nat /\ w.up <= MaxTraffic
      BY <1>1, <2>3, <2>4, <2>7, <2>8, <2>9, <3>1, <3>2
    <3>4. w.conns \in Nat /\ w.conns <= Cardinality(Recs)
      BY <1>1, <2>3, <2>4, <2>9, <2>10, <3>1, <3>2
    <3> QED
      BY <2>3, <2>4, <3>2, <3>3, <3>4 DEF Amts, Heads
  <2>12. w \in AggRow /\ w # NoRow
    <3>1. w \in [up : Nat, conns : Nat, age : Nat] /\ w.age = 0
      BY <2>3, <2>4, <2>11 DEF Amts, Heads
    <3> QED
      BY <2>11, <3>1, AggConstants DEF AggRow
  <2> HIDE DEF w, k
  <2>13. rows' \in [Keys -> AggRow \cup {NoRow}] /\ \A z \in Keys : rows'[z] = IF z = k THEN w ELSE rows[z]
    BY <1>1, <2>1, <2>2, <2>12
  <2>14. UpOf(rows') \in [Keys -> Amts] /\ ConnsOf(rows') \in [Keys -> Heads]
         /\ Up(rows') \in Nat /\ Amount(ConnsOf(rows')) \in Nat
    BY <2>13, Columns
  <2>15. /\ UpOf(rows')[k] = w.up /\ ConnsOf(rows')[k] = w.conns
         /\ \A z \in Keys : z # k => UpOf(rows')[z] = UpOf(rows)[z] /\ ConnsOf(rows')[z] = ConnsOf(rows)[z]
    BY <2>2, <2>12, <2>13 DEF UpOf, ConnsOf
  <2>16. Up(rows') + UpOf(rows)[k] = Up(rows) + w.up
    <3>1. Amount(UpOf(rows')) + UpOf(rows)[k] = Amount(UpOf(rows)) + UpOf(rows')[k]
      <4>1. /\ UpOf(rows) \in [Keys -> 0 .. MaxTraffic] /\ UpOf(rows') \in [Keys -> 0 .. MaxTraffic]
            /\ \A z \in Keys : z # k => UpOf(rows')[z] = UpOf(rows)[z]
        BY <2>4, <2>14, <2>15 DEF Amts
      <4> QED
        BY <2>2, <2>3, <2>4, <4>1, AmountChanges
    <3> QED
      BY <2>15, <3>1 DEF Up
  <2>17. Amount(ConnsOf(rows')) + ConnsOf(rows)[k] = Amount(ConnsOf(rows)) + w.conns
    <3>1. Amount(ConnsOf(rows')) + ConnsOf(rows)[k] = Amount(ConnsOf(rows)) + ConnsOf(rows')[k]
      <4>1. /\ ConnsOf(rows) \in [Keys -> 0 .. Cardinality(Recs)] /\ ConnsOf(rows') \in [Keys -> 0 .. Cardinality(Recs)]
            /\ \A z \in Keys : z # k => ConnsOf(rows')[z] = ConnsOf(rows)[z]
        BY <2>4, <2>14, <2>15 DEF Heads
      <4> QED
        BY <2>2, <2>4, <4>1, AmountChanges
    <3> QED
      BY <2>15, <3>1
  <2>18. Up(rows') + lost.up = Amount(folded')
    <3>1. UpOf(rows)[k] \in Nat /\ moved[r] \in Nat /\ folded[r] \in Nat /\ w.up = UpOf(rows)[k] + moved[r] - folded[r]
      BY <1>1, <2>2, <2>3, <2>4, <2>11 DEF Amts
    <3>2. Up(rows') = Up(rows) + moved[r] - folded[r]
      BY <2>4, <2>14, <2>16, <3>1
    <3>3. Amount(folded') = Amount(folded) + moved[r] - folded[r]
      BY <2>3, <2>7, <3>1
    <3> QED
      BY <1>1, <2>3, <2>4, <3>1, <3>2, <3>3
  <2>19. Amount(ConnsOf(rows')) + lost.conns = Cardinality(CountedRecs')
    <3>1. ConnsOf(rows)[k] \in Nat /\ w.conns = ConnsOf(rows)[k] + (IF counted[r] THEN 0 ELSE 1)
      BY <2>2, <2>4, <2>11 DEF Heads
    <3> QED
      BY <1>1, <2>3, <2>4, <2>10, <2>14, <2>17, <3>1
  <2>20. AggTypes'
    <3>1. \A z \in Recs : folded'[z] <= moved[z]
      <4>1. \A z \in Recs : folded[z] <= moved[z]
        BY DEF AggInv, AggTypes
      <4>2. moved[r] \in Nat
        BY <1>1, <2>3 DEF Amts
      <4> QED
        BY <2>6, <4>1, <4>2
    <3> QED
      BY <1>1, <2>6, <2>10, <2>13, <3>1 DEF AggTypes
  <2> QED
    BY <1>1, <2>18, <2>19, <2>20 DEF AggInv, AggregateExact, Traffic, CountedRecs
<1> QED
  BY <1>2, <1>3

LEMMA AggRelays ==
  ASSUME AggInv, NEW r \in Recs, RelaysBytes(r)
  PROVE  AggInv'
<1>1. /\ Traffic < MaxTraffic /\ moved' = [moved EXCEPT ![r] = @ + 1] /\ moved \in [Recs -> Amts]
      /\ UNCHANGED <<folded, counted, open, rows, keeper, lost>> /\ IsFiniteSet(Recs) /\ MaxTraffic \in Nat
  BY AggConstants DEF RelaysBytes, AggInv, AggTypes
<1>2. moved[r] <= Traffic /\ Traffic \in Nat /\ moved[r] \in Nat
  BY <1>1, PartOfAmount, AmountIsNumber DEF Amts, Traffic
<1>3. moved[r] + 1 \in Amts
  BY <1>1, <1>2 DEF Amts
<1>4. moved' \in [Recs -> Amts] /\ moved'[r] = moved[r] + 1 /\ \A z \in Recs : z # r => moved'[z] = moved[z]
  BY <1>1, <1>3
<1>5. Amount(moved') + moved[r] = Amount(moved) + moved'[r] /\ Amount(moved') \in Nat
  <2>1. Amount(moved') + moved[r] = Amount(moved) + moved'[r]
    <3>1. /\ IsFiniteSet(Recs) /\ MaxTraffic \in Nat /\ moved \in [Recs -> 0 .. MaxTraffic]
          /\ moved' \in [Recs -> 0 .. MaxTraffic] /\ \A z \in Recs : z # r => moved'[z] = moved[z]
      BY <1>1, <1>4 DEF Amts
    <3> QED
      BY <3>1, AmountChanges
  <2>2. Amount(moved') \in Nat
    BY <1>1, <1>4, AmountIsNumber DEF Amts
  <2> QED
    BY <2>1, <2>2
<1>6. Traffic' <= MaxTraffic
  BY <1>1, <1>2, <1>4, <1>5 DEF Traffic
<1>7. AggTypes'
  <2>1. \A z \in Recs : folded[z] <= moved'[z]
    <3>1. \A z \in Recs : folded[z] <= moved[z] /\ folded[z] \in Nat
      BY <1>1 DEF AggInv, AggTypes, Amts
    <3> QED
      BY <1>2, <1>4, <3>1
  <2> QED
    BY <1>1, <1>4, <2>1 DEF AggInv, AggTypes
<1> QED
  BY <1>1, <1>6, <1>7 DEF AggInv, AggregateExact

\* Rows only grow older.
LEMMA AggAges ==
  ASSUME AggInv, Later
  PROVE  AggInv'
<1>1. /\ rows' = [k \in Keys |-> IF k \in Rows(rows) /\ rows[k].age < Window THEN [rows[k] EXCEPT !.age = @ + 1] ELSE rows[k]]
      /\ UNCHANGED <<moved, folded, counted, open, keeper, lost>> /\ rows \in [Keys -> AggRow \cup {NoRow}]
  BY DEF Later, recVars, AggInv, AggTypes
<1>2. ASSUME NEW k \in Keys
      PROVE  /\ rows'[k] \in AggRow \cup {NoRow} /\ (rows'[k] = NoRow <=> rows[k] = NoRow)
             /\ rows[k] # NoRow => rows'[k].up = rows[k].up /\ rows'[k].conns = rows[k].conns
  <2>1. CASE k \in Rows(rows) /\ rows[k].age < Window
    <3>1. rows[k] \in AggRow
      BY <1>1, <2>1 DEF Rows
    <3> DEFINE w == [rows[k] EXCEPT !.age = @ + 1]
    <3>2. w \in AggRow /\ w.up = rows[k].up /\ w.conns = rows[k].conns
      BY <3>1 DEF AggRow
    <3>3. w \in [up : Nat, conns : Nat, age : Nat]
      <4>1. MaxTraffic \in Nat /\ Cardinality(Recs) \in Nat
        BY AggConstants, FS_CardinalityType
      <4> HIDE DEF w
      <4> QED
        BY <3>2, <4>1 DEF AggRow, Amts, Heads
    <3>4. rows'[k] = w
      BY <1>1, <2>1
    <3> HIDE DEF w
    <3> QED
      BY <2>1, <3>2, <3>3, <3>4, AggConstants DEF Rows
  <2>2. CASE ~(k \in Rows(rows) /\ rows[k].age < Window)
    BY <1>1, <2>2
  <2> QED
    BY <2>1, <2>2
<1>3. rows' \in [Keys -> AggRow \cup {NoRow}]
  BY <1>1, <1>2
<1>4. UpOf(rows') = UpOf(rows) /\ ConnsOf(rows') = ConnsOf(rows)
  BY <1>2 DEF UpOf, ConnsOf
<1>5. keeper'.left \in SUBSET Recs /\ open' \in SUBSET Recs
  BY <1>1 DEF AggInv, AggTypes
<1> QED
  BY <1>1, <1>3, <1>4, <1>5, AggStays

\* The rows are pruned under the lock, for the text or without it.
LEMMA AggPrunes ==
  ASSUME AggInv, Prunes, UNCHANGED recVars, keeper'.left = keeper.left
  PROVE  AggInv'
<1>1. PICK S \in Survivors(rows) :
        /\ rows' = [k \in Keys |-> IF k \in S THEN rows[k] ELSE NoRow]
        /\ lost' = [up |-> lost.up + Up(rows) - Up(rows'), conns |-> lost.conns + Amount(ConnsOf(rows)) - Amount(ConnsOf(rows'))]
  BY DEF Prunes
<1>2. S \in SUBSET Keys
  BY DEF Survivors, Rows
<1>3. keeper'.left \in SUBSET Recs /\ open' \in SUBSET Recs /\ UNCHANGED <<moved, folded, counted>>
  BY DEF recVars, AggInv, AggTypes
<1> QED
  BY <1>1, <1>2, <1>3, RowsGo

LEMMA AggClears ==
  ASSUME AggInv, ClearsRows
  PROVE  AggInv'
<1>1. /\ rows' = NoRows /\ lost' = [up |-> lost.up + Up(rows), conns |-> lost.conns + Amount(ConnsOf(rows))]
      /\ UNCHANGED <<moved, folded, counted, open, keeper>>
  BY DEF ClearsRows, recVars
<1>2. rows \in [Keys -> AggRow \cup {NoRow}] /\ keeper'.left \in SUBSET Recs /\ open' \in SUBSET Recs /\ lost.up \in Nat /\ lost.conns \in Nat
  BY <1>1 DEF AggInv, AggTypes
<1>3. Up(NoRows) = 0 /\ Amount(ConnsOf(NoRows)) = 0
  <2>1. UpOf(NoRows) \in [Keys -> {0}] /\ ConnsOf(NoRows) \in [Keys -> {0}]
    BY DEF NoRows, UpOf, ConnsOf
  <2> QED
    BY <2>1, AmountOfNothing DEF Up
<1>4. Up(rows) \in Nat /\ Amount(ConnsOf(rows)) \in Nat
  BY <1>2, Columns
<1>5. /\ rows' = [k \in Keys |-> IF k \in {} THEN rows[k] ELSE NoRow]
      /\ lost' = [up |-> lost.up + Up(rows) - Up(rows'), conns |-> lost.conns + Amount(ConnsOf(rows)) - Amount(ConnsOf(rows'))]
  <2>1. rows' = [k \in Keys |-> IF k \in {} THEN rows[k] ELSE NoRow]
    BY <1>1 DEF NoRows
  <2>2. /\ lost.up + Up(rows) = lost.up + Up(rows) - Up(rows')
        /\ lost.conns + Amount(ConnsOf(rows)) = lost.conns + Amount(ConnsOf(rows)) - Amount(ConnsOf(rows'))
    BY <1>1, <1>2, <1>3, <1>4
  <2> QED
    BY <1>1, <2>1, <2>2
<1>6. {} \in SUBSET Keys /\ UNCHANGED <<moved, folded, counted>>
  BY <1>1
<1> QED
  BY <1>2, <1>5, <1>6, RowsGo

LEMMA AggStep ==
  ASSUME AggInv, [AggNext]_aggVars
  PROVE  AggInv'
<1>1. rows \in [Keys -> AggRow \cup {NoRow}] /\ keeper.left \in SUBSET Recs /\ open \in SUBSET Recs
  BY DEF AggInv, AggTypes
<1>2. ASSUME UNCHANGED <<moved, folded, counted, rows, lost>>, keeper'.left \in SUBSET Recs, open' \in SUBSET Recs
      PROVE  AggInv'
  BY <1>1, <1>2, AggStays
<1>3. CASE HouseBegins
  <2>1. keeper' = [keeper EXCEPT !.at = "fold", !.left = open]
    BY <1>3 DEF HouseBegins
  <2>2. keeper'.left \in SUBSET Recs
    BY <1>1, <2>1 DEF AggInv, AggTypes
  <2> QED
    BY <1>1, <1>2, <1>3, <2>2 DEF HouseBegins, recVars
<1>4. CASE Sweeps
  <2>1. keeper'.left = keeper.left /\ open' \in SUBSET Recs
    BY <1>1, <1>4 DEF Sweeps
  <2> QED
    BY <1>1, <1>2, <1>4, <2>1 DEF Sweeps
<1>5. CASE HouseShows
  <2>1. keeper'.left = keeper.left
    BY <1>5 DEF HouseShows
  <2> QED
    BY <1>5, <2>1, AggPrunes DEF HouseShows
<1>6. CASE HouseStores
  <2>1. keeper'.left = keeper.left
    BY <1>6 DEF HouseStores
  <2> QED
    BY <1>1, <1>2, <1>6, <2>1 DEF HouseStores, recVars
<1>7. CASE ViewMakes
  BY <1>7, AggPrunes DEF ViewMakes
<1>8. CASE ViewStores \/ ViewAsksFor \/ DemandEnds \/ ClearsJson
  <2>1. UNCHANGED <<moved, folded, counted, rows, lost, open, keeper>>
    BY <1>8 DEF ViewStores, ViewAsksFor, DemandEnds, ClearsJson, recVars
  <2> QED
    BY <1>1, <1>2, <2>1
<1>9. CASE UNCHANGED aggVars
  BY <1>1, <1>2, <1>9 DEF aggVars
<1>10. CASE \E r \in Recs : FoldsRecord(r)
  BY <1>10, AggFolds
<1>11. CASE \E r \in Recs : RelaysBytes(r)
  BY <1>11, AggRelays
<1> QED
  BY <1>3, <1>4, <1>5, <1>6, <1>7, <1>8, <1>9, <1>10, <1>11, AggAges, AggClears DEF AggNext, AggHouse, AggView

\* Every byte that was folded is in one row, or left with one that was pruned or cleared,
\* and every connection was counted once, whatever is folded, pruned, shown and cleared
\* between two sections of the lock.  (AggTable::fold, prune, rebuild and clear of agg.rs.)
THEOREM RowsAccountForAll == AggSpec => []AggregateExact
<1>1. AggInit => AggInv
  <2> SUFFICES ASSUME AggInit
               PROVE  AggInv
    OBVIOUS
  <2>1. IsFiniteSet(Recs) /\ MaxTraffic \in Nat
    BY AggConstants
  <2>2. moved \in [Recs -> {0}] /\ folded \in [Recs -> {0}] /\ counted = [r \in Recs |-> FALSE] /\ rows = NoRows
        /\ lost.up = 0 /\ lost.conns = 0
    BY DEF AggInit
  <2>3. Traffic = 0 /\ Amount(folded) = 0
    BY <2>2, AmountOfNothing DEF Traffic
  <2>4. Up(rows) = 0 /\ Amount(ConnsOf(rows)) = 0
    <3>1. UpOf(NoRows) \in [Keys -> {0}] /\ ConnsOf(NoRows) \in [Keys -> {0}]
      BY DEF NoRows, UpOf, ConnsOf
    <3> QED
      BY <2>2, <3>1, AmountOfNothing DEF Up
  <2>5. Cardinality({r \in Recs : counted[r]}) = 0
    <3>1. {r \in Recs : counted[r]} = {}
      BY <2>2
    <3> QED
      BY <3>1, FS_EmptySet
  <2>6. AggTypes
    BY <2>1, <2>2 DEF AggTypes, AggInit, Amts, NoRows
  <2> QED
    BY <2>1, <2>2, <2>3, <2>4, <2>5, <2>6 DEF AggInv, AggregateExact
<1>2. AggInv /\ [AggNext]_aggVars => AggInv'
  BY AggStep
<1>3. AggInv => AggregateExact
  BY DEF AggInv
<1> QED
  BY <1>1, <1>2, <1>3, PTL DEF AggSpec
=============================================================================
