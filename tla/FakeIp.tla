------------------------------- MODULE FakeIp -------------------------------
(***************************************************************************)
(* What the fake-IP pool promises: each shard keeps the domains used last, *)
(* most recent first and at most Cap of them, each with an address of the  *)
(* shard's own slice that no other domain has.  How an address is chosen,  *)
(* and how the order is kept, is left open.                                *)
(***************************************************************************)
EXTENDS Naturals, SequencesExt

CONSTANTS
  Domain,  \* the names asked for
  Shards,  \* the shards
  Home,    \* the shard of each domain
  Addresses,   \* the addresses of each shard
  Cap,     \* how many domains a shard holds
  None     \* no address

VARIABLES
  recent,  \* per shard: its domains, the most recently used first
  addr     \* the address of each domain, or None

ipVars == <<recent, addr>>
-----------------------------------------------------------------------------
\* The i-th of a queue is the first now.
ToFront(q, i) == <<q[i]>> \o RemoveAt(q, i)

Free(s) == Addresses[s] \ {addr[d] : d \in ToSet(recent[s])}

Init ==
  /\ recent = [s \in Shards |-> <<>>]
  /\ addr = [d \in Domain |-> None]

\* A domain with an address is used: asked for again, or connected to.
Use(d) ==
  /\ addr[d] # None
  /\ \E i \in DOMAIN recent[Home[d]] :
       /\ recent[Home[d]][i] = d
       /\ recent' = [recent EXCEPT ![Home[d]] = ToFront(@, i)]
  /\ UNCHANGED addr

\* A new domain gets a free address while there is room.
Bind(d) ==
  /\ addr[d] = None
  /\ Len(recent[Home[d]]) < Cap
  /\ \E a \in Free(Home[d]) : addr' = [addr EXCEPT ![d] = a]
  /\ recent' = [recent EXCEPT ![Home[d]] = <<d>> \o @]

\* A full shard drops the domain used longest ago; its address is free at once.
Replace(d) ==
  LET s == Home[d]
      old == Last(recent[s])
  IN  /\ addr[d] = None
      /\ Len(recent[s]) = Cap
      /\ \E a \in Free(s) \cup {addr[old]} :
           addr' = [addr EXCEPT ![old] = None, ![d] = a]
      /\ recent' = [recent EXCEPT ![s] = <<d>> \o Front(@)]

Restart ==
  /\ recent' = [s \in Shards |-> <<>>]
  /\ addr' = [d \in Domain |-> None]

Next ==
  \/ \E d \in Domain : Use(d) \/ Bind(d) \/ Replace(d)
  \/ Restart

Spec == Init /\ [][Next]_ipVars
=============================================================================
