------------------------------- MODULE Resolve -------------------------------
(***************************************************************************)
(* resolve_batch: worker threads take the node domains of a subscription   *)
(* one after the other and ask several DNS servers about each, a thread    *)
(* per server, within a budget for the domain and one for the batch.       *)
(* Time is counted in ticks; a tick passes only when nothing is due.       *)
(***************************************************************************)
EXTENDS Naturals, Sequences

CONSTANTS Resolvers,    \* the threads of the pool
          Domains,    \* how many domains there are
          Specs,      \* how many servers the subscription names
          Fallbacks,  \* public servers asked when none of them answered
          Total,      \* Budget::total
          PerDomain,  \* Budget::per_domain
          Hard,       \* HARD_TIMEOUT: the wait for one server
          Query,      \* QUERY_TIMEOUT: one question over UDP
          Ipv6,       \* AAAA is asked for after A
          MaxTime

ASSUME ResolveAssumption ==
  /\ Domains \in Nat /\ Specs \in Nat /\ Fallbacks \in Nat /\ MaxTime \in Nat
  /\ Total \in Nat /\ PerDomain \in Nat /\ Hard \in Nat /\ Query \in Nat
  /\ Ipv6 \in BOOLEAN

VARIABLES now, work, next, boot, ans, outcome

rsVars == <<now, work, next, boot, ans, outcome>>

RsFree == [at |-> "next", d |-> 0, dl |-> 0, i |-> 0, until |-> 0, got |-> {}]

RsInit == /\ now = 0 /\ next = 1
          /\ work = [w \in Resolvers |-> RsFree]
          /\ boot = "new"
          /\ ans = [w \in Resolvers |-> <<>>]
          /\ outcome = [d \in 1..Domains |-> "none"]

Expired(w) == now >= work[w].dl
\* Mutant: the wait for a server minds its own limit only.
ClampNever(w, want) == now + want
Clamp(w, want) == IF now + want < work[w].dl THEN now + want ELSE work[w].dl
WorkerGoes(w, f) == work' = [work EXCEPT ![w] = f]
LeastOf(a, b) == IF a < b THEN a ELSE b

TakesUntilLate(w) ==
  /\ work[w].at = "next"
  /\ next' = IF next <= Domains /\ now < Total THEN next + 1 ELSE next
  /\ WorkerGoes(w, IF next > Domains \/ now >= Total THEN [work[w] EXCEPT !.at = "done"]
              ELSE [RsFree EXCEPT !.at = "boot", !.d = next, !.dl = LeastOf(now + PerDomain, Total)])
  /\ UNCHANGED <<now, boot, ans, outcome>>

\* fetch_add on the shared index; a domain met after the deadline is skipped.
Takes(w) ==
  /\ work[w].at = "next"
  /\ next' = IF next <= Domains THEN next + 1 ELSE next
  /\ \/ next > Domains /\ WorkerGoes(w, [work[w] EXCEPT !.at = "done"]) /\ UNCHANGED outcome
     \/ /\ next <= Domains /\ now >= Total
        /\ outcome' = [outcome EXCEPT ![next] = "skipped"] /\ UNCHANGED work
     \/ /\ next <= Domains /\ now < Total
        /\ WorkerGoes(w, [RsFree EXCEPT !.at = "boot", !.d = next, !.dl = LeastOf(now + PerDomain, Total)])
        /\ UNCHANGED outcome
  /\ UNCHANGED <<now, boot, ans>>

\* The names of the encrypted servers are resolved once per process: the
\* first thread fills the cell, the others block on it.
Bootstraps(w) ==
  /\ work[w].at = "boot" /\ boot = "new" /\ ~Expired(w)
  /\ boot' = "busy"
  /\ WorkerGoes(w, [work[w] EXCEPT !.at = "booting", !.until = now + Query])
  /\ UNCHANGED <<now, next, ans, outcome>>

\* resolve_host_via: the second question, with a time limit of its own.
AsksAgain(w) ==
  /\ Ipv6 /\ work[w].at = "booting"
  /\ WorkerGoes(w, [work[w] EXCEPT !.at = "booting6", !.until = now + Query])
  /\ UNCHANGED <<now, next, boot, ans, outcome>>

Bootstrapped(w) ==
  /\ work[w].at = IF Ipv6 THEN "booting6" ELSE "booting"
  /\ boot' = "done"
  /\ WorkerGoes(w, [work[w] EXCEPT !.at = "boot", !.until = 0])
  /\ UNCHANGED <<now, next, ans, outcome>>

\* One thread per server; their answers come in any order, or never.
AsksServer(w) ==
  /\ work[w].at = "boot" /\ (boot = "done" \/ (boot = "new" /\ Expired(w)))
  /\ ans' = [ans EXCEPT ![w] = [i \in 1..Specs |-> "asked"]]
  /\ WorkerGoes(w, [work[w] EXCEPT !.at = "turn", !.i = 1])
  /\ UNCHANGED <<now, next, boot, outcome>>

ServerAnswers(w, i, a) ==
  /\ work[w].at \in {"turn", "wait"} /\ i >= work[w].i /\ ans[w][i] = "asked"
  /\ ans' = [ans EXCEPT ![w][i] = a]
  /\ UNCHANGED <<now, work, next, boot, outcome>>

\* The answers are collected in the order of the servers.
Received(w) == ans[w][work[w].i] # "asked"

Turn(w) ==
  /\ work[w].at = "turn"
  /\ \/ work[w].i > Specs /\ WorkerGoes(w, [work[w] EXCEPT !.at = "fb", !.i = 1, !.until = 0])
     \/ work[w].i <= Specs /\ Expired(w) /\ WorkerGoes(w, [work[w] EXCEPT !.i = @ + 1])   \* skipped(budget)
     \/ work[w].i <= Specs /\ ~Expired(w) /\ WorkerGoes(w, [work[w] EXCEPT !.at = "wait", !.until = Clamp(w, Hard)])
  /\ UNCHANGED <<now, next, boot, ans, outcome>>

\* An answer, or none in time; addresses nobody can use are dropped.
Absorbs(w) ==
  /\ work[w].at = "wait"
  /\ Received(w) \/ now >= work[w].until
  /\ WorkerGoes(w, [work[w] EXCEPT !.at = "turn", !.i = @ + 1, !.until = 0,
                             !.got = IF ans[w][work[w].i] = "ip" THEN @ \cup {work[w].i} ELSE @])
  /\ UNCHANGED <<now, next, boot, ans, outcome>>

\* When nothing was found the public servers are asked, one by one.
Fallback(w) ==
  /\ work[w].at = "fb"
  /\ IF work[w].got = {} /\ work[w].i <= Fallbacks /\ ~Expired(w)
     THEN WorkerGoes(w, [work[w] EXCEPT !.at = "asking", !.until = now + Query]) /\ UNCHANGED <<ans, outcome>>
     ELSE /\ outcome' = [outcome EXCEPT ![work[w].d] = IF work[w].got = {} THEN "failed" ELSE "resolved"]
          /\ WorkerGoes(w, RsFree)
          /\ ans' = [ans EXCEPT ![w] = <<>>]
  /\ UNCHANGED <<now, next, boot>>

FallbackAnswers(w, a) ==
  /\ work[w].at \in {"asking", "asking6"}
  /\ a = "none" => now >= work[w].until
  /\ LET got == IF a = "ip" THEN {Specs + work[w].i} ELSE work[w].got
     IN  WorkerGoes(w, IF Ipv6 /\ work[w].at = "asking"
                       THEN [work[w] EXCEPT !.at = "asking6", !.until = now + Query, !.got = got]
                       ELSE [work[w] EXCEPT !.at = "fb", !.i = @ + 1, !.until = 0, !.got = got])
  /\ UNCHANGED <<now, next, boot, ans, outcome>>

\* Time passes unless a step is due.
Waits == {"wait", "booting", "booting6", "asking", "asking6"}
WorkerRests(w) == \/ work[w].at = "done"
                  \/ work[w].at \in Waits /\ now < work[w].until /\ (work[w].at = "wait" => ~Received(w))
                  \/ work[w].at = "boot" /\ boot = "busy"

ClockTicks == /\ now < MaxTime /\ \A w \in Resolvers : WorkerRests(w)
              /\ \E w \in Resolvers : work[w].at # "done"
              /\ now' = now + 1
              /\ UNCHANGED <<work, next, boot, ans, outcome>>

RsStep(w) == \/ Takes(w) \/ Bootstraps(w) \/ AsksAgain(w) \/ Bootstrapped(w)
             \/ AsksServer(w) \/ Turn(w) \/ Absorbs(w) \/ Fallback(w)
             \/ \E a \in {"ip", "none"} : FallbackAnswers(w, a)

RsNext == \/ \E w \in Resolvers : \/ RsStep(w)
                                \/ \E i \in 1..Specs, a \in {"ip", "fake"} : ServerAnswers(w, i, a)
          \/ ClockTicks

RsFair == WF_rsVars(ClockTicks) /\ \A w \in Resolvers : WF_rsVars(RsStep(w))

RsSpec == RsInit /\ [][RsNext]_rsVars /\ RsFair

-----------------------------------------------------------------------------
(* Properties *)

\* resolve_host_via asks one or two questions and minds no budget but its own.
Slack == IF Ipv6 THEN 2 * Query ELSE Query

\* The budgets hold: the wait for a server never passes the domain's deadline, and the
\* domain is left at most one look-up (a question, or one for each family) after it,
\* whatever answers late or never, with a verdict for every domain taken.
WithinBudget ==
  /\ \A w \in Resolvers : work[w].at \notin {"next", "done"} =>
        now <= work[w].dl + IF work[w].at = "wait" THEN 0 ELSE Slack
  /\ \A d \in 1..Domains : d < next => outcome[d] # "none" \/ \E w \in Resolvers : work[w].d = d

\* The batch ends, and no domain is forgotten.
BatchDone == (\A w \in Resolvers : work[w].at = "done") /\ \A d \in 1..Domains : outcome[d] # "none"
BatchEnds == <>[]BatchDone

=============================================================================
