------------------------------ MODULE MCGroups ------------------------------
(***************************************************************************)
(* Small instances of components that serve clients by way of a shared     *)
(* resource and must not keep it: a smart group and the runners of all of  *)
(* them, the SOCKS5 pool, the sessions of the inbound proxies, and the     *)
(* forwarding of an HTTP request.  They have no common state.  part says   *)
(* which of them a behaviour is about, one of Parts; the others stay in    *)
(* one initial state.                                                      *)
(***************************************************************************)
EXTENDS SmartGroup, SmartRunners, SocksPool, Inbound, HttpForward, TLC

CONSTANTS Parts, n1, n2, c1, c2, ip

\* The losses of n1 can outweigh its lower delay.
TwoDelays == n1 :> 2 @@ n2 :> 3

\* Two groups; the other file gives the first one a url of its own, and names it a
\* second time with none.
Listed(name, url) == [name |-> name, url |-> url]
TwoPlans ==
  {<<Listed("g", ""), Listed("h", "u")>>,
   <<Listed("g", "u"), Listed("h", "u"), Listed("g", "")>>}

\* Of Compatible, no maximum is below a target of the other: a round can always fill
\* to its own.
Small == [min |-> 1, max |-> 1, timeout |-> 1]
Medium == [min |-> 1, max |-> 3, timeout |-> 1]
Large == [min |-> 2, max |-> 3, timeout |-> 2]
Compatible == {Medium, Large}
BothCfgs == {Small, Large}

\* Two associations of one client, which may have one.
SameClient == [c \in Conns |-> ip]
OpenPort == [c \in Conns |-> "open"]
OneSession == [open |-> 1, health |-> 1]

VARIABLE part

groupsVars == <<part, smartVars, runVars, vars, inVars, hfVars>>

GroupsInit ==
  /\ part \in Parts
  /\ SmartInit /\ RunInit /\ Init /\ InInit /\ HfInit
  /\ part # "runners" => plan = CHOOSE p \in Plans : TRUE
  /\ part # "smart" => health = [n \in Nodes |-> TRUE] /\ now = None

\* A bound of this instance: a change of health, a reload and a request that fails are
\* looked at apart, a failing request without a user.
OneUpset ==
  /\ spent'.flips + spent'.reloads + spent'.errors <= 1
  /\ spent'.user = 0 \/ spent'.errors = 0

GroupsNext ==
  /\ \/ part = "smart" /\ SmartNext /\ OneUpset /\ UNCHANGED <<runVars, vars, inVars, hfVars>>
     \/ part = "runners" /\ RunNext /\ UNCHANGED <<smartVars, vars, inVars, hfVars>>
     \/ part = "pool" /\ Next /\ UNCHANGED <<smartVars, runVars, inVars, hfVars>>
     \/ part = "inbound" /\ InNext /\ UNCHANGED <<smartVars, runVars, vars, hfVars>>
     \/ part = "forward" /\ HfNext /\ UNCHANGED <<smartVars, runVars, vars, inVars>>
  /\ UNCHANGED part

\* SmartFair, RunFair, the fairness of FairSpec, InFair and HfFair, each for the
\* behaviours of its part.
GroupsFairness ==
  /\ WF_smartVars(part = "smart" /\ RunnerStep) /\ WF_smartVars(part = "smart" /\ UserSelects)
  /\ \A n \in Nodes : WF_smartVars(part = "smart" /\ BackoffEnds(n))
  /\ WF_runVars(part = "runners" /\ SupStep)
  /\ \A t \in TaskIds : WF_runVars(part = "runners" /\ TaskStep(t))
  /\ \A a \in Clients : WF_vars(part = "pool" /\ ClientStep(a))
  /\ WF_vars(part = "pool" /\ WarmerRounds)
  /\ WF_vars(part = "pool" /\ WarmerNotified) /\ WF_vars(part = "pool" /\ WarmerTicks)
  /\ WF_inVars(part = "inbound" /\ InTick)
  /\ \A c \in Conns : /\ WF_inVars(part = "inbound" /\ AssocStep(c))
                      /\ WF_inVars(part = "inbound" /\ HandshakeTimesOut(c))
  /\ WF_hfVars(part = "forward" /\ HfStep)

GroupsSpec == GroupsInit /\ [][GroupsNext]_groupsVars /\ GroupsFairness
-----------------------------------------------------------------------------
\* FailsOver, of the behaviours that are about a smart group, and LockHolds.
GroupSettles == <>[](part = "smart" => OnLiveNode) /\ LockHolds

\* RunnersSettle, of those that are about the runners.
SupervisorSettles == <>[](part = "runners" => RunnersRight)

\* Refilled and RoundEnds, of those that are about the pool: the warmer answers every
\* call for it and comes to the end of every round.
WarmerServes == <>[](part = "pool" => Full) /\ []<>(part = "pool" => warmer.pc = "wait")

\* InboundSafe and IdleExact, and SessionsEnd of those that are about the inbound
\* proxies: sessions are within the budget, each is cut when it was idle and not
\* before, and gives back its permit.
SessionsRun == []InboundSafe /\ IdleExact /\ <>[](part = "inbound" => AllOver)

\* ForwardSafe and ResponseEnds: a request is forwarded as it is and the forwarding ends.
ForwardRuns == []ForwardSafe /\ ResponseEnds
=============================================================================
