----------------------------- MODULE Placement -----------------------------
(***************************************************************************)
(* Where chunks go: the writes and repairs that ask the coordinator of the *)
(* proxy for containers while agents come and go (Coordinator).            *)
(*                                                                         *)
(* checkContainerLiveness and findSpareContainers (proxy/coordinator.cc)   *)
(* update the agents first when the liveness cache has expired, and lock   *)
(* _agentsLock anew for each part: a caller is a sequence of steps between *)
(* which agents register, are lost and are found again.                    *)
(***************************************************************************)
EXTENDS Coordinator, SequencesExt

CONSTANTS
    AgentSeq,     \* the agents in the order of their addresses (std::set, std::map)
    N, K, F,      \* codingMeta: n chunks, any k of which decode, for f agent failures
    Near,         \* the agents near the proxy
    Policies,     \* the data distribution policies: "RR", "STATIC", "LU"
    Stripes       \* the container ids of the stripes that may be repaired

ASSUME PlacementAssumption ==
    /\ Elems(AgentSeq) = Agents /\ Near \subseteq Agents
    /\ N \in Nat /\ K \in 1 .. N /\ F \in Nat
    /\ Stripes \subseteq Seq(Containers)

VARIABLES
    policy,    \* the policy configured
    first,     \* _startingAgentIdx
    start,     \* AgentInfo::startingContainerIndex, from 1
    cached,    \* whether _lastCheckedTime is recent
    place      \* the operation at hand

placeVars == <<policy, first, start, cached, place>>
vars == <<coordVars, placeVars>>

NoPlace == [pc |-> "idle", ids |-> <<>>, status |-> <<>>, want |-> 0,
            count |-> [a \in Agents |-> 0], spare |-> <<>>]

PlaceInit ==
    /\ Init
    /\ policy \in Policies
    /\ first = 0 /\ start = [a \in Agents |-> 1] /\ cached = FALSE
    /\ place = NoPlace
-----------------------------------------------------------------------------
\* No limit on the containers of a stripe on one agent.
NoLimit == N

\* The most containers of a stripe on one agent.
Limit == IF F > 0 THEN (N - K) \div F ELSE N

\* No containers at hand.
ExistingNone(p) == {}

\* The containers at hand that are alive.
Existing(p) == {p.ids[i] : i \in {j \in DOMAIN p.ids : p.status[j]}}

\* utilizationMap: the places of the containers of a, the emptier ones first.
Utilization(a) ==
    LET at == [j \in 1 .. Len(ContainerIds(a)) |-> j]
    IN SelectSeq(at, LAMBDA j : ContainerIds(a)[j] \notin seen) \o
       SelectSeq(at, LAMBDA j : ContainerIds(a)[j] \in seen)

\* One turn of the loop over the containers of agent a, of which cidx is next:
\* one at hand is skipped and counted, one too full is tried again, and any
\* other is selected, at once or (low) if nothing better is found.
Screen(p, a, low, s) ==
    LET ids == ContainerIds(a)
        c == ids[s.cidx]
        next == (s.cidx % Len(ids)) + 1
    IN CASE s.stop \/ Len(s.spare) >= p.want \/ s.local >= Limit -> s
         [] c \in Existing(p) -> [s EXCEPT !.cidx = next, !.local = @ + 1]
         [] c \in seen -> s
         [] OTHER ->
              [s EXCEPT
                 !.local = @ + 1,
                 !.skipped = IF low THEN Append(@, c) ELSE @,
                 !.spare = IF low THEN @ ELSE Append(@, c),
                 !.start = IF policy = "RR" /\ s.local = 0 /\ ~low
                           THEN [@ EXCEPT ![a] = next] ELSE @,
                 !.uit = IF policy = "LU" THEN @ + 1 ELSE @,
                 !.stop = policy = "LU" /\ s.uit = Len(ids),
                 !.cidx = IF policy # "LU" THEN next
                          ELSE IF s.uit < Len(ids) THEN Utilization(a)[s.uit + 1] ELSE @]

\* The turn of agent a: it is passed over when it holds enough of the stripe,
\* or, with "LU", has no container.
ScreenAgent(p, s, a) ==
    IF \/ Len(s.spare) >= p.want
       \/ p.count[a] >= Limit
       \/ policy = "LU" /\ ContainerIds(a) = <<>>
    THEN s
    ELSE LET low == s.agents < first \/ (policy = "STATIC" /\ a \notin Near)
             from == [s EXCEPT !.local = 0, !.uit = 1, !.stop = FALSE,
                        !.cidx = IF policy = "LU" THEN Utilization(a)[1] ELSE start[a]]
             to == FoldLeft(LAMBDA t, j : Screen(p, a, low, t), from, ContainerIds(a))
         IN IF Len(to.spare) >= p.want THEN to ELSE [to EXCEPT !.agents = @ + 1]

\* What findSpareContainers does once it has counted what is at hand: the turns
\* of the live agents, and then the containers set aside.
Selected(p) ==
    LET init == [spare |-> <<>>, skipped |-> <<>>, start |-> start, agents |-> 0,
                 local |-> 0, cidx |-> 1, uit |-> 1, stop |-> FALSE]
        s == FoldLeft(LAMBDA t, a : ScreenAgent(p, t, a), init,
                      SelectSeq(AgentSeq, LAMBDA a : a \in alive))
        more == p.want - Len(s.spare)
    IN [start |-> s.start,
        spare |-> s.spare \o SubSeq(s.skipped, 1, IF more < Len(s.skipped) THEN more ELSE Len(s.skipped))]
-----------------------------------------------------------------------------
(* The steps of an operation. *)

\* A write of a new stripe looks for n containers, without any at hand.
BeginWrite ==
    /\ preset = {} /\ place.pc = "idle" /\ Fault
    /\ place' = [NoPlace EXCEPT !.pc = "spare", !.want = N]
    /\ UNCHANGED <<proxyVars, agentVars, gone, inbox, full, policy, first, start, cached>>

\* A repair first asks which chunks of its stripe are alive.
BeginRepair(ids) ==
    /\ preset = {} /\ place.pc = "idle" /\ Fault
    /\ place' = [NoPlace EXCEPT !.pc = "check", !.ids = ids]
    /\ UNCHANGED <<proxyVars, agentVars, gone, inbox, full, policy, first, start, cached>>

\* The cache of the liveness expires.
Expire ==
    /\ cached /\ cached' = FALSE
    /\ UNCHANGED <<coordVars, policy, first, start, place>>

\* Both functions update the agents when the cache has expired.
UpdateFirst(L, got) ==
    /\ place.pc \in {"check", "spare"} /\ preset = {} /\ ~cached
    /\ updateAgentStatus(L, got)
    /\ cached' = TRUE
    /\ UNCHANGED <<policy, first, start, place>>

\* A container is alive if it is mapped to an agent, and the agent is alive.
checkContainerLiveness ==
    /\ place.pc = "check" /\ cached
    /\ LET status == [i \in DOMAIN place.ids |-> map[place.ids[i]] \in alive]
           failed == Cardinality({i \in DOMAIN status : ~status[i]})
       IN place' = IF failed = 0 THEN NoPlace
                   ELSE [place EXCEPT !.pc = "spare", !.status = status, !.want = failed]
    /\ UNCHANGED <<coordVars, policy, first, start, cached>>

\* The containers at hand are counted by agent, before the lock is taken.
CountExisting ==
    /\ place.pc = "spare" /\ cached
    /\ place' = [place EXCEPT !.pc = "select",
          !.count = [a \in Agents |-> Cardinality({c \in Existing(place) : map[c] = a})]]
    /\ UNCHANGED <<coordVars, policy, first, start, cached>>

\* The selection, under the lock.
findSpareContainers ==
    /\ place.pc = "select"
    /\ LET s == Selected(place)
       IN /\ place' = [place EXCEPT !.pc = "done", !.spare = s.spare,
                        !.count = [a \in Agents |->
                           Cardinality({i \in DOMAIN s.spare : map[s.spare[i]] = a})]]
          /\ start' = s.start
    /\ first' = IF policy = "RR" /\ alive # {} THEN (first + 1) % Cardinality(alive) ELSE first
    /\ UNCHANGED <<coordVars, policy, cached>>

\* The caller has its containers.
Return ==
    /\ place.pc = "done"
    /\ place' = NoPlace
    /\ UNCHANGED <<coordVars, policy, first, start, cached>>

\* A registration accepted comes with a new AgentInfo, whose first container is
\* next.
NewInfo(a, s, accepted) ==
    /\ start' = IF accepted /\ Duplicated(a, s) = {} THEN [start EXCEPT ![a] = 1] ELSE start
    /\ UNCHANGED <<policy, first, cached, place>>

Registers == \E m \in inbox : Register(m) /\ NewInfo(m.agent, m.ids, TRUE)

Presets == \E a \in preset : RegisterPreset(a) /\ NewInfo(a, conf[a], a \in up)

Pings == \E a \in gone, L \in SUBSET up : PingAgents(a, L) /\ UNCHANGED placeVars

Updates == UpdateAgentStatus /\ UNCHANGED placeVars

\* A restart of the proxy ends the operation.
Restart ==
    /\ ProxyRestart
    /\ first' = 0 /\ start' = [a \in Agents |-> 1] /\ cached' = FALSE
    /\ place' = NoPlace
    /\ UNCHANGED policy

Environment ==
    /\ \/ \E a \in Agents : \E s \in Configs[a] : registerToProxy(a, s)
       \/ \E a \in Agents, kept \in BOOLEAN : Crash(a, kept) \/ on_event_connected(a, kept)
       \/ \E c \in Containers : Fill(c)
    /\ UNCHANGED placeVars

PlaceNext ==
    \/ Registers \/ Presets \/ Pings \/ Updates \/ Restart \/ Environment
    \/ BeginWrite
    \/ \E ids \in Stripes : BeginRepair(ids)
    \/ Expire
    \/ \E L \in SUBSET up, got \in BOOLEAN : UpdateFirst(L, got)
    \/ checkContainerLiveness \/ CountExisting \/ findSpareContainers \/ Return

PlaceSpec == PlaceInit /\ [][PlaceNext]_vars

\* The proxy gets through the agents it is configured with, and its background
\* repair updates the agents periodically; registrations and pings of the
\* monitor are not relied on.
PlaceFairSpec == PlaceSpec /\ WF_vars(Presets) /\ WF_vars(Updates)
-----------------------------------------------------------------------------
(* Properties. *)

\* The containers that an operation is given are not among those of its stripe
\* that are alive, although agents come and go between the check of the stripe
\* and the selection; and they are different from each other, for a new stripe
\* with each policy.  For a repair "LU" is the exception: a container at hand is
\* passed over by its place (coordinator.cc:270-276), not in the order of use,
\* and the one after it may then come up a second time (coordinator.cc:300-304).
SpareDistinct ==
    place.pc = "done" =>
        /\ policy # "LU" \/ Existing(place) = {} =>
              \A i, j \in DOMAIN place.spare : place.spare[i] = place.spare[j] => i = j
        /\ \A i \in DOMAIN place.spare, j \in DOMAIN place.ids :
              place.status[j] => place.spare[i] # place.ids[j]

\* A stripe written to all its n containers survives the loss of any f agents:
\* no f of them hold more than n - k of its chunks.
NewStripeSurvives ==
    place.pc = "done" /\ place.ids = <<>> /\ Len(place.spare) = N =>
        \A X \in SUBSET Agents :
            Cardinality(X) = F =>
                Cardinality({i \in 1 .. N : \E a \in X : place.spare[i] \in listed[a]}) <= N - K
=============================================================================
