---------------------------- MODULE Coordinator ----------------------------
(***************************************************************************)
(* Which agents are alive, and which agent serves which container.         *)
(*                                                                         *)
(* The coordinator of the proxy (proxy/coordinator.cc) learns of agents    *)
(* from the registrations their coordinators send (agent/coordinator.cc),  *)
(* pings all of them when a connection closes, and asks all of them for    *)
(* their status before it places or checks chunks.  Registration, ping and *)
(* update each run under _agentsLock from end to end, so each is one step. *)
(***************************************************************************)
EXTENDS Integers, Sequences, FiniteSets

CONSTANTS
    Agents,       \* the agents, by the IP address the proxy files them under
    Containers,   \* the container ids
    Nil,          \* no agent
    Configs,      \* Configs[a]: the lists of containers agent a may be started with
    Preset,       \* the agents of agent_list, which the proxy connects to when it starts
    Fillable,     \* the containers that may run out of space
    MaxEvents     \* bound on the faults (and, in Placement, the operations)

ASSUME CoordinatorAssumption ==
    /\ Nil \notin Agents /\ Preset \subseteq Agents
    /\ MaxEvents \in Nat
    /\ Configs \in [Agents -> SUBSET Seq(Containers)]
    /\ \A s \in UNION {Configs[a] : a \in Agents} :
          \A i, j \in DOMAIN s : s[i] = s[j] => i = j

VARIABLES
    map,       \* _containerToAgentMap: the agent of each container, or Nil
    order,     \* order[a]: the containers of the registration of a last accepted
    listed,    \* listed[a]: the containers still in the AgentInfo of a
    alive,     \* _aliveAgents, and the agents whose _agentStatus is true
    sock,      \* AgentInfo::socket: "none" (NULL), "ready", or "waiting" for a reply
    seen,      \* the containers whose usage, as last reported, leaves no space
    preset,    \* what registerPresetAgents has still to connect to
    gone,      \* the agents with a disconnection the monitor has not handled
    inbox,     \* the registrations received on _socket
    up,        \* the agents that run
    conf,      \* conf[a]: the containers agent a runs with
    reg,       \* reg[a]: where the registration of a is
    watching,  \* the agents whose monitor registers again on a new connection
    full,      \* the containers without space
    missed,    \* the running agents that left a request unanswered since they registered
    events     \* the faults so far

proxyVars == <<map, order, listed, alive, sock, seen, preset, missed>>
agentVars == <<up, conf, reg, watching>>
coordVars == <<proxyVars, agentVars, gone, inbox, full, events>>

Elems(s) == {s[i] : i \in DOMAIN s}

\* A registration: its sender, its containers, and whether the sender still
\* waits for the reply on the connection it came from.
Registration == [agent : Agents, ids : Seq(Containers), live : BOOLEAN]

\* The containers of an AgentInfo: the array of the registration, without the
\* ids that registerAgent moved to another agent.
ContainerIds(a) == SelectSeq(order[a], LAMBDA c : c \in listed[a])

Init ==
    /\ map = [c \in Containers |-> Nil]
    /\ order = [a \in Agents |-> <<>>]
    /\ listed = [a \in Agents |-> {}]
    /\ alive = {} /\ sock = [a \in Agents |-> "none"] /\ seen = {}
    /\ preset = Preset /\ gone = {} /\ inbox = {}
    /\ up = {} /\ conf = [a \in Agents |-> <<>>]
    /\ reg = [a \in Agents |-> "idle"] /\ watching = {}
    /\ full = {} /\ missed = {} /\ events = 0

Fault == events < MaxEvents /\ events' = events + 1
-----------------------------------------------------------------------------
(* The proxy. *)

setAgentAlive(a) == alive' = alive \cup {a}

\* No place of the list s, as if every other agent were down.
DuplicatedNone(a, s) == {}

\* The places of the list s whose container an agent other than a holds, alive.
Duplicated(a, s) ==
    {i \in DOMAIN s : map[s[i]] \notin {Nil, a} /\ map[s[i]] \in alive}

\* The containers of s that registerAgent comes to before the first of those.
Taken(a, s) == {s[i] : i \in {j \in DOMAIN s : \A d \in Duplicated(a, s) : j < d}}

\* The containers that stay in each AgentInfo when those of s are taken from
\* the agents they were mapped to.
Left(a, s) ==
    LET taken == Taken(a, s) IN [b \in Agents |-> {c \in listed[b] : ~(c \in taken /\ map[c] = b)}]

\* The map as a registration that fails would leave it without its clean-up.
UnmapNone(a, T) == [c \in Containers |-> IF c \in T THEN a ELSE map[c]]

\* The map after a registration of a that took the containers T fails.
Unmap(a, T) == [c \in Containers |-> IF c \in T THEN Nil ELSE map[c]]

\* The sockets if an agent that registers again kept the one it has.
NewSocketOnce(a) == [sock EXCEPT ![a] = IF @ = "none" THEN "ready" ELSE @]

\* A new socket for agent a.
NewSocket(a) == [sock EXCEPT ![a] = "ready"]

\* An agent registers with the containers s.  A container of an agent that is
\* not alive changes hands; one of a live agent fails the registration, which
\* unmaps what it had taken.  On success a new socket replaces the old one.
registerAgent(a, s) ==
    \/ /\ Duplicated(a, s) = {}
       /\ map' = [c \in Containers |->
             IF c \in Taken(a, s) THEN a
             ELSE IF c \in Left(a, s)[a] THEN Nil ELSE map[c]]
       /\ listed' = [Left(a, s) EXCEPT ![a] = Taken(a, s)]
       /\ order' = [order EXCEPT ![a] = s]
       /\ setAgentAlive(a)
       /\ sock' = NewSocket(a)
       /\ seen' = (seen \ Elems(s)) \cup (full \cap Elems(s))
       /\ missed' = missed \ {a}
    \/ /\ Duplicated(a, s) # {}
       /\ map' = Unmap(a, Taken(a, s))
       /\ listed' = Left(a, s)
       /\ UNCHANGED <<order, alive, sock, seen, missed>>

\* The loop of the coordinator receives a registration and replies.
Register(m) ==
    /\ preset = {} /\ m \in inbox
    /\ inbox' = inbox \ {m}
    /\ registerAgent(m.agent, m.ids)
    /\ reg' = IF ~m.live THEN reg
              ELSE [reg EXCEPT ![m.agent] =
                      IF Duplicated(m.agent, m.ids) = {} THEN "done" ELSE "refused"]
    /\ watching' = IF m.live /\ Duplicated(m.agent, m.ids) = {}
                   THEN watching \cup {m.agent} ELSE watching
    /\ UNCHANGED <<preset, gone, up, conf, full, events>>

\* registerPresetAgents asks an agent of its list for its status and, when it
\* answers, registers it with the containers of the answer.
RegisterPreset(a) ==
    /\ a \in preset
    /\ preset' = preset \ {a}
    /\ IF a \in up THEN registerAgent(a, conf[a])
       ELSE UNCHANGED <<map, order, listed, alive, sock, seen, missed>>
    /\ UNCHANGED <<gone, inbox, agentVars, full, events>>

\* The running agents that do not answer in time: none, or one and a fault.
Late(L) == \/ L = {} /\ UNCHANGED events
           \/ Fault /\ \E a \in up : L = {a}

\* The agents D are set down.
setAgentDown(D) == alive' = alive \ D

\* No agent, as if a socket could always send.
UnsendableNone == {}

\* The agents that cannot be sent a request: the reply to the last one is missing.
Unsendable == {a \in Agents : sock[a] = "waiting"}

\* A connection to the proxy closed: every agent with a socket is pinged, and
\* is down unless its PONG comes in time.  A socket that still waits for an
\* earlier reply cannot send.
PingAgents(a, L) ==
    /\ preset = {} /\ a \in gone
    /\ gone' = gone \ {a}
    /\ Late(L)
    /\ LET D == Unsendable \cup {b \in Agents : sock[b] = "ready" /\ b \notin up \ L}
       IN /\ setAgentDown(D)
          /\ sock' = [b \in Agents |-> IF b \in D THEN "none" ELSE sock[b]]
    /\ missed' = missed \cup L
    /\ UNCHANGED <<map, order, listed, seen, preset, agentVars, inbox, full>>

\* The containers found full once the agents A have answered: the usage stored
\* for the j-th container of the AgentInfo is that of the j-th container the
\* agent reports, if the agent reports that container at all.
Reported(A) ==
    LET ids == [a \in A |-> ContainerIds(a)] IN
    {c \in Containers :
        IF \E a \in A : \E j \in DOMAIN ids[a] \cap DOMAIN conf[a] : ids[a][j] = c /\ c \in Elems(conf[a])
        THEN \E a \in A : \E j \in DOMAIN ids[a] \cap DOMAIN conf[a] : ids[a][j] = c /\ conf[a][j] \in full
        ELSE c \in seen}

\* Every agent with a socket is asked for its status, and then for its system
\* info.  One that cannot be asked is down; one that does not answer stays as
\* it was, with a socket that waits for the reply.  An agent that is late with
\* its system info has answered the first request (got).
updateAgentStatus(L, got) ==
    LET answered == {a \in up : sock[a] = "ready" /\ (a \notin L \/ got)}
    IN /\ Late(L)
       /\ setAgentDown(Unsendable)
       /\ sock' = [a \in Agents |->
             CASE a \in Unsendable -> "none"
               [] sock[a] = "ready" /\ a \notin up \ L -> "waiting"
               [] OTHER -> sock[a]]
       /\ seen' = Reported(answered)
       /\ missed' = missed \cup L
       /\ UNCHANGED <<map, order, listed, preset, agentVars, gone, inbox, full>>

\* The update of the status report, the free-space check of the background
\* repair and the other callers of updateAgentStatus.
UpdateAgentStatus ==
    /\ preset = {}
    /\ \E L \in SUBSET up, got \in BOOLEAN : updateAgentStatus(L, got)

\* The proxy restarts: its maps are empty, what was in its sockets is lost, and
\* every agent connects again.
ProxyRestart ==
    /\ Fault
    /\ map' = [c \in Containers |-> Nil]
    /\ order' = [a \in Agents |-> <<>>]
    /\ listed' = [a \in Agents |-> {}]
    /\ alive' = {} /\ sock' = [a \in Agents |-> "none"] /\ seen' = {}
    /\ preset' = Preset /\ gone' = {}
    /\ LET again == {a \in watching : reg[a] # "waiting"}
       IN /\ inbox' = {[agent |-> a, ids |-> conf[a], live |-> TRUE] : a \in again}
          /\ reg' = [a \in Agents |-> IF a \in again THEN "waiting" ELSE reg[a]]
    /\ missed' = {}
    /\ UNCHANGED <<up, conf, watching, full>>
-----------------------------------------------------------------------------
(* The agents. *)

\* An agent starts with a list of containers and sends its registration.
registerToProxy(a, s) ==
    /\ a \notin up
    /\ up' = up \cup {a}
    /\ conf' = [conf EXCEPT ![a] = s]
    /\ reg' = [reg EXCEPT ![a] = "waiting"]
    /\ inbox' = inbox \cup {[agent |-> a, ids |-> s, live |-> TRUE]}
    /\ UNCHANGED <<proxyVars, watching, gone, full, events>>

\* What is left of the messages of a when its connection closes: one that had
\* arrived stays, but its reply goes nowhere (kept), one under way is lost.
Orphaned(a, kept) ==
    {m \in inbox : m.agent # a} \cup
    {[m EXCEPT !.live = FALSE] : m \in {n \in inbox : n.agent = a /\ kept}}

\* An agent stops.
Crash(a, kept) ==
    /\ a \in up /\ Fault
    /\ up' = up \ {a} /\ watching' = watching \ {a}
    /\ reg' = [reg EXCEPT ![a] = "idle"]
    /\ inbox' = Orphaned(a, kept)
    /\ gone' = gone \cup {a}
    /\ UNCHANGED <<proxyVars, conf, full>>

\* The connection of an agent breaks and comes back.  The monitor registers
\* again, unless the agent is in the middle of a registration: then it waits
\* for a reply that does not come any more.
on_event_connected(a, kept) ==
    /\ a \in up /\ Fault
    /\ gone' = gone \cup {a}
    /\ IF a \in watching /\ reg[a] # "waiting"
       THEN /\ inbox' = Orphaned(a, kept) \cup {[agent |-> a, ids |-> conf[a], live |-> TRUE]}
            /\ reg' = [reg EXCEPT ![a] = "waiting"]
       ELSE inbox' = Orphaned(a, kept) /\ UNCHANGED reg
    /\ UNCHANGED <<proxyVars, up, conf, watching, full>>

\* A container runs out of space.
Fill(c) ==
    /\ c \in Fillable \ full
    /\ full' = full \cup {c}
    /\ UNCHANGED <<proxyVars, agentVars, gone, inbox, events>>

Next ==
    \/ \E m \in inbox : Register(m)
    \/ \E a \in preset : RegisterPreset(a)
    \/ \E a \in gone, L \in SUBSET up : PingAgents(a, L)
    \/ UpdateAgentStatus
    \/ ProxyRestart
    \/ \E a \in Agents : \E s \in Configs[a] : registerToProxy(a, s)
    \/ \E a \in Agents, kept \in BOOLEAN : Crash(a, kept) \/ on_event_connected(a, kept)
    \/ \E c \in Containers : Fill(c)

Spec == Init /\ [][Next]_coordVars
-----------------------------------------------------------------------------
(* Properties. *)

\* Every variable keeps its type.
TypeOK ==
    /\ map \in [Containers -> Agents \cup {Nil}]
    /\ order \in [Agents -> Seq(Containers)] /\ listed \in [Agents -> SUBSET Containers]
    /\ alive \subseteq Agents /\ sock \in [Agents -> {"none", "ready", "waiting"}]
    /\ seen \subseteq Containers /\ full \subseteq Containers
    /\ preset \subseteq Preset /\ gone \subseteq Agents
    /\ inbox \subseteq Registration
    /\ up \subseteq Agents /\ conf \in [Agents -> Seq(Containers)]
    /\ reg \in [Agents -> {"idle", "waiting", "done", "refused"}]
    /\ watching \subseteq up /\ missed \subseteq Agents

\* A container is mapped to an agent exactly when it is in the container list
\* of that agent, whatever registrations succeed, fail half-way, or move
\* containers between agents (registerAgent edits the two structures apart).
RoutesMatch == \A c \in Containers, a \in Agents : map[c] = a <=> c \in listed[a]

\* A container of an agent that is alive stays with it: only a registration of
\* that agent itself, or a restart of the proxy, takes it away, and never to
\* another agent (the test of _agentStatus in registerAgent).
NoTakeover ==
    [][\A c \in Containers : map[c] \in alive /\ map'[c] # map[c] => map'[c] = Nil]_coordVars

\* An agent that runs, whose last registration was accepted, and that has
\* answered everything since, is alive: neither what was sent to it before it
\* registered nor a ping caused by another agent takes it down.
LiveAgentsKept ==
    \A a \in up : reg[a] = "done" /\ a \notin missed => a \in alive

\* An agent that has stopped does not stay alive for ever, even when its
\* registration is handled after its disconnection.
DeadNoticed == \A a \in Agents : a \notin up ~> (a \notin alive \/ a \in up)
=============================================================================
