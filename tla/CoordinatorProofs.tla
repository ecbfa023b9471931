------------------------- MODULE CoordinatorProofs -------------------------
(***************************************************************************)
(* Proofs about Coordinator, for any agents, containers and container      *)
(* lists, and any number of faults.                                        *)
(***************************************************************************)
EXTENDS Coordinator, TLAPS

\* What the agents know of their registrations: a reply is awaited by an agent
\* that runs and awaits no other, and an agent whose registration was accepted
\* watches its connection, so it registers again when the proxy restarts.
AgentsAgree ==
    /\ \A m \in inbox : m.live => m.agent \in up /\ reg[m.agent] = "waiting"
    /\ \A m, n \in inbox : m.live /\ n.live /\ m.agent = n.agent => m = n
    /\ \A a \in Agents : reg[a] = "done" => a \in watching

\* The socket of an agent that has answered everything since it registered is
\* ready for a request.
SocketsReady ==
    \A a \in up : reg[a] = "done" /\ a \notin missed => a \in alive /\ sock[a] = "ready"

CoordInv == TypeOK /\ AgentsAgree /\ SocketsReady /\ RoutesMatch

\* The types of the constants, which is all these proofs need of them.
LEMMA ConstantTypes ==
  /\ Nil \notin Agents /\ Preset \subseteq Agents /\ MaxEvents \in Nat
  /\ Configs \in [Agents -> SUBSET Seq(Containers)]
  BY CoordinatorAssumption, Zenon

\* What registerAgent leaves behind.
LEMMA RegisterEffect ==
  ASSUME TypeOK, RoutesMatch, NEW a \in Agents, NEW s \in Seq(Containers), registerAgent(a, s)
  PROVE  /\ map' \in [Containers -> Agents \cup {Nil}]
         /\ order' \in [Agents -> Seq(Containers)] /\ listed' \in [Agents -> SUBSET Containers]
         /\ alive' \subseteq Agents /\ sock' \in [Agents -> {"none", "ready", "waiting"}]
         /\ seen' \subseteq Containers /\ missed' \subseteq Agents
         /\ RoutesMatch'
         /\ \A c \in Containers : map[c] \in alive /\ map'[c] # map[c] => map'[c] = Nil
         /\ alive \subseteq alive'
         /\ \A b \in Agents \ {a} : sock'[b] = sock[b] /\ (b \in missed' <=> b \in missed)
         /\ Duplicated(a, s) = {} => a \in alive' /\ sock'[a] = "ready" /\ a \notin missed'
         /\ Duplicated(a, s) # {} => alive' = alive /\ sock' = sock /\ missed' = missed
  <1> USE ConstantTypes
  <1>1. Taken(a, s) \subseteq Containers /\ Elems(s) \subseteq Containers
    BY DEF Taken, Elems
  <1>2. Left(a, s) \in [Agents -> SUBSET Containers]
    BY Zenon DEF Left, TypeOK
  <1>3. \A b \in Agents, c \in Containers :
            c \in Left(a, s)[b] <=> c \in listed[b] /\ c \notin Taken(a, s)
    BY Zenon DEF Left, RoutesMatch, TypeOK
  <1>4. CASE Duplicated(a, s) = {}
    <2>1. map' = [c \in Containers |->
             IF c \in Taken(a, s) THEN a
             ELSE IF c \in Left(a, s)[a] THEN Nil ELSE map[c]]
          /\ listed' = [Left(a, s) EXCEPT ![a] = Taken(a, s)]
          /\ order' = [order EXCEPT ![a] = s] /\ alive' = alive \cup {a}
          /\ sock' = [sock EXCEPT ![a] = "ready"]
          /\ seen' = (seen \ Elems(s)) \cup (full \cap Elems(s))
          /\ missed' = missed \ {a}
      BY <1>4, Zenon DEF registerAgent, setAgentAlive, NewSocket
    <2>2. Taken(a, s) = Elems(s)
      BY <1>4, Zenon DEF Taken, Elems
    <2>3. \A c \in Taken(a, s) : map[c] \in {Nil, a} \/ map[c] \notin alive
      BY <1>4, <2>2, Zenon DEF Duplicated, Elems
    <2>4. RoutesMatch'
      BY <1>1, <1>2, <1>3, <2>1 DEF RoutesMatch, TypeOK
    <2>5. \A c \in Containers : map[c] \in alive /\ map'[c] # map[c] => map'[c] = Nil
      BY <1>3, <2>1, <2>3, Zenon DEF TypeOK
    <2> QED
      BY <1>1, <1>2, <1>4, <2>1, <2>4, <2>5, Zenon DEF TypeOK
  <1>5. CASE Duplicated(a, s) # {}
    <2>1. /\ map' = [c \in Containers |-> IF c \in Taken(a, s) THEN Nil ELSE map[c]]
          /\ listed' = Left(a, s) /\ UNCHANGED <<order, alive, sock, seen, missed>>
      BY <1>5, Zenon DEF registerAgent, Unmap
    <2>2. RoutesMatch'
      BY <1>1, <1>2, <1>3, <2>1 DEF RoutesMatch, TypeOK
    <2> QED
      BY <1>2, <1>5, <2>1, <2>2, Zenon DEF TypeOK
  <1> QED
    BY <1>4, <1>5, Zenon

\* The containers of a registration.
LEMMA RegistrationType ==
  ASSUME NEW m \in Registration
  PROVE  m.agent \in Agents /\ m.ids \in Seq(Containers) /\ m.live \in BOOLEAN
  BY ConstantTypes, Zenon DEF Registration

\* CoordInv holds at the start.
LEMMA CoordInvInit == Init => CoordInv
  BY ConstantTypes
  DEF Init, CoordInv, TypeOK, AgentsAgree, SocketsReady, RoutesMatch

\* CoordInv is kept by the actions of the proxy that register an agent.
LEMMA CoordInvRegister ==
  ASSUME CoordInv, \/ \E m \in inbox : Register(m)
                   \/ \E a \in preset : RegisterPreset(a)
  PROVE  CoordInv' /\ \A c \in Containers : map[c] \in alive /\ map'[c] # map[c] => map'[c] = Nil
  <1> USE ConstantTypes
  <1> TypeOK /\ RoutesMatch /\ AgentsAgree /\ SocketsReady
    BY Zenon DEF CoordInv
  <1>1. ASSUME NEW m \in inbox, Register(m)
        PROVE  CoordInv' /\ \A c \in Containers : map[c] \in alive /\ map'[c] # map[c] => map'[c] = Nil
    <2>1. m \in Registration
      BY Zenon DEF TypeOK
    <2>2. m.agent \in Agents /\ m.ids \in Seq(Containers) /\ m.live \in BOOLEAN
      BY <2>1, RegistrationType, Zenon
    <2>3. registerAgent(m.agent, m.ids)
      BY <1>1, Zenon DEF Register
    <2> HIDE DEF registerAgent
    <2>4. /\ inbox' = inbox \ {m}
          /\ reg' = IF ~m.live THEN reg
                    ELSE [reg EXCEPT ![m.agent] =
                            IF Duplicated(m.agent, m.ids) = {} THEN "done" ELSE "refused"]
          /\ watching' = IF m.live /\ Duplicated(m.agent, m.ids) = {}
                         THEN watching \cup {m.agent} ELSE watching
          /\ UNCHANGED <<preset, gone, up, conf, full, events>>
      BY <1>1, Zenon DEF Register
    <2>5. TypeOK'
      <3>1. m.live => m.agent \in up
        BY Zenon DEF AgentsAgree
      <3>2. watching' \subseteq up' /\ reg' \in [Agents -> {"idle", "waiting", "done", "refused"}]
        BY <2>2, <2>4, <3>1, Zenon DEF TypeOK
      <3> QED
        BY <2>2, <2>3, <2>4, <3>2, RegisterEffect, Zenon DEF TypeOK
    <2>6. AgentsAgree'
      <3>1. \A n \in inbox' : n.live => n.agent \in up' /\ reg'[n.agent] = "waiting"
        BY <2>2, <2>4, RegistrationType, Zenon DEF AgentsAgree, TypeOK
      <3>2. \A n, o \in inbox' : n.live /\ o.live /\ n.agent = o.agent => n = o
        BY <2>4, Zenon DEF AgentsAgree
      <3>3. \A a \in Agents : reg'[a] = "done" => a \in watching'
        BY <2>2, <2>4, Zenon DEF AgentsAgree, TypeOK
      <3> QED
        BY <3>1, <3>2, <3>3, Zenon DEF AgentsAgree
    <2>7. SocketsReady'
      <3>1. /\ alive \subseteq alive'
            /\ \A b \in Agents \ {m.agent} : sock'[b] = sock[b] /\ (b \in missed' <=> b \in missed)
            /\ Duplicated(m.agent, m.ids) = {} =>
                 m.agent \in alive' /\ sock'[m.agent] = "ready" /\ m.agent \notin missed'
            /\ Duplicated(m.agent, m.ids) # {} => alive' = alive /\ sock' = sock /\ missed' = missed
        BY <2>2, <2>3, RegisterEffect, ZenonT(30)
      <3>2. ASSUME NEW b \in up', reg'[b] = "done", b \notin missed'
            PROVE  b \in alive' /\ sock'[b] = "ready"
        <4>1. b \in Agents /\ b \in up /\ reg \in [Agents -> {"idle", "waiting", "done", "refused"}]
          BY <2>4, Zenon DEF TypeOK
        <4>2. CASE b # m.agent
          BY <2>4, <3>1, <3>2, <4>1, <4>2, Zenon DEF SocketsReady
        <4>3. CASE b = m.agent
          BY <2>4, <3>1, <3>2, <4>1, <4>3, Zenon DEF SocketsReady
        <4> QED
          BY <4>2, <4>3, Zenon
      <3> QED
        BY <3>2, Zenon DEF SocketsReady
    <2> QED
      BY <2>2, <2>3, <2>5, <2>6, <2>7, RegisterEffect, Zenon DEF CoordInv
  <1>2. ASSUME NEW a \in preset, RegisterPreset(a)
        PROVE  CoordInv' /\ \A c \in Containers : map[c] \in alive /\ map'[c] # map[c] => map'[c] = Nil
    <2>1. a \in Agents /\ conf[a] \in Seq(Containers)
      BY Zenon DEF TypeOK
    <2>2. preset' = preset \ {a} /\ UNCHANGED <<gone, inbox, agentVars, full, events>>
      BY <1>2, Zenon DEF RegisterPreset
    <2>3. CASE a \in up
      <3>1. registerAgent(a, conf[a])
        BY <1>2, <2>3, Zenon DEF RegisterPreset
      <3>2. TypeOK'
        BY <2>1, <2>2, <3>1, RegisterEffect, Zenon DEF TypeOK, agentVars
      <3>3. AgentsAgree'
        BY <2>2, Zenon DEF AgentsAgree, agentVars
      <3>4. SocketsReady'
        <4>1. /\ alive \subseteq alive'
              /\ \A b \in Agents \ {a} : sock'[b] = sock[b] /\ (b \in missed' <=> b \in missed)
              /\ \/ a \in alive' /\ sock'[a] = "ready"
                 \/ alive' = alive /\ sock' = sock /\ missed' = missed
          BY <2>1, <3>1, RegisterEffect, Zenon
        <4>2. reg' = reg /\ up' = up
          BY <2>2, Zenon DEF agentVars
        <4> QED
          BY <4>1, <4>2, Zenon DEF TypeOK, SocketsReady
      <3> QED
        BY <2>1, <3>1, <3>2, <3>3, <3>4, RegisterEffect, Zenon DEF CoordInv
    <2>4. CASE a \notin up
      BY <1>2, <2>2, <2>4
      DEF RegisterPreset, CoordInv, TypeOK, AgentsAgree, SocketsReady, RoutesMatch, agentVars
    <2> QED
      BY <2>3, <2>4, Zenon
  <1> QED
    BY <1>1, <1>2, Zenon

\* CoordInv is kept by the other actions of the proxy.
LEMMA CoordInvProxy ==
  ASSUME CoordInv, \/ \E a \in gone, L \in SUBSET up : PingAgents(a, L)
                   \/ UpdateAgentStatus
                   \/ ProxyRestart
  PROVE  CoordInv' /\ \A c \in Containers : map'[c] # map[c] => map'[c] = Nil
  <1> USE ConstantTypes
  <1> TypeOK /\ RoutesMatch /\ AgentsAgree /\ SocketsReady
    BY Zenon DEF CoordInv
  <1>1. ASSUME NEW a \in gone, NEW L \in SUBSET up, PingAgents(a, L)
        PROVE  CoordInv' /\ map' = map
    <2>1. TypeOK'
      BY <1>1, Zenon DEF PingAgents, TypeOK, setAgentDown, agentVars
    <2>2. AgentsAgree' /\ RoutesMatch'
      BY <1>1, Zenon DEF PingAgents, AgentsAgree, RoutesMatch, agentVars
    <2>3. SocketsReady'
      BY <1>1, Zenon DEF PingAgents, SocketsReady, setAgentDown, Unsendable, agentVars, TypeOK
    <2> QED
      BY <1>1, <2>1, <2>2, <2>3, Zenon DEF CoordInv, PingAgents
  <1>2. ASSUME NEW L \in SUBSET up, NEW got \in BOOLEAN, updateAgentStatus(L, got)
        PROVE  CoordInv' /\ map' = map
    <2>1. TypeOK'
      BY <1>2, Zenon DEF updateAgentStatus, TypeOK, setAgentDown, agentVars, Reported
    <2>2. AgentsAgree' /\ RoutesMatch'
      BY <1>2, Zenon DEF updateAgentStatus, AgentsAgree, RoutesMatch, agentVars
    <2>3. SocketsReady'
      BY <1>2, Zenon DEF updateAgentStatus, SocketsReady, setAgentDown, Unsendable, agentVars, TypeOK
    <2> QED
      BY <1>2, <2>1, <2>2, <2>3, Zenon DEF CoordInv, updateAgentStatus
  <1>3. ASSUME ProxyRestart
        PROVE  CoordInv' /\ \A c \in Containers : map'[c] = Nil
    <2> DEFINE again == {a \in watching : reg[a] # "waiting"}
    <2>1. /\ inbox' = {[agent |-> a, ids |-> conf[a], live |-> TRUE] : a \in again}
          /\ reg' = [a \in Agents |-> IF a \in again THEN "waiting" ELSE reg[a]]
          /\ UNCHANGED <<up, conf, watching, full>>
      BY <1>3, Zenon DEF ProxyRestart
    <2>2. again \subseteq up /\ again \subseteq Agents
      BY Zenon DEF TypeOK
    <2>3. inbox' \subseteq Registration
      <3>1. \A a \in Agents : [agent |-> a, ids |-> conf[a], live |-> TRUE] \in Registration
        BY Zenon DEF TypeOK, Registration
      <3> QED
        BY <2>1, <2>2, <3>1, Zenon
    <2>4. TypeOK'
      BY <1>3, <2>1, <2>3 DEF TypeOK, ProxyRestart
    <2>5. AgentsAgree'
      <3>1. \A m \in inbox' :
               /\ m.agent \in again
               /\ m = [agent |-> m.agent, ids |-> conf[m.agent], live |-> TRUE]
        BY <2>1
      <3>2. \A a \in again : reg'[a] = "waiting" /\ a \in up'
        BY <2>1, <2>2, Zenon
      <3>3. \A a \in Agents : reg'[a] = "done" => a \in watching'
        BY <2>1, Zenon DEF AgentsAgree
      <3> HIDE DEF again
      <3> QED
        BY <3>1, <3>2, <3>3, Zenon DEF AgentsAgree
    <2>6. SocketsReady'
      BY <2>1, <2>2, Zenon DEF SocketsReady, AgentsAgree, TypeOK
    <2>7. RoutesMatch' /\ \A c \in Containers : map'[c] = Nil
      BY <1>3, ZenonT(30) DEF ProxyRestart, RoutesMatch
    <2> QED
      BY <2>4, <2>5, <2>6, <2>7, Zenon DEF CoordInv
  <1> QED
    BY <1>1, <1>2, <1>3 DEF UpdateAgentStatus, TypeOK

\* CoordInv is kept by what happens at the agents.
LEMMA CoordInvAgents ==
  ASSUME CoordInv,
         \/ \E a \in Agents : \E s \in Configs[a] : registerToProxy(a, s)
         \/ \E a \in Agents, kept \in BOOLEAN : Crash(a, kept) \/ on_event_connected(a, kept)
         \/ \E c \in Containers : Fill(c)
  PROVE  CoordInv' /\ map' = map
  <1> USE ConstantTypes
  <1> TypeOK /\ RoutesMatch /\ AgentsAgree /\ SocketsReady
    BY Zenon DEF CoordInv
  <1>1. ASSUME NEW a \in Agents, NEW s \in Configs[a], registerToProxy(a, s)
        PROVE  CoordInv' /\ map' = map
    <2> DEFINE m == [agent |-> a, ids |-> s, live |-> TRUE]
    <2>1. s \in Seq(Containers)
      BY Zenon
    <2>2. m \in Registration /\ m.agent = a /\ m.live
      BY <2>1, Zenon DEF Registration
    <2>3. /\ a \notin up /\ up' = up \cup {a} /\ conf' = [conf EXCEPT ![a] = s]
          /\ reg' = [reg EXCEPT ![a] = "waiting"] /\ inbox' = inbox \cup {m}
          /\ UNCHANGED <<proxyVars, watching, gone, full, events>>
      BY <1>1, Zenon DEF registerToProxy
    <2> HIDE DEF m
    <2>4. TypeOK'
      BY <2>1, <2>2, <2>3, Zenon DEF TypeOK, proxyVars
    <2>5. AgentsAgree'
      <3>1. \A n \in inbox : n.live => n.agent # a
        BY <2>3, Zenon DEF AgentsAgree
      <3> QED
        BY <2>2, <2>3, <3>1, RegistrationType DEF AgentsAgree, TypeOK
    <2>6. SocketsReady' /\ RoutesMatch'
      BY <2>3 DEF SocketsReady, RoutesMatch, proxyVars, TypeOK
    <2> QED
      BY <2>3, <2>4, <2>5, <2>6, Zenon DEF CoordInv, proxyVars
  <1>2. ASSUME NEW a \in Agents, NEW kept \in BOOLEAN
        PROVE  /\ Orphaned(a, kept) \subseteq Registration
               /\ \A m \in Orphaned(a, kept) : m.live => m \in inbox /\ m.agent # a
    <2>1. \A m \in Registration : [m EXCEPT !.live = FALSE] \in Registration /\ ~[m EXCEPT !.live = FALSE].live
      BY Zenon DEF Registration
    <2>2. inbox \subseteq Registration
      BY Zenon DEF TypeOK
    <2>3. ASSUME NEW m \in Orphaned(a, kept)
          PROVE  m \in Registration /\ (m.live => m \in inbox /\ m.agent # a)
      <3>1. CASE m \in inbox /\ m.agent # a
        BY <2>2, <3>1, Zenon
      <3>2. CASE \E n \in inbox : m = [n EXCEPT !.live = FALSE]
        BY <2>1, <2>2, <3>2, Zenon
      <3> QED
        BY <3>1, <3>2, Zenon DEF Orphaned
    <2> QED
      BY <2>3, Zenon
  <1>3. ASSUME NEW a \in Agents, NEW kept \in BOOLEAN, Crash(a, kept)
        PROVE  CoordInv' /\ map' = map
    <2>1. /\ a \in up /\ up' = up \ {a} /\ watching' = watching \ {a}
          /\ reg' = [reg EXCEPT ![a] = "idle"] /\ inbox' = Orphaned(a, kept)
          /\ gone' = gone \cup {a} /\ UNCHANGED <<proxyVars, conf, full>>
      BY <1>3, Zenon DEF Crash
    <2>2. TypeOK'
      BY <1>2, <2>1, Zenon DEF TypeOK, proxyVars
    <2>3. AgentsAgree'
      BY <1>2, <2>1, RegistrationType, ZenonT(60) DEF AgentsAgree, TypeOK
    <2>4. SocketsReady' /\ RoutesMatch'
      BY <2>1 DEF SocketsReady, RoutesMatch, proxyVars, TypeOK
    <2> QED
      BY <2>1, <2>2, <2>3, <2>4, Zenon DEF CoordInv, proxyVars
  <1>4. ASSUME NEW a \in Agents, NEW kept \in BOOLEAN, on_event_connected(a, kept)
        PROVE  CoordInv' /\ map' = map
    <2> DEFINE m == [agent |-> a, ids |-> conf[a], live |-> TRUE]
    <2>1. m \in Registration /\ m.agent = a /\ m.live
      BY Zenon DEF Registration, TypeOK
    <2>2. /\ a \in up /\ gone' = gone \cup {a} /\ UNCHANGED <<proxyVars, up, conf, watching, full>>
          /\ \/ reg' = [reg EXCEPT ![a] = "waiting"] /\ inbox' = Orphaned(a, kept) \cup {m}
             \/ reg' = reg /\ inbox' = Orphaned(a, kept)
      BY <1>4, Zenon DEF on_event_connected
    <2> HIDE DEF m
    <2>3. TypeOK'
      <3>1. inbox' \subseteq Registration
        BY <1>2, <2>1, <2>2, Zenon
      <3>2. reg' \in [Agents -> {"idle", "waiting", "done", "refused"}]
        BY <2>2, Zenon DEF TypeOK
      <3> QED
        BY <2>2, <3>1, <3>2, Zenon DEF TypeOK, proxyVars
    <2>4. AgentsAgree'
      <3>0. reg \in [Agents -> {"idle", "waiting", "done", "refused"}]
        BY Zenon DEF TypeOK
      <3>1. \A n \in inbox' :
              n.live => (n \in inbox /\ n.agent # a) \/ (n = m /\ reg'[a] = "waiting")
        BY <1>2, <2>2, <3>0
      <3>2. \A b \in Agents : reg'[b] = reg[b] \/ (b = a /\ reg'[b] = "waiting")
        BY <2>2, <3>0, Zenon
      <3>3. \A n \in inbox' : n.live => n.agent \in up' /\ reg'[n.agent] = "waiting"
        BY <2>1, <2>2, <3>1, <3>2, RegistrationType, Zenon DEF AgentsAgree, TypeOK
      <3>4. \A n, o \in inbox' : n.live /\ o.live /\ n.agent = o.agent => n = o
        BY <2>1, <3>1, Zenon DEF AgentsAgree
      <3>5. \A b \in Agents : reg'[b] = "done" => b \in watching'
        BY <2>2, <3>2, Zenon DEF AgentsAgree
      <3> QED
        BY <3>3, <3>4, <3>5, Zenon DEF AgentsAgree
    <2>5. SocketsReady' /\ RoutesMatch'
      BY <2>2 DEF SocketsReady, RoutesMatch, proxyVars, TypeOK
    <2> QED
      BY <2>2, <2>3, <2>4, <2>5, Zenon DEF CoordInv, proxyVars
  <1>5. ASSUME NEW c \in Containers, Fill(c)
        PROVE  CoordInv' /\ map' = map
    <2>1. UNCHANGED <<proxyVars, agentVars, gone, inbox>> /\ full' = full \cup {c}
      BY <1>5, Zenon DEF Fill
    <2>2. TypeOK'
      BY <2>1, Zenon DEF CoordInv, TypeOK, proxyVars, agentVars
    <2>3. AgentsAgree' /\ SocketsReady' /\ RoutesMatch' /\ map' = map
      BY <2>1, Zenon DEF CoordInv, AgentsAgree, SocketsReady, RoutesMatch, proxyVars, agentVars
    <2> QED
      BY <2>2, <2>3, Zenon DEF CoordInv
  <1> QED
    BY <1>1, <1>3, <1>4, <1>5, Zenon

\* CoordInv is inductive, and every step leaves the containers of live agents
\* with them.
LEMMA CoordInvNext ==
  ASSUME CoordInv, [Next]_coordVars
  PROVE  CoordInv' /\ \A c \in Containers : map[c] \in alive /\ map'[c] # map[c] => map'[c] = Nil
  <1>1. CASE UNCHANGED coordVars
    BY <1>1, Zenon DEF coordVars, proxyVars, agentVars, CoordInv, TypeOK, AgentsAgree, SocketsReady, RoutesMatch
  <1>2. CASE Next
    BY <1>2, CoordInvRegister, CoordInvProxy, CoordInvAgents, Zenon DEF Next
  <1> QED
    BY <1>1, <1>2, Zenon

\* The two structures of the proxy that say where a container is agree, for any
\* number of agents and containers and any sequence of faults.
THEOREM RoutesMatchAlways == Spec => []RoutesMatch
  <1>1. CoordInv => RoutesMatch
    BY Zenon DEF CoordInv
  <1> QED
    BY <1>1, CoordInvInit, CoordInvNext, PTL DEF Spec

\* No agent that is alive loses a container to another.
THEOREM NoTakeoverAlways == Spec => NoTakeover
  <1>1. CoordInv /\ [Next]_coordVars =>
          [\A c \in Containers : map[c] \in alive /\ map'[c] # map[c] => map'[c] = Nil]_coordVars
    BY CoordInvNext, Zenon
  <1>2. CoordInv /\ [Next]_coordVars => CoordInv'
    BY CoordInvNext, Zenon
  <1> QED
    BY <1>1, <1>2, CoordInvInit, PTL DEF Spec, NoTakeover

\* An agent that runs and answers stays alive once its registration is accepted.
THEOREM LiveAgentsKeptAlways == Spec => []LiveAgentsKept
  <1>1. CoordInv => LiveAgentsKept
    BY Zenon DEF CoordInv, SocketsReady, LiveAgentsKept
  <1> QED
    BY <1>1, CoordInvInit, CoordInvNext, PTL DEF Spec
=============================================================================
