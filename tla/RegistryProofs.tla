--------------------------- MODULE RegistryProofs ---------------------------
(***************************************************************************)
(* Proofs about Registry, for any drones, agents, requests and permits: no *)
(* permit of the semaphore is ever lost, and unless two operations on one  *)
(* drone overlap none is doubled and no connection is forgotten.           *)
(***************************************************************************)
EXTENDS Registry, FiniteSetTheorems, TLAPS

\* What belongs to a handler in each of its states.
HandlersOK ==
    \A h \in Handler :
        /\ pc[h] \in {"idle", "all"} <=> on[h] = None
        /\ pc[h] \in {"acquire", "connect"} <=> work[h] # None
        /\ pc[h] \in {"idle", "acquire", "connect"} => leaving[h] = {}
        /\ pc[h] \in {"cleanup", "remove"} => \E a \in Agent : leaving[h] = {a}

\* The agent a was made for the drone d, and something still says so.
Of(a, d) ==
    \/ registry[d] = a
    \/ <<a, d>> \in held
    \/ \E h \in Handler : on[h] = d /\ (work[h] = a \/ a \in leaving[h])

OneDrone == \A a \in Agent : \A d, e \in Drone : Of(a, d) /\ Of(a, e) => d = e

\* An agent is connected by one handler, which takes a permit once.
OnePermit ==
    \A h \in Handler :
        /\ \A k \in Handler : work[h] = work[k] /\ work[h] # None => h = k
        /\ pc[h] = "acquire" => \A p \in held : p[1] # work[h]

\* Two handlers are about one drone only if that was noticed.
Noticed ==
    \A h, k \in Handler : h # k =>
        /\ on[h] = on[k] /\ on[h] # None => on[h] \in overlapped
        /\ pc[h] = "all" /\ on[k] # None => on[k] \in overlapped
        /\ pc[h] = "all" /\ pc[k] = "all" => Drone \subseteq overlapped /\ Drone # {}

\* Unless operations on its drone overlap, a handler is about the agent that is
\* entered for it.
Entered ==
    \A h \in Handler :
        /\ on[h] \notin overlapped =>
              /\ pc[h] \in {"acquire", "connect"} => registry[on[h]] = work[h]
              /\ pc[h] = "cleanup" => registry[on[h]] \in leaving[h]
        /\ pc[h] = "remove" => registry[on[h]] \notin leaving[h]

\* Unless operations on its drone overlap, an agent that is to give a permit
\* back has one.
Accounted ==
    /\ \A d \in Drone \ overlapped :
          registry[d] \in Real =>
              \/ <<registry[d], d>> \in held
              \/ \E h \in Handler : pc[h] = "acquire" /\ on[h] = d
              \/ \E h \in Handler : pc[h] = "all"
    /\ \A h \in Handler : on[h] \notin overlapped =>
          /\ pc[h] = "connect" => <<work[h], on[h]>> \in held
          /\ pc[h] \in {"cleanup", "remove"} =>
                \A a \in leaving[h] \cap Real : <<a, on[h]>> \in held
    /\ \A h \in Handler : pc[h] = "all" /\ overlapped = {} =>
          \A a \in leaving[h] \cap Real : \E d \in Drone : <<a, d>> \in held

\* disconnect_all takes along whoever was connected when it began, unless an
\* operation on the drone overlapped it.
Taken ==
    \A h \in Handler : pc[h] = "all" =>
        \A p \in held : p[2] \notin overlapped => p[1] \in leaving[h]

-----------------------------------------------------------------------------
(* Agents and permits.                                                     *)

LEMMA Kinds ==
    /\ Agent \subseteq Nat /\ None \notin Agent /\ None \notin Drone
    /\ \A a \in Agent : /\ a \in Real => Given(a) = 1 /\ a \notin Stub
                        /\ a \notin Real => Given(a) = 0
  BY RegistryAssumption DEF Agent, Given

LEMMA GivenNat == \A a \in Agent : Given(a) \in Nat
  BY Kinds

\* What New picks is referred to by nothing.
LEMMA Fresh ==
    ASSUME TypeOK, NEW S \in SUBSET Agent, NEW a \in New(S)
    PROVE  /\ a \in S /\ a # None
           /\ \A d \in Drone : registry[d] # a /\ ~Of(a, d)
           /\ \A p \in held : p[1] # a
           /\ \A h \in Handler : work[h] # a /\ a \notin leaving[h]
<1>1. a \in S /\ a \notin InUse
  BY DEF New
<1>2. /\ \A d \in Drone : registry[d] # a
      /\ \A p \in held : p[1] # a
      /\ \A h \in Handler : work[h] # a /\ a \notin leaving[h]
  BY <1>1 DEF InUse
<1> QED
  BY <1>1, <1>2, Kinds DEF Of

\* Agents keep their drone when no record of one is added, or one of an agent
\* that had none.
LEMMA OneDroneKept ==
    ASSUME OneDrone, NEW b \in Agent, NEW e \in Drone,
           \A a \in Agent, d \in Drone :
               Of(a, d)' => Of(a, d) \/ (a = b /\ d = e /\ \A c \in Drone : ~Of(b, c))
    PROVE  OneDrone'
  BY DEF OneDrone

\* A new agent is entered for d: what it takes of f free permits it holds.
LEMMA NewAgentFacts ==
    ASSUME TypeOK, NEW h \in Handler, NEW d \in Drone, NEW f \in Nat,
           NEW hd \in SUBSET held, NewAgent(h, d, f, hd)
    PROVE  \E a \in Real :
             /\ a \in New(Real)
             /\ registry' = [registry EXCEPT ![d] = a]
             /\ work' = [work EXCEPT ![h] = a]
             /\ on' = [on EXCEPT ![h] = d]
             /\ free' \in Nat
             /\ \/ /\ pc' = [pc EXCEPT ![h] = "connect"]
                   /\ f > 0 /\ free' = f - 1
                   /\ held' = hd \cup {<<a, d>>}
                \/ /\ pc' = [pc EXCEPT ![h] = "acquire"]
                   /\ free' = f
                   /\ held' = hd
<1>1. PICK a \in New(Real) :
        /\ registry' = [registry EXCEPT ![d] = a]
        /\ free' = IF f > 0 /\ Waiting = {} THEN f - 1 ELSE f
        /\ held' = IF f > 0 /\ Waiting = {} THEN hd \cup {<<a, d>>} ELSE hd
        /\ pc' = [pc EXCEPT ![h] = IF f > 0 /\ Waiting = {} THEN "connect" ELSE "acquire"]
        /\ work' = [work EXCEPT ![h] = a]
        /\ on' = [on EXCEPT ![h] = d]
  BY DEF NewAgent
<1>2. a \in Real
  BY DEF New
<1>3. CASE f > 0 /\ Waiting = {}
  <2>1. f - 1 \in Nat
    BY <1>3
  <2>2. /\ pc' = [pc EXCEPT ![h] = "connect"]
        /\ free' = f - 1
        /\ held' = hd \cup {<<a, d>>}
    BY <1>1, <1>3
  <2> QED
    BY <1>1, <1>2, <1>3, <2>1, <2>2
<1>4. CASE ~(f > 0 /\ Waiting = {})
  BY <1>1, <1>2, <1>4
<1> QED
  BY <1>3, <1>4

\* disconnect() closes an agent without another handler's help.
LEMMA CloseType ==
    ASSUME TypeOK, NEW a \in Agent, Close(a)
    PROVE  online' \subseteq Agent /\ streams' \subseteq Real /\ stopped' \subseteq Real
<1>1. ASSUME NEW h \in Handler, work[h] = a PROVE a \in Real
  BY <1>1, Kinds DEF TypeOK
<1> QED
  BY <1>1 DEF Close, TypeOK

LEMMA NewAgentType ==
    ASSUME TypeOK, HandlersOK, NEW h \in Handler, NEW d \in Drone, NEW f \in Nat,
           NEW hd \in SUBSET held, NewAgent(h, d, f, hd),
           online' \subseteq Agent, streams' \subseteq Real, stopped' \subseteq Real,
           leaving' = [leaving EXCEPT ![h] = {}], overlapped' \subseteq Drone
    PROVE  TypeOK' /\ HandlersOK'
<1>1. PICK a \in Real :
        /\ registry' = [registry EXCEPT ![d] = a]
        /\ work' = [work EXCEPT ![h] = a]
        /\ on' = [on EXCEPT ![h] = d]
        /\ free' \in Nat
        /\ \/ pc' = [pc EXCEPT ![h] = "connect"] /\ held' = hd \cup {<<a, d>>}
           \/ pc' = [pc EXCEPT ![h] = "acquire"] /\ held' = hd
  BY NewAgentFacts
<1>2. a \in Agent /\ a # None /\ d # None
  BY Kinds DEF Agent
<1>3. TypeOK'
  BY <1>1, <1>2 DEF TypeOK
<1>4. HandlersOK'
  BY <1>1, <1>2 DEF HandlersOK, TypeOK
<1> QED
  BY <1>3, <1>4

\* Every step keeps the types and what belongs to a handler.
LEMMA TypeKeeps ==
    ASSUME TypeOK, HandlersOK, [Next]_vars
    PROVE  TypeOK' /\ HandlersOK'
<1> USE Kinds
<1>1. ASSUME NEW a \in Agent PROVE Given(a) \in Nat /\ Without(a) \in SUBSET held
  BY DEF Without
<1>2. free \in Nat
  BY DEF TypeOK
<1>3. ASSUME NEW h \in Handler, NEW d \in Drone, AddFresh(h, d)
      PROVE  TypeOK' /\ HandlersOK'
  <2>1. leaving' = [leaving EXCEPT ![h] = {}] /\ overlapped' \subseteq Drone
    BY <1>3 DEF AddFresh, Start, Busy, HandlersOK, TypeOK
  <2>2. CASE NewAgent(h, d, free, held) /\ UNCHANGED <<online, streams, stopped>>
    <3>1. online' \subseteq Agent /\ streams' \subseteq Real /\ stopped' \subseteq Real
      BY <2>2 DEF TypeOK
    <3> QED
      BY <1>2, <2>1, <2>2, <3>1, NewAgentType
  <2>3. ASSUME NEW old \in Agent, Close(old),
               NewAgent(h, d, free + Given(old), Without(old))
        PROVE  TypeOK' /\ HandlersOK'
    <3>1. free + Given(old) \in Nat
      BY <1>1, <1>2
    <3> QED
      BY <1>1, <2>1, <2>3, <3>1, CloseType, NewAgentType
  <2>4. registry[d] # None => registry[d] \in Agent
    BY DEF TypeOK
  <2> QED
    BY <1>3, <2>2, <2>3, <2>4 DEF AddFresh
<1>4. ASSUME NEW h \in Handler, NEW d \in Drone, AddStale(h, d)
      PROVE  TypeOK' /\ HandlersOK'
  <2>1. registry[d] \in Agent
    BY <1>4 DEF AddStale, TypeOK
  <2>2. TypeOK'
    BY <1>4, <2>1 DEF AddStale, Start, Busy, TypeOK, agents, permits
  <2>3. HandlersOK'
    BY <1>4, <2>1 DEF AddStale, TypeOK, HandlersOK
  <2> QED
    BY <2>2, <2>3
<1>5. ASSUME NEW h \in Handler, AddCleaned(h)
      PROVE  TypeOK' /\ HandlersOK'
  <2>1. PICK old \in leaving[h] :
           Close(old) /\ NewAgent(h, on[h], free + Given(old), Without(old))
    BY <1>5 DEF AddCleaned
  <2>2. old \in Agent /\ on[h] \in Drone
    BY <1>5, <2>1 DEF AddCleaned, HandlersOK, TypeOK
  <2>3. leaving' = [leaving EXCEPT ![h] = {}] /\ overlapped' \subseteq Drone
    BY <1>5 DEF AddCleaned, TypeOK
  <2>4. free + Given(old) \in Nat
    BY <1>1, <1>2, <2>2
  <2> QED
    BY <1>1, <2>1, <2>2, <2>3, <2>4, CloseType, NewAgentType
<1>6. ASSUME NEW h \in Handler, Acquire(h)
      PROVE  TypeOK' /\ HandlersOK'
  BY <1>6 DEF Acquire, TypeOK, HandlersOK
<1>7. ASSUME NEW h \in Handler, AcquireTimeout(h)
      PROVE  TypeOK' /\ HandlersOK'
  BY <1>7 DEF AcquireTimeout, Raise, Idle, TypeOK, HandlersOK, permits
<1>8. ASSUME NEW h \in Handler, ConnectFails(h)
      PROVE  TypeOK' /\ HandlersOK'
  <2>1. free' \in Nat /\ held' \subseteq held
    BY <1>2, <1>8 DEF ConnectFails, Without
  <2>2. TypeOK'
    BY <1>8, <2>1 DEF ConnectFails, Raise, Idle, TypeOK
  <2>3. HandlersOK'
    BY <1>8 DEF ConnectFails, Raise, Idle, TypeOK, HandlersOK
  <2> QED
    BY <2>2, <2>3
<1>9. ASSUME NEW h \in Handler, ConnectSucceeds(h)
      PROVE  TypeOK' /\ HandlersOK'
  BY <1>9 DEF ConnectSucceeds, Idle, TypeOK, HandlersOK, permits, Agent
<1>10. ASSUME NEW h \in Handler, NEW d \in Drone, Remove(h, d)
       PROVE  TypeOK' /\ HandlersOK'
  <2>1. registry[d] \in Agent /\ registry' = [registry EXCEPT ![d] = None]
        /\ overlapped' \subseteq Drone /\ work' = work /\ pc[h] = "idle"
    BY <1>10 DEF Remove, Start, Busy, TypeOK
  <2>2. CASE /\ pc' = [pc EXCEPT ![h] = "remove"]
             /\ on' = [on EXCEPT ![h] = d]
             /\ leaving' = [leaving EXCEPT ![h] = {registry[d]}]
             /\ UNCHANGED <<online, streams, stopped, permits>>
    BY <2>1, <2>2 DEF TypeOK, HandlersOK, permits
  <2>3. CASE /\ Close(registry[d])
             /\ free' = free + Given(registry[d])
             /\ held' = Without(registry[d])
             /\ UNCHANGED <<pc, on, leaving>>
    <3>1. free' \in Nat /\ held' \subseteq Real \X Drone
      <4>1. Given(registry[d]) \in Nat /\ Without(registry[d]) \subseteq held
        BY <1>1, <2>1
      <4> QED
        BY <1>2, <2>3, <4>1 DEF TypeOK
    <3>2. online' \subseteq Agent /\ streams' \subseteq Real /\ stopped' \subseteq Real
      BY <2>1, <2>3, CloseType
    <3> QED
      BY <2>1, <2>3, <3>1, <3>2 DEF TypeOK, HandlersOK
  <2> QED
    BY <1>10, <2>2, <2>3 DEF Remove
<1>11. ASSUME NEW h \in Handler, NEW a \in leaving[h],
              Close(a), free' = free + Given(a), held' = Without(a)
       PROVE  /\ free' \in Nat /\ held' \subseteq Real \X Drone
              /\ online' \subseteq Agent /\ streams' \subseteq Real /\ stopped' \subseteq Real
  <2>1. a \in Agent
    BY DEF TypeOK
  <2> QED
    BY <1>1, <1>2, <1>11, <2>1, CloseType DEF TypeOK
<1>12. ASSUME NEW h \in Handler, Removed(h)
       PROVE  TypeOK' /\ HandlersOK'
  <2>1. /\ free' \in Nat /\ held' \subseteq Real \X Drone
        /\ online' \subseteq Agent /\ streams' \subseteq Real /\ stopped' \subseteq Real
    BY <1>11, <1>12 DEF Removed
  <2> QED
    BY <1>12, <2>1 DEF Removed, Idle, TypeOK, HandlersOK
<1>13. ASSUME NEW h \in Handler, DisconnectAll(h)
       PROVE  TypeOK' /\ HandlersOK'
  <2>1. {registry[d] : d \in Drone} \ {None} \subseteq Agent
    BY DEF TypeOK
  <2> QED
    BY <1>13, <2>1 DEF DisconnectAll, Start, Busy, TypeOK, HandlersOK, agents, permits
<1>14. ASSUME NEW h \in Handler, DisconnectOne(h)
       PROVE  TypeOK' /\ HandlersOK'
  <2>1. /\ free' \in Nat /\ held' \subseteq Real \X Drone
        /\ online' \subseteq Agent /\ streams' \subseteq Real /\ stopped' \subseteq Real
    BY <1>11, <1>14 DEF DisconnectOne
  <2>2. PICK a \in leaving[h] : leaving' = [leaving EXCEPT ![h] = @ \ {a}]
    BY <1>14 DEF DisconnectOne
  <2>3. TypeOK'
    BY <1>14, <2>1, <2>2 DEF DisconnectOne, TypeOK
  <2>4. HandlersOK'
    BY <1>14, <2>2 DEF DisconnectOne, TypeOK, HandlersOK
  <2> QED
    BY <2>3, <2>4
<1>15. ASSUME NEW h \in Handler, Clear(h)
       PROVE  TypeOK' /\ HandlersOK'
  BY <1>15 DEF Clear, Idle, TypeOK, HandlersOK, agents, permits
<1>16. ASSUME NEW d \in Drone, Stale(d)
       PROVE  TypeOK' /\ HandlersOK'
  BY <1>16 DEF Stale, TypeOK, HandlersOK, permits, handlers
<1>17. ASSUME NEW d \in Drone, Inject(d)
       PROVE  TypeOK' /\ HandlersOK'
  BY <1>17 DEF Inject, New, Agent, TypeOK, HandlersOK, permits, handlers
<1>18. ASSUME NEW a \in Agent, Position(a)
       PROVE  TypeOK' /\ HandlersOK'
  BY <1>18 DEF Position, TypeOK, HandlersOK, permits, handlers
<1>19. CASE UNCHANGED vars
  BY <1>19 DEF vars, TypeOK, HandlersOK
<1> QED
  BY <1>3, <1>4, <1>5, <1>6, <1>7, <1>8, <1>9, <1>10, <1>12, <1>13, <1>14, <1>15,
     <1>16, <1>17, <1>18, <1>19 DEF Next, add_drone

-----------------------------------------------------------------------------
(* Who holds what: one lemma for each kind of step.                        *)

\* All but the types and the number of permits.
Holdings ==
    OneDrone /\ OnePermit /\ Noticed /\ Entered /\ Accounted /\ Taken /\ NoOrphan

\* A drone that is not in overlapped' has no other handler about it.
Alone(h, d) ==
    /\ overlapped \subseteq overlapped'
    /\ d \notin overlapped' =>
          \A k \in Handler \ {h} : on[k] # d /\ pc[k] # "all"

LEMMA StartAlone ==
    ASSUME NEW h \in Handler, NEW d \in Drone, Start({d})
    PROVE  /\ Alone(h, d)
           /\ d \notin overlapped' => \A k \in Handler : on[k] # d /\ pc[k] # "all"
  BY DEF Start, Busy, Alone

\* A new agent replaces those of G, all of them of d: the entered one, if no
\* other operation is about d, and the one whose disconnect() h awaited.
LEMMA NewAgentKeeps ==
    ASSUME TypeOK, HandlersOK, Holdings,
           NEW h \in Handler, NEW d \in Drone, NEW f \in Nat, NEW G \in SUBSET Agent,
           NewAgent(h, d, f, {p \in held : p[1] \notin G}),
           pc[h] \in {"idle", "cleanup"},
           leaving' = [leaving EXCEPT ![h] = {}],
           Alone(h, d),
           \A a \in G : Of(a, d),
           leaving[h] \subseteq G,
           d \notin overlapped' => registry[d] \in G \cup {None}
    PROVE  Holdings'
<1> DEFINE hd == {p \in held : p[1] \notin G}
<1>1. PICK a \in New(Real) :
        /\ a \in Real
        /\ registry' = [registry EXCEPT ![d] = a]
        /\ work' = [work EXCEPT ![h] = a]
        /\ on' = [on EXCEPT ![h] = d]
        /\ \/ pc' = [pc EXCEPT ![h] = "connect"] /\ held' = hd \cup {<<a, d>>}
           \/ pc' = [pc EXCEPT ![h] = "acquire"] /\ held' = hd
  <2>1. hd \in SUBSET held
    OBVIOUS
  <2> QED
    BY <2>1, NewAgentFacts
<1>2. a \in Agent /\ a # None /\ d # None
  BY <1>1, Kinds DEF Agent
<1>3. /\ \A e \in Drone : registry[e] # a /\ ~Of(a, e)
      /\ \A p \in held : p[1] # a
      /\ \A k \in Handler : work[k] # a /\ a \notin leaving[k]
  <2>1. Real \in SUBSET Agent
    BY DEF Agent
  <2> QED
    BY <1>1, <2>1, Fresh
<1>4. OneDrone'
  <2>1. ASSUME NEW b \in Agent, NEW e \in Drone, Of(b, e)'
        PROVE  Of(b, e) \/ (b = a /\ e = d)
    <3>1. CASE registry'[e] = b
      BY <1>1, <3>1 DEF Of, TypeOK
    <3>2. CASE <<b, e>> \in held'
      BY <1>1, <3>2 DEF Of
    <3>3. ASSUME NEW k \in Handler, on'[k] = e, work'[k] = b \/ b \in leaving'[k]
          PROVE  Of(b, e) \/ (b = a /\ e = d)
      BY <1>1, <3>3 DEF Of, TypeOK
    <3> QED
      BY <2>1, <3>1, <3>2, <3>3 DEF Of
  <2> QED
    BY <1>2, <1>3, <2>1, OneDroneKept DEF Holdings
<1>5. OnePermit'
  BY <1>1, <1>2, <1>3 DEF OnePermit, Holdings, TypeOK
<1>6. Noticed'
  BY <1>1, <1>2 DEF Noticed, Alone, Holdings, TypeOK
<1>7. Entered'
  <2>1. ASSUME NEW k \in Handler \ {h}, on[k] # None
        PROVE  /\ on[k] \notin overlapped' => registry'[on[k]] = registry[on[k]]
               /\ registry'[on[k]] \in {registry[on[k]], a}
    BY <1>1, <2>1 DEF Alone, TypeOK
  <2>2. ASSUME NEW k \in Handler \ {h}
        PROVE  /\ on'[k] = on[k] /\ pc'[k] = pc[k] /\ leaving'[k] = leaving[k]
               /\ work'[k] = work[k]
               /\ pc[k] \notin {"idle", "all"} => on[k] # None
    BY <1>1 DEF TypeOK, HandlersOK
  <2>3. on'[h] = d /\ registry'[d] = a /\ work'[h] = a /\ pc'[h] \in {"acquire", "connect"}
    BY <1>1 DEF TypeOK
  <2> QED
    BY <1>3, <2>1, <2>2, <2>3 DEF Entered, Alone, Holdings
<1>8. ASSUME NEW b \in Agent, NEW e \in Drone, e # d, Of(b, e), <<b, e>> \in held
      PROVE  <<b, e>> \in held'
  BY <1>1, <1>8 DEF Holdings, OneDrone
<1>9. Accounted'
  <2>1. ASSUME NEW e \in Drone \ overlapped', registry'[e] \in Real
        PROVE  \/ <<registry'[e], e>> \in held'
               \/ \E k \in Handler : pc'[k] = "acquire" /\ on'[k] = e
               \/ \E k \in Handler : pc'[k] = "all"
    <3>1. CASE e = d
      BY <1>1, <3>1 DEF TypeOK
    <3>2. CASE e # d
      <4>1. registry'[e] = registry[e] /\ e \notin overlapped
        BY <1>1, <2>1, <3>2 DEF TypeOK, Alone
      <4>2. \/ <<registry[e], e>> \in held
            \/ \E k \in Handler : pc[k] = "acquire" /\ on[k] = e
            \/ \E k \in Handler : pc[k] = "all"
        BY <2>1, <4>1 DEF Holdings, Accounted
      <4>3. CASE <<registry[e], e>> \in held
        BY <1>8, <2>1, <3>2, <4>1, <4>3 DEF Of, Agent
      <4>4. ASSUME NEW k \in Handler, pc[k] \in {"acquire", "all"}
            PROVE  pc'[k] = pc[k] /\ on'[k] = on[k]
        BY <1>1, <4>4 DEF TypeOK
      <4> QED
        BY <4>1, <4>2, <4>3, <4>4
    <3> QED
      BY <3>1, <3>2
  <2>2. ASSUME NEW k \in Handler, on'[k] \notin overlapped'
        PROVE  /\ pc'[k] = "connect" => <<work'[k], on'[k]>> \in held'
               /\ pc'[k] \in {"cleanup", "remove"} =>
                     \A b \in leaving'[k] \cap Real : <<b, on'[k]>> \in held'
    <3>1. CASE k = h
      BY <1>1, <3>1 DEF TypeOK
    <3>2. CASE k # h /\ on[k] # None
      <4>1. /\ on'[k] = on[k] /\ pc'[k] = pc[k] /\ leaving'[k] = leaving[k]
            /\ work'[k] = work[k]
        BY <1>1, <3>2 DEF TypeOK
      <4>2. on[k] \in Drone /\ on[k] # d /\ on[k] \notin overlapped
        BY <2>2, <3>2, <4>1 DEF Alone, TypeOK
      <4>3. pc[k] = "connect" => work[k] \in Agent /\ <<work[k], on[k]>> \in held
        BY <4>2 DEF Holdings, Accounted, HandlersOK, TypeOK, Agent
      <4>4. pc[k] \in {"cleanup", "remove"} =>
               \A b \in leaving[k] \cap Real : <<b, on[k]>> \in held
        BY <4>2 DEF Holdings, Accounted
      <4> QED
        BY <1>8, <4>1, <4>2, <4>3, <4>4 DEF Of, Agent
    <3>3. CASE k # h /\ on[k] = None
      BY <1>1, <3>3 DEF TypeOK, HandlersOK
    <3> QED
      BY <3>1, <3>2, <3>3
  <2>3. ASSUME NEW k \in Handler, pc'[k] = "all" PROVE overlapped' # {}
    BY <1>1, <2>3 DEF Alone, TypeOK
  <2> QED
    BY <2>1, <2>2, <2>3 DEF Accounted
<1>10. Taken'
  <2>1. ASSUME NEW k \in Handler, pc'[k] = "all", NEW p \in held', p[2] \notin overlapped'
        PROVE  p[1] \in leaving'[k]
    <3>1. k # h /\ pc[k] = "all" /\ leaving'[k] = leaving[k]
      BY <1>1, <2>1 DEF TypeOK
    <3>2. d \in overlapped'
      BY <3>1 DEF Alone
    <3>3. p \in held
      BY <1>1, <2>1, <3>2
    <3> QED
      BY <2>1, <3>1, <3>3 DEF Taken, Alone, Holdings
  <2> QED
    BY <2>1 DEF Taken
<1>11. NoOrphan'
  <2>1. ASSUME NEW p \in held', p[2] \notin overlapped'
        PROVE  registry'[p[2]] = p[1] \/ \E k \in Handler : p[1] \in leaving'[k]
    <3>1. CASE p = <<a, d>>
      BY <1>1, <3>1 DEF TypeOK
    <3>2. CASE p \in held /\ p[1] \notin G
      <4>1. p[2] \in Drone /\ p[1] # None /\ p[2] \notin overlapped
        BY <2>1, <3>2, Kinds DEF TypeOK, Alone, Agent
      <4>2. registry[p[2]] = p[1] => registry'[p[2]] = p[1]
        BY <1>1, <2>1, <3>2, <4>1 DEF TypeOK
      <4>3. \A k \in Handler : p[1] \in leaving[k] => p[1] \in leaving'[k]
        BY <3>2 DEF TypeOK
      <4> QED
        BY <3>2, <4>1, <4>2, <4>3 DEF NoOrphan, Holdings
    <3> QED
      BY <1>1, <2>1, <3>1, <3>2
  <2> QED
    BY <2>1 DEF NoOrphan
<1> QED
  BY <1>4, <1>5, <1>6, <1>7, <1>9, <1>10, <1>11 DEF Holdings

LEMMA AddFreshKeeps ==
    ASSUME TypeOK, HandlersOK, Holdings, NEW h \in Handler, NEW d \in Drone, AddFresh(h, d)
    PROVE  Holdings'
<1>1. Alone(h, d)
  BY StartAlone DEF AddFresh
<1>2. pc[h] = "idle" /\ leaving[h] = {} /\ leaving' = [leaving EXCEPT ![h] = {}]
  BY DEF AddFresh, HandlersOK, TypeOK
<1>3. free \in Nat
  BY DEF TypeOK
<1>4. CASE registry[d] = None /\ NewAgent(h, d, free, held)
  <2>1. held = {p \in held : p[1] \notin {}}
    OBVIOUS
  <2> QED
    BY <1>1, <1>2, <1>3, <1>4, <2>1, NewAgentKeeps
<1>5. CASE /\ registry[d] # None
           /\ NewAgent(h, d, free + Given(registry[d]), Without(registry[d]))
  <2>1. registry[d] \in Agent
    BY <1>5 DEF TypeOK
  <2>2. Without(registry[d]) = {p \in held : p[1] \notin {registry[d]}}
    BY DEF Without
  <2>3. \A a \in {registry[d]} : Of(a, d)
    BY DEF Of
  <2>4. free + Given(registry[d]) \in Nat
    <3>1. Given(registry[d]) \in Nat
      BY <2>1, GivenNat
    <3> QED
      BY <1>3, <3>1
  <2>5. {registry[d]} \in SUBSET Agent
    BY <2>1
  <2>6. NewAgent(h, d, free + Given(registry[d]), {p \in held : p[1] \notin {registry[d]}})
    BY <1>5, <2>2
  <2> QED
    BY <1>1, <1>2, <2>3, <2>4, <2>5, <2>6, NewAgentKeeps
<1> QED
  BY <1>4, <1>5 DEF AddFresh

LEMMA AddCleanedKeeps ==
    ASSUME TypeOK, HandlersOK, Holdings, NEW h \in Handler, AddCleaned(h)
    PROVE  Holdings'
<1>1. PICK old \in leaving[h] :
         Close(old) /\ NewAgent(h, on[h], free + Given(old), Without(old))
  BY DEF AddCleaned
<1>2. pc[h] = "cleanup" /\ on[h] \in Drone /\ leaving[h] = {old} /\ old \in Agent
  BY <1>1 DEF AddCleaned, HandlersOK, TypeOK
<1>3. Alone(h, on[h])
  BY <1>2, Kinds DEF Alone, AddCleaned, Holdings, Noticed
<1>4. Without(old) = {p \in held : p[1] \notin {old}}
  BY DEF Without
<1>5. \A a \in {old} : Of(a, on[h])
  BY <1>2 DEF Of
<1>6. free + Given(old) \in Nat
  BY <1>2, Kinds DEF TypeOK
<1>7. on[h] \notin overlapped' => registry[on[h]] \in {old}
  BY <1>2 DEF AddCleaned, Holdings, Entered
<1>8. leaving' = [leaving EXCEPT ![h] = {}]
  BY DEF AddCleaned
<1>9. NewAgent(h, on[h], free + Given(old), {p \in held : p[1] \notin {old}})
  BY <1>1, <1>4
<1>10. {old} \in SUBSET Agent /\ leaving[h] \subseteq {old}
  BY <1>2
<1> QED
  BY <1>2, <1>3, <1>5, <1>6, <1>7, <1>8, <1>9, <1>10, NewAgentKeeps

\* What is merely said of agents, drones and handlers that keep their places.
LEMMA OneDroneShrinks ==
    ASSUME OneDrone, \A a \in Agent, d \in Drone : Of(a, d)' => Of(a, d)
    PROVE  OneDrone'
  BY DEF OneDrone

LEMMA AddStaleKeeps ==
    ASSUME TypeOK, HandlersOK, Holdings, NEW h \in Handler, NEW d \in Drone, AddStale(h, d)
    PROVE  Holdings'
<1>1. /\ Alone(h, d)
      /\ d \notin overlapped' => \A k \in Handler : on[k] # d /\ pc[k] # "all"
  BY StartAlone DEF AddStale
<1>2. /\ pc[h] = "idle" /\ leaving[h] = {} /\ registry[d] \in Agent /\ d # None
      /\ pc' = [pc EXCEPT ![h] = "cleanup"]
      /\ on' = [on EXCEPT ![h] = d]
      /\ leaving' = [leaving EXCEPT ![h] = {registry[d]}]
      /\ UNCHANGED <<registry, held, work>>
  BY Kinds DEF AddStale, HandlersOK, TypeOK, permits
<1>3. ASSUME NEW k \in Handler, k # h
      PROVE  pc'[k] = pc[k] /\ on'[k] = on[k] /\ leaving'[k] = leaving[k] /\ work'[k] = work[k]
  BY <1>2, <1>3 DEF TypeOK
<1>4. pc'[h] = "cleanup" /\ on'[h] = d /\ leaving'[h] = {registry[d]} /\ work'[h] = work[h]
  BY <1>2 DEF TypeOK
<1>5. work[h] = None
  BY <1>2 DEF HandlersOK
<1>6. OneDrone'
  <2>1. ASSUME NEW a \in Agent, NEW e \in Drone, Of(a, e)' PROVE Of(a, e)
    <3>1. ASSUME NEW k \in Handler, on'[k] = e, work'[k] = a \/ a \in leaving'[k]
          PROVE  Of(a, e)
      BY <1>3, <1>4, <1>5, <3>1, Kinds DEF Of
    <3> QED
      BY <1>2, <2>1, <3>1 DEF Of
  <2> QED
    BY <2>1, OneDroneShrinks DEF Holdings
<1>7. OnePermit'
  BY <1>2, <1>3, <1>4 DEF OnePermit, Holdings
<1>8. Noticed'
  BY <1>1, <1>2, <1>3, <1>4 DEF Noticed, Alone, Holdings
<1>9. Entered'
  BY <1>1, <1>2, <1>3, <1>4 DEF Entered, Alone, Holdings
<1>10. Accounted'
  <2>1. ASSUME NEW e \in Drone \ overlapped', registry'[e] \in Real
        PROVE  \/ <<registry'[e], e>> \in held'
               \/ \E k \in Handler : pc'[k] = "acquire" /\ on'[k] = e
               \/ \E k \in Handler : pc'[k] = "all"
    BY <1>1, <1>2, <1>3, <2>1 DEF Accounted, Alone, Holdings
  <2>2. ASSUME NEW k \in Handler, on'[k] \notin overlapped'
        PROVE  /\ pc'[k] = "connect" => <<work'[k], on'[k]>> \in held'
               /\ pc'[k] \in {"cleanup", "remove"} =>
                     \A b \in leaving'[k] \cap Real : <<b, on'[k]>> \in held'
    <3>1. CASE k = h
      <4>1. d \notin overlapped /\ \A j \in Handler : on[j] # d /\ pc[j] # "all"
        BY <1>1, <1>4, <2>2, <3>1 DEF Alone
      <4>2. registry[d] \in Real => <<registry[d], d>> \in held
        BY <4>1 DEF Accounted, Holdings
      <4> QED
        BY <1>2, <1>4, <3>1, <4>2
    <3>2. CASE k # h
      BY <1>1, <1>2, <1>3, <2>2, <3>2 DEF Accounted, Alone, Holdings
    <3> QED
      BY <3>1, <3>2
  <2>3. ASSUME NEW k \in Handler, pc'[k] = "all" PROVE overlapped' # {}
    BY <1>1, <1>3, <1>4, <2>3
  <2> QED
    BY <2>1, <2>2, <2>3 DEF Accounted
<1>11. Taken'
  BY <1>1, <1>2, <1>3, <1>4 DEF Taken, Alone, Holdings
<1>12. NoOrphan'
  BY <1>1, <1>2, <1>3, <1>4 DEF NoOrphan, Alone, Holdings
<1> QED
  BY <1>6, <1>7, <1>8, <1>9, <1>10, <1>11, <1>12 DEF Holdings

\* h is about a drone of its own, unless that was noticed.
LEMMA Apart ==
    ASSUME TypeOK, Noticed, NEW h \in Handler, on[h] # None, NEW k \in Handler, k # h
    PROVE  /\ on[k] = on[h] => on[h] \in overlapped
           /\ pc[k] = "all" => on[h] \in overlapped
  BY DEF Noticed

LEMMA AcquireKeeps ==
    ASSUME TypeOK, HandlersOK, Holdings, NEW h \in Handler, Acquire(h)
    PROVE  Holdings'
<1>1. /\ pc[h] = "acquire" /\ on[h] \in Drone /\ work[h] \in Real
      /\ pc' = [pc EXCEPT ![h] = "connect"]
      /\ held' = held \cup {<<work[h], on[h]>>}
      /\ UNCHANGED <<registry, on, work, leaving, overlapped>>
  BY DEF Acquire, HandlersOK, TypeOK
<1>2. ASSUME NEW k \in Handler PROVE pc'[k] = IF k = h THEN "connect" ELSE pc[k]
  BY <1>1 DEF TypeOK
<1>3. OneDrone'
  <2>1. ASSUME NEW a \in Agent, NEW e \in Drone, Of(a, e)' PROVE Of(a, e)
    BY <1>1, <2>1 DEF Of
  <2> QED
    BY <2>1, OneDroneShrinks DEF Holdings
<1>4. OnePermit'
  BY <1>1, <1>2, Kinds DEF OnePermit, Holdings, Agent
<1>5. Noticed'
  BY <1>1, <1>2 DEF Noticed, Holdings
<1>6. Entered'
  BY <1>1, <1>2 DEF Entered, Holdings
<1>7. Accounted'
  <2>1. ASSUME NEW e \in Drone \ overlapped, registry[e] \in Real
        PROVE  \/ <<registry[e], e>> \in held'
               \/ \E k \in Handler : pc'[k] = "acquire" /\ on[k] = e
               \/ \E k \in Handler : pc'[k] = "all"
    <3>1. CASE on[h] = e
      BY <1>1, <2>1, <3>1 DEF Entered, Holdings
    <3>2. CASE on[h] # e
      BY <1>1, <1>2, <2>1, <3>2 DEF Accounted, Holdings
    <3> QED
      BY <3>1, <3>2
  <2> QED
    BY <1>1, <1>2, <2>1 DEF Accounted, Holdings
<1>8. Taken'
  <2>1. ASSUME NEW k \in Handler, pc'[k] = "all" PROVE pc[k] = "all" /\ on[h] \in overlapped
    BY <1>1, <1>2, <2>1, Kinds DEF Noticed, Holdings
  <2> QED
    BY <1>1, <2>1 DEF Taken, Holdings
<1>9. NoOrphan'
  <2>1. registry[on[h]] = work[h] \/ on[h] \in overlapped
    BY <1>1 DEF Entered, Holdings
  <2> QED
    BY <1>1, <2>1 DEF NoOrphan, Holdings
<1> QED
  BY <1>3, <1>4, <1>5, <1>6, <1>7, <1>8, <1>9 DEF Holdings

\* connect() raised: whether it took a permit or timed out, its agent has none.
LEMMA RaiseKeeps ==
    ASSUME TypeOK, HandlersOK, Holdings, NEW h \in Handler, Raise(h),
           pc[h] \in {"acquire", "connect"}, held' = Without(work[h])
    PROVE  Holdings'
<1>1. /\ on[h] \in Drone /\ work[h] \in Agent /\ leaving[h] = {} /\ on[h] # None
      /\ registry' = [registry EXCEPT ![on[h]] = None]
      /\ UNCHANGED <<leaving, overlapped>>
      /\ held' = {p \in held : p[1] # work[h]}
  BY Kinds DEF Raise, Without, HandlersOK, TypeOK, Agent
<1>2. /\ pc'[h] = "idle" /\ on'[h] = None /\ work'[h] = None
      /\ \A k \in Handler \ {h} :
            pc'[k] = pc[k] /\ on'[k] = on[k] /\ work'[k] = work[k]
  BY DEF Raise, Idle, TypeOK
<1>3. \A e \in Drone : registry'[e] = IF e = on[h] THEN None ELSE registry[e]
  BY <1>1 DEF TypeOK
<1>4. \A k \in Handler \ {h} :
         /\ on[k] = on[h] => on[h] \in overlapped
         /\ pc[k] = "all" => on[h] \in overlapped
  BY <1>1, Apart DEF Holdings
<1>5. \A k \in Handler : None \notin leaving[k]
  BY Kinds DEF TypeOK
<1>6. OneDrone'
  <2>1. ASSUME NEW a \in Agent, NEW e \in Drone, Of(a, e)' PROVE Of(a, e)
    <3>1. CASE registry'[e] = a
      BY <1>3, <3>1, Kinds DEF Of
    <3>2. CASE <<a, e>> \in held'
      BY <1>1, <3>2 DEF Of
    <3>3. ASSUME NEW k \in Handler, on'[k] = e, work'[k] = a \/ a \in leaving'[k]
          PROVE  Of(a, e)
      BY <1>1, <1>2, <3>3, Kinds DEF Of
    <3> QED
      BY <2>1, <3>1, <3>2, <3>3 DEF Of
  <2> QED
    BY <2>1, OneDroneShrinks DEF Holdings
<1>7. OnePermit'
  BY <1>1, <1>2 DEF OnePermit, Holdings
<1>8. Noticed'
  BY <1>1, <1>2 DEF Noticed, Holdings
<1>9. Entered'
  <2>1. ASSUME NEW k \in Handler \ {h}, pc[k] \in {"acquire", "connect", "cleanup", "remove"}
        PROVE  /\ on[k] \in Drone
               /\ on[k] \notin overlapped => registry'[on[k]] = registry[on[k]]
               /\ registry'[on[k]] \in {registry[on[k]], None}
    BY <1>3, <1>4, <2>1 DEF HandlersOK, TypeOK
  <2> QED
    BY <1>1, <1>2, <1>5, <2>1 DEF Entered, Holdings
<1>10. ASSUME NEW b \in Agent, NEW e \in Drone, e # on[h], Of(b, e), <<b, e>> \in held
       PROVE  <<b, e>> \in held'
  <2>1. Of(work[h], on[h])
    BY DEF Of
  <2> QED
    BY <1>1, <1>10, <2>1 DEF Holdings, OneDrone
<1>11. Accounted'
  <2>1. ASSUME NEW e \in Drone \ overlapped, registry'[e] \in Real
        PROVE  \/ <<registry'[e], e>> \in held'
               \/ \E k \in Handler : pc'[k] = "acquire" /\ on'[k] = e
               \/ \E k \in Handler : pc'[k] = "all"
    <3>1. e # on[h] /\ registry'[e] = registry[e] /\ registry[e] \in Agent
      BY <1>3, <2>1, Kinds DEF Agent
    <3>2. CASE <<registry[e], e>> \in held
      BY <1>10, <3>1, <3>2 DEF Of
    <3>3. ASSUME NEW k \in Handler, pc[k] = "all" \/ (pc[k] = "acquire" /\ on[k] = e)
          PROVE  k # h
      BY <3>1, <3>3
    <3> QED
      BY <1>2, <2>1, <3>1, <3>2, <3>3 DEF Accounted, Holdings
  <2>2. ASSUME NEW k \in Handler, on'[k] \notin overlapped
        PROVE  /\ pc'[k] = "connect" => <<work'[k], on'[k]>> \in held'
               /\ pc'[k] \in {"cleanup", "remove"} =>
                     \A b \in leaving'[k] \cap Real : <<b, on'[k]>> \in held'
    <3>1. CASE k = h
      BY <1>2, <3>1
    <3>2. CASE k # h /\ pc[k] \in {"connect", "cleanup", "remove"}
      <4>1. on[k] \in Drone /\ on[k] # on[h] /\ on[k] \notin overlapped
        BY <1>2, <1>4, <2>2, <3>2 DEF HandlersOK, TypeOK
      <4>2. pc[k] = "connect" => work[k] \in Agent /\ <<work[k], on[k]>> \in held
        BY <4>1 DEF Accounted, Holdings, HandlersOK, TypeOK, Agent
      <4>3. pc[k] \in {"cleanup", "remove"} =>
               \A b \in leaving[k] \cap Real : <<b, on[k]>> \in held
        BY <4>1 DEF Accounted, Holdings
      <4> QED
        BY <1>1, <1>2, <1>10, <3>2, <4>1, <4>2, <4>3 DEF Of, Agent
    <3>3. CASE k # h /\ pc[k] \notin {"connect", "cleanup", "remove"}
      BY <1>2, <3>3
    <3> QED
      BY <3>1, <3>2, <3>3
  <2>3. ASSUME NEW k \in Handler, pc'[k] = "all" PROVE overlapped # {}
    BY <1>2, <1>4, <2>3
  <2> QED
    BY <1>1, <2>1, <2>2, <2>3 DEF Accounted
<1>12. Taken'
  BY <1>1, <1>2 DEF Taken, Holdings
<1>13. NoOrphan'
  <2>1. on[h] \notin overlapped => registry[on[h]] = work[h]
    BY DEF Entered, Holdings
  <2>2. \A p \in held : p[2] \in Drone
    BY DEF TypeOK
  <2> QED
    BY <1>1, <1>3, <2>1, <2>2 DEF NoOrphan, Holdings
<1> QED
  BY <1>6, <1>7, <1>8, <1>9, <1>11, <1>12, <1>13 DEF Holdings

LEMMA AcquireTimeoutKeeps ==
    ASSUME TypeOK, HandlersOK, Holdings, NEW h \in Handler, AcquireTimeout(h)
    PROVE  Holdings'
<1>1. held' = Without(work[h])
  BY DEF AcquireTimeout, Without, OnePermit, Holdings, permits
<1> QED
  BY <1>1, RaiseKeeps DEF AcquireTimeout

LEMMA ConnectSucceedsKeeps ==
    ASSUME TypeOK, HandlersOK, Holdings, NEW h \in Handler, ConnectSucceeds(h)
    PROVE  Holdings'
<1>1. pc[h] = "connect" /\ UNCHANGED <<registry, held, leaving, overlapped>>
  BY DEF ConnectSucceeds, permits
<1>2. /\ pc'[h] = "idle" /\ on'[h] = None /\ work'[h] = None
      /\ \A k \in Handler \ {h} :
            pc'[k] = pc[k] /\ on'[k] = on[k] /\ work'[k] = work[k]
  BY DEF ConnectSucceeds, Idle, TypeOK
<1>3. OneDrone'
  <2>1. ASSUME NEW a \in Agent, NEW e \in Drone, Of(a, e)' PROVE Of(a, e)
    BY <1>1, <1>2, <2>1, Kinds DEF Of
  <2> QED
    BY <2>1, OneDroneShrinks DEF Holdings
<1>4. OnePermit' /\ Noticed' /\ Entered' /\ Taken' /\ NoOrphan'
  BY <1>1, <1>2 DEF OnePermit, Noticed, Entered, Taken, NoOrphan, Holdings
<1>5. Accounted'
  <2>1. ASSUME NEW e \in Drone \ overlapped, registry[e] \in Real
        PROVE  \/ <<registry[e], e>> \in held
               \/ \E k \in Handler : pc'[k] = "acquire" /\ on'[k] = e
               \/ \E k \in Handler : pc'[k] = "all"
    BY <1>1, <1>2, <2>1 DEF Accounted, Holdings
  <2> QED
    BY <1>1, <1>2, <2>1 DEF Accounted, Holdings
<1> QED
  BY <1>3, <1>4, <1>5 DEF Holdings

\* What disconnect() takes from an agent of d disturbs no other drone.
LEMMA OthersKeep ==
    ASSUME OneDrone, NEW x \in Agent, NEW d \in Drone, Of(x, d), held' = Without(x),
           NEW b \in Agent, NEW e \in Drone, e # d, Of(b, e), <<b, e>> \in held
    PROVE  <<b, e>> \in held'
  BY DEF OneDrone, Without

\* remove_drone of an agent without telemetry tasks.
LEMMA RemoveNowKeeps ==
    ASSUME TypeOK, HandlersOK, Holdings, NEW h \in Handler, NEW d \in Drone,
           Start({d}), registry[d] # None,
           registry' = [registry EXCEPT ![d] = None],
           held' = Without(registry[d]),
           UNCHANGED <<pc, on, work, leaving>>
    PROVE  Holdings'
<1>1. /\ Alone(h, d)
      /\ d \notin overlapped' => \A k \in Handler : on[k] # d /\ pc[k] # "all"
  BY StartAlone
<1>2. registry[d] \in Agent /\ Of(registry[d], d)
  BY DEF TypeOK, Of
<1>3. \A e \in Drone : registry'[e] = IF e = d THEN None ELSE registry[e]
  BY DEF TypeOK
<1>4. \A p \in held' : p \in held /\ p[1] # registry[d]
  BY DEF Without
<1>5. \A k \in Handler : None \notin leaving[k]
  BY Kinds DEF TypeOK
<1>6. OneDrone'
  <2>1. ASSUME NEW a \in Agent, NEW e \in Drone, Of(a, e)' PROVE Of(a, e)
    BY <1>3, <1>4, <2>1, Kinds DEF Of
  <2> QED
    BY <2>1, OneDroneShrinks DEF Holdings
<1>7. OnePermit'
  BY <1>4 DEF OnePermit, Holdings
<1>8. Noticed'
  BY <1>1 DEF Noticed, Alone, Holdings
<1>9. Entered'
  <2>1. ASSUME NEW k \in Handler, pc[k] \in {"acquire", "connect", "cleanup", "remove"}
        PROVE  /\ on[k] \in Drone
               /\ on[k] \notin overlapped' =>
                     on[k] \notin overlapped /\ registry'[on[k]] = registry[on[k]]
               /\ registry'[on[k]] \in {registry[on[k]], None}
    BY <1>1, <1>3, <2>1 DEF Alone, HandlersOK, TypeOK
  <2> QED
    BY <1>5, <2>1 DEF Entered, Holdings
<1>10. Accounted'
  <2>1. ASSUME NEW e \in Drone \ overlapped', registry'[e] \in Real
        PROVE  \/ <<registry'[e], e>> \in held'
               \/ \E k \in Handler : pc[k] = "acquire" /\ on[k] = e
               \/ \E k \in Handler : pc[k] = "all"
    <3>1. e # d /\ registry'[e] = registry[e] /\ registry[e] \in Agent /\ e \notin overlapped
      BY <1>1, <1>3, <2>1, Kinds DEF Agent, Alone
    <3>2. CASE <<registry[e], e>> \in held
      BY <1>2, <3>1, <3>2, OthersKeep DEF Of, Holdings
    <3> QED
      BY <2>1, <3>1, <3>2 DEF Accounted, Holdings
  <2>2. ASSUME NEW k \in Handler, on[k] \notin overlapped',
               pc[k] \in {"connect", "cleanup", "remove"}
        PROVE  /\ pc[k] = "connect" => <<work[k], on[k]>> \in held'
               /\ pc[k] \in {"cleanup", "remove"} =>
                     \A b \in leaving[k] \cap Real : <<b, on[k]>> \in held'
    <3>1. on[k] \in Drone /\ on[k] # d /\ on[k] \notin overlapped
      BY <1>1, <2>2 DEF Alone, HandlersOK, TypeOK
    <3>2. CASE pc[k] = "connect"
      <4>1. work[k] \in Agent /\ <<work[k], on[k]>> \in held /\ Of(work[k], on[k])
        BY <3>1, <3>2 DEF Accounted, Holdings, HandlersOK, TypeOK, Agent, Of
      <4> QED
        BY <1>2, <3>1, <3>2, <4>1, OthersKeep DEF Holdings
    <3>3. CASE pc[k] \in {"cleanup", "remove"}
      <4>1. ASSUME NEW b \in leaving[k] \cap Real PROVE <<b, on[k]>> \in held'
        <5>1. b \in Agent /\ <<b, on[k]>> \in held /\ Of(b, on[k])
          BY <3>1, <3>3 DEF Accounted, Holdings, Agent, Of
        <5> QED
          BY <1>2, <3>1, <5>1, OthersKeep DEF Holdings
      <4> QED
        BY <3>3, <4>1
    <3> QED
      BY <2>2, <3>2, <3>3
  <2>3. ASSUME NEW k \in Handler, pc[k] = "all" PROVE overlapped' # {}
    BY <1>1, <2>3
  <2> QED
    BY <2>1, <2>2, <2>3 DEF Accounted
<1>11. Taken'
  BY <1>1, <1>4 DEF Taken, Alone, Holdings
<1>12. NoOrphan'
  <2>1. \A p \in held : p[2] \in Drone
    BY DEF TypeOK
  <2> QED
    BY <1>1, <1>3, <1>4, <2>1 DEF NoOrphan, Alone, Holdings
<1> QED
  BY <1>6, <1>7, <1>8, <1>9, <1>10, <1>11, <1>12 DEF Holdings

\* remove_drone of an agent whose telemetry tasks have to end first.
LEMMA RemoveLaterKeeps ==
    ASSUME TypeOK, HandlersOK, Holdings, NEW h \in Handler, NEW d \in Drone,
           pc[h] = "idle", Start({d}), registry[d] # None,
           registry' = [registry EXCEPT ![d] = None],
           pc' = [pc EXCEPT ![h] = "remove"],
           on' = [on EXCEPT ![h] = d],
           leaving' = [leaving EXCEPT ![h] = {registry[d]}],
           UNCHANGED <<held, work>>
    PROVE  Holdings'
<1>1. /\ Alone(h, d)
      /\ d \notin overlapped' => \A k \in Handler : on[k] # d /\ pc[k] # "all"
  BY StartAlone
<1>2. leaving[h] = {} /\ work[h] = None /\ registry[d] \in Agent /\ d # None
  BY Kinds DEF HandlersOK, TypeOK
<1>3. \A e \in Drone : registry'[e] = IF e = d THEN None ELSE registry[e]
  BY DEF TypeOK
<1>4. ASSUME NEW k \in Handler, k # h
      PROVE  pc'[k] = pc[k] /\ on'[k] = on[k] /\ leaving'[k] = leaving[k]
  BY <1>4 DEF TypeOK
<1>5. pc'[h] = "remove" /\ on'[h] = d /\ leaving'[h] = {registry[d]}
  BY DEF TypeOK
<1>6. \A k \in Handler : None \notin leaving[k]
  BY Kinds DEF TypeOK
<1>7. OneDrone'
  <2>1. ASSUME NEW a \in Agent, NEW e \in Drone, Of(a, e)' PROVE Of(a, e)
    <3>1. ASSUME NEW k \in Handler, on'[k] = e, work'[k] = a \/ a \in leaving'[k]
          PROVE  Of(a, e)
      BY <1>2, <1>4, <1>5, <3>1, Kinds DEF Of
    <3>2. CASE registry'[e] = a
      BY <1>3, <3>2, Kinds DEF Of
    <3> QED
      BY <2>1, <3>1, <3>2 DEF Of
  <2> QED
    BY <2>1, OneDroneShrinks DEF Holdings
<1>8. OnePermit'
  BY <1>4, <1>5 DEF OnePermit, Holdings
<1>9. Noticed'
  BY <1>1, <1>4, <1>5 DEF Noticed, Alone, Holdings
<1>10. Entered'
  <2>1. ASSUME NEW k \in Handler \ {h}, pc[k] \in {"acquire", "connect", "cleanup", "remove"}
        PROVE  /\ on[k] \in Drone
               /\ on[k] \notin overlapped' =>
                     on[k] \notin overlapped /\ registry'[on[k]] = registry[on[k]]
               /\ registry'[on[k]] \in {registry[on[k]], None}
    BY <1>1, <1>3, <2>1 DEF Alone, HandlersOK, TypeOK
  <2>2. registry'[on'[h]] \notin leaving'[h]
    BY <1>2, <1>3, <1>5
  <2> QED
    BY <1>4, <1>5, <1>6, <2>1, <2>2 DEF Entered, Holdings
<1>11. Accounted'
  <2>1. ASSUME NEW e \in Drone \ overlapped', registry'[e] \in Real
        PROVE  \/ <<registry'[e], e>> \in held
               \/ \E k \in Handler : pc'[k] = "acquire" /\ on'[k] = e
               \/ \E k \in Handler : pc'[k] = "all"
    <3>1. e # d /\ registry'[e] = registry[e] /\ e \notin overlapped
      BY <1>1, <1>3, <2>1, Kinds DEF Agent, Alone
    <3> QED
      BY <1>4, <2>1, <3>1 DEF Accounted, Holdings
  <2>2. ASSUME NEW k \in Handler, on'[k] \notin overlapped'
        PROVE  /\ pc'[k] = "connect" => <<work[k], on'[k]>> \in held
               /\ pc'[k] \in {"cleanup", "remove"} =>
                     \A b \in leaving'[k] \cap Real : <<b, on'[k]>> \in held
    <3>1. CASE k = h
      <4>1. d \notin overlapped /\ \A j \in Handler : on[j] # d /\ pc[j] # "all"
        BY <1>1, <1>5, <2>2, <3>1 DEF Alone
      <4>2. registry[d] \in Real => <<registry[d], d>> \in held
        BY <4>1 DEF Accounted, Holdings
      <4> QED
        BY <1>5, <3>1, <4>2
    <3>2. CASE k # h
      BY <1>1, <1>4, <2>2, <3>2 DEF Accounted, Alone, Holdings
    <3> QED
      BY <3>1, <3>2
  <2>3. ASSUME NEW k \in Handler, pc'[k] = "all" PROVE overlapped' # {}
    BY <1>1, <1>4, <1>5, <2>3
  <2> QED
    BY <2>1, <2>2, <2>3 DEF Accounted
<1>12. Taken'
  BY <1>1, <1>4, <1>5 DEF Taken, Alone, Holdings
<1>13. NoOrphan'
  <2>1. \A p \in held : p[2] \in Drone
    BY DEF TypeOK
  <2> QED
    BY <1>1, <1>2, <1>3, <1>4, <1>5, <2>1 DEF NoOrphan, Alone, Holdings
<1> QED
  BY <1>7, <1>8, <1>9, <1>10, <1>11, <1>12, <1>13 DEF Holdings

LEMMA RemoveKeeps ==
    ASSUME TypeOK, HandlersOK, Holdings, NEW h \in Handler, NEW d \in Drone, Remove(h, d)
    PROVE  Holdings'
<1>1. CASE registry[d] \in streams
  <2>1. /\ pc[h] = "idle" /\ Start({d}) /\ registry[d] # None
        /\ registry' = [registry EXCEPT ![d] = None]
        /\ pc' = [pc EXCEPT ![h] = "remove"]
        /\ on' = [on EXCEPT ![h] = d]
        /\ leaving' = [leaving EXCEPT ![h] = {registry[d]}]
        /\ UNCHANGED <<held, work>>
    BY <1>1 DEF Remove, permits
  <2> QED
    BY <2>1, RemoveLaterKeeps
<1>2. CASE registry[d] \notin streams
  <2>1. /\ Start({d}) /\ registry[d] # None
        /\ registry' = [registry EXCEPT ![d] = None]
        /\ held' = Without(registry[d])
        /\ UNCHANGED <<pc, on, work, leaving>>
    BY <1>2 DEF Remove
  <2> QED
    BY <2>1, RemoveNowKeeps
<1> QED
  BY <1>1, <1>2

LEMMA RemovedKeeps ==
    ASSUME TypeOK, HandlersOK, Holdings, NEW h \in Handler, Removed(h)
    PROVE  Holdings'
<1>1. PICK a \in leaving[h] : held' = Without(a)
  BY DEF Removed
<1>2. /\ pc[h] = "remove" /\ on[h] \in Drone /\ on[h] # None /\ leaving[h] = {a}
      /\ a \in Agent /\ Of(a, on[h]) /\ work[h] = None
      /\ UNCHANGED <<registry, work, overlapped>>
  BY <1>1 DEF Removed, HandlersOK, TypeOK, Of
<1>3. /\ pc'[h] = "idle" /\ on'[h] = None /\ leaving'[h] = {}
      /\ \A k \in Handler \ {h} :
            pc'[k] = pc[k] /\ on'[k] = on[k] /\ leaving'[k] = leaving[k]
  BY DEF Removed, Idle, TypeOK
<1>4. \A p \in held' : p \in held /\ p[1] # a
  BY <1>1 DEF Without
<1>5. \A k \in Handler \ {h} :
         /\ on[k] = on[h] => on[h] \in overlapped
         /\ pc[k] = "all" => on[h] \in overlapped
  BY <1>2, Apart DEF Holdings
<1>6. OneDrone'
  <2>1. ASSUME NEW b \in Agent, NEW e \in Drone, Of(b, e)' PROVE Of(b, e)
    BY <1>2, <1>3, <1>4, <2>1, Kinds DEF Of
  <2> QED
    BY <2>1, OneDroneShrinks DEF Holdings
<1>7. OnePermit'
  BY <1>2, <1>3, <1>4 DEF OnePermit, Holdings
<1>8. Noticed' /\ Entered'
  BY <1>2, <1>3 DEF Noticed, Entered, Holdings
<1>9. Accounted'
  <2>1. ASSUME NEW e \in Drone \ overlapped, registry[e] \in Real
        PROVE  \/ <<registry[e], e>> \in held'
               \/ \E k \in Handler : pc'[k] = "acquire" /\ on'[k] = e
               \/ \E k \in Handler : pc'[k] = "all"
    <3>1. e # on[h] /\ <<registry[e], e>> \in held => <<registry[e], e>> \in held'
      BY <1>1, <1>2, <2>1, OthersKeep DEF Holdings, Of, Agent
    <3>2. registry[on[h]] # a
      BY <1>2 DEF Entered, Holdings
    <3>3. <<registry[e], e>> \in held => <<registry[e], e>> \in held'
      BY <1>1, <3>1, <3>2 DEF Without
    <3> QED
      BY <1>2, <1>3, <2>1, <3>3 DEF Accounted, Holdings
  <2>2. ASSUME NEW k \in Handler, on'[k] \notin overlapped,
               pc'[k] \in {"connect", "cleanup", "remove"}
        PROVE  /\ pc'[k] = "connect" => <<work[k], on'[k]>> \in held'
               /\ pc'[k] \in {"cleanup", "remove"} =>
                     \A b \in leaving'[k] \cap Real : <<b, on'[k]>> \in held'
    <3>1. /\ k # h /\ pc'[k] = pc[k] /\ on'[k] = on[k] /\ leaving'[k] = leaving[k]
          /\ on[k] \in Drone /\ on[k] # on[h] /\ on[k] \notin overlapped
      BY <1>3, <1>5, <2>2 DEF HandlersOK, TypeOK
    <3>2. CASE pc[k] = "connect"
      <4>1. work[k] \in Agent /\ <<work[k], on[k]>> \in held /\ Of(work[k], on[k])
        BY <3>1, <3>2 DEF Accounted, Holdings, HandlersOK, TypeOK, Agent, Of
      <4> QED
        BY <1>1, <1>2, <3>1, <3>2, <4>1, OthersKeep DEF Holdings
    <3>3. CASE pc[k] \in {"cleanup", "remove"}
      <4>1. ASSUME NEW b \in leaving[k] \cap Real PROVE <<b, on[k]>> \in held'
        <5>1. b \in Agent /\ <<b, on[k]>> \in held /\ Of(b, on[k])
          BY <3>1, <3>3 DEF Accounted, Holdings, Agent, Of
        <5> QED
          BY <1>1, <1>2, <3>1, <5>1, OthersKeep DEF Holdings
      <4> QED
        BY <3>1, <3>3, <4>1
    <3> QED
      BY <2>2, <3>1, <3>2, <3>3
  <2>3. ASSUME NEW k \in Handler, pc'[k] = "all" PROVE overlapped # {}
    BY <1>3, <1>5, <2>3
  <2> QED
    BY <1>2, <2>1, <2>2, <2>3 DEF Accounted
<1>10. Taken'
  BY <1>2, <1>3, <1>4 DEF Taken, Holdings
<1>11. NoOrphan'
  BY <1>2, <1>3, <1>4 DEF NoOrphan, Holdings
<1> QED
  BY <1>6, <1>7, <1>8, <1>9, <1>10, <1>11 DEF Holdings

LEMMA DisconnectAllKeeps ==
    ASSUME TypeOK, HandlersOK, Holdings, NEW h \in Handler, DisconnectAll(h)
    PROVE  Holdings'
<1>1. /\ pc[h] = "idle" /\ on[h] = None /\ leaving[h] = {} /\ Drone # {}
      /\ UNCHANGED <<registry, held, on, work>>
  BY DEF DisconnectAll, HandlersOK, permits
<1>2. /\ overlapped \subseteq overlapped'
      /\ \A e \in Drone \ overlapped' : \A k \in Handler : on[k] # e /\ pc[k] # "all"
  BY DEF DisconnectAll, Start, Busy
<1>3. /\ pc'[h] = "all" /\ leaving'[h] = {registry[e] : e \in Drone} \ {None}
      /\ \A k \in Handler \ {h} : pc'[k] = pc[k] /\ leaving'[k] = leaving[k]
  BY DEF DisconnectAll, TypeOK
<1>4. OneDrone'
  <2>1. ASSUME NEW b \in Agent, NEW e \in Drone, Of(b, e)' PROVE Of(b, e)
    BY <1>1, <1>3, <2>1, Kinds DEF Of
  <2> QED
    BY <2>1, OneDroneShrinks DEF Holdings
<1>5. OnePermit'
  BY <1>1, <1>3 DEF OnePermit, Holdings
<1>6. Noticed'
  <2>1. \A k \in Handler : on[k] # None => on[k] \in Drone
    BY DEF TypeOK
  <2> QED
    BY <1>1, <1>2, <1>3, <2>1 DEF Noticed, Holdings
<1>7. Entered'
  BY <1>1, <1>2, <1>3 DEF Entered, Holdings
<1>8. Accounted'
  <2>1. ASSUME NEW k \in Handler, on[k] \notin overlapped'
        PROVE  /\ pc'[k] = "connect" => <<work[k], on[k]>> \in held
               /\ pc'[k] \in {"cleanup", "remove"} =>
                     \A b \in leaving'[k] \cap Real : <<b, on[k]>> \in held
    BY <1>2, <1>3, <2>1 DEF HandlersOK, TypeOK
  <2>2. ASSUME NEW k \in Handler, pc'[k] = "all", overlapped' = {},
               NEW b \in leaving'[k] \cap Real
        PROVE  \E e \in Drone : <<b, e>> \in held
    <3>1. k = h
      BY <1>1, <1>2, <1>3, <2>2
    <3>2. PICK e \in Drone : registry[e] = b
      BY <1>3, <2>2, <3>1
    <3>3. <<registry[e], e>> \in held
      BY <1>2, <2>2, <3>2 DEF Accounted, Holdings
    <3> QED
      BY <3>2, <3>3
  <2> QED
    BY <1>1, <1>3, <2>1, <2>2 DEF Accounted
<1>9. Taken'
  <2>1. ASSUME NEW k \in Handler, pc'[k] = "all", NEW p \in held, p[2] \notin overlapped'
        PROVE  p[1] \in leaving'[k]
    <3>1. PICK a \in Real, e \in Drone : p = <<a, e>>
      BY DEF TypeOK
    <3>2. k = h /\ e \notin overlapped'
      BY <1>2, <1>3, <2>1, <3>1
    <3>3. a \in Agent /\ a # None /\ Of(a, e)
      BY <3>1, Kinds DEF Agent, Of
    <3>4. ASSUME NEW j \in Handler, a \in leaving[j] PROVE FALSE
      <4>1. pc[j] \in {"cleanup", "remove", "all"}
        BY <3>4 DEF HandlersOK, TypeOK
      <4>2. pc[j] # "all"
        BY <1>2, <3>2
      <4>3. on[j] \in Drone /\ Of(a, on[j])
        BY <3>4, <4>1, <4>2 DEF HandlersOK, TypeOK, Of
      <4> QED
        BY <1>2, <3>2, <3>3, <4>3 DEF OneDrone, Holdings
    <3>5. registry[e] = a
      BY <1>2, <2>1, <3>1, <3>2, <3>4 DEF NoOrphan, Holdings
    <3> QED
      BY <1>3, <3>1, <3>2, <3>3, <3>5
  <2> QED
    BY <1>1, <2>1 DEF Taken
<1>10. NoOrphan'
  BY <1>1, <1>2, <1>3 DEF NoOrphan, Holdings
<1> QED
  BY <1>4, <1>5, <1>6, <1>7, <1>8, <1>9, <1>10 DEF Holdings

LEMMA DisconnectOneKeeps ==
    ASSUME TypeOK, HandlersOK, Holdings, NEW h \in Handler, DisconnectOne(h)
    PROVE  Holdings'
<1>1. PICK a \in leaving[h] :
         held' = Without(a) /\ leaving' = [leaving EXCEPT ![h] = @ \ {a}]
  BY DEF DisconnectOne
<1>2. /\ pc[h] = "all" /\ on[h] = None
      /\ UNCHANGED <<registry, pc, on, work, overlapped>>
  BY DEF DisconnectOne, HandlersOK
<1>3. /\ leaving'[h] = leaving[h] \ {a}
      /\ \A k \in Handler \ {h} : leaving'[k] = leaving[k]
  BY <1>1 DEF TypeOK
<1>4. \A p : p \in held' <=> p \in held /\ p[1] # a
  BY <1>1 DEF Without
<1>5. \A k \in Handler : on[k] # None => on[k] \in overlapped
  BY <1>2 DEF Noticed, Holdings
<1>6. OneDrone'
  <2>1. ASSUME NEW b \in Agent, NEW e \in Drone, Of(b, e)' PROVE Of(b, e)
    BY <1>2, <1>3, <1>4, <2>1 DEF Of
  <2> QED
    BY <2>1, OneDroneShrinks DEF Holdings
<1>7. OnePermit' /\ Noticed'
  BY <1>2, <1>4 DEF OnePermit, Noticed, Holdings
<1>8. Entered'
  BY <1>2, <1>3 DEF Entered, Holdings
<1>9. Accounted'
  <2>1. ASSUME NEW k \in Handler, on[k] \notin overlapped
        PROVE  pc[k] \notin {"connect", "cleanup", "remove"}
    BY <1>5, <2>1 DEF HandlersOK
  <2>2. ASSUME NEW k \in Handler, pc[k] = "all", overlapped = {},
               NEW b \in leaving'[k] \cap Real
        PROVE  \E e \in Drone : <<b, e>> \in held'
    <3>1. k = h
      BY <1>2, <2>2 DEF Noticed, Holdings
    <3>2. PICK e \in Drone : <<b, e>> \in held
      BY <1>3, <2>2, <3>1 DEF Accounted, Holdings
    <3> QED
      BY <1>3, <1>4, <2>2, <3>1, <3>2
  <2> QED
    BY <1>2, <2>1, <2>2 DEF Accounted
<1>10. Taken'
  BY <1>2, <1>3, <1>4 DEF Taken, Holdings
<1>11. NoOrphan'
  BY <1>2, <1>3, <1>4 DEF NoOrphan, Holdings
<1> QED
  BY <1>6, <1>7, <1>8, <1>9, <1>10, <1>11 DEF Holdings

LEMMA ClearKeeps ==
    ASSUME TypeOK, HandlersOK, Holdings, NEW h \in Handler, Clear(h)
    PROVE  Holdings'
<1>1. /\ pc[h] = "all" /\ on[h] = None /\ leaving[h] = {}
      /\ \A d \in Drone : registry'[d] = None
      /\ UNCHANGED <<held, on, work, leaving, overlapped>>
  BY DEF Clear, HandlersOK, permits
<1>2. pc'[h] = "idle" /\ \A k \in Handler \ {h} : pc'[k] = pc[k]
  BY DEF Clear, Idle, TypeOK
<1>3. \A k \in Handler : on[k] # None => on[k] \in overlapped
  BY <1>1 DEF Noticed, Holdings
<1>4. \A k \in Handler : None \notin leaving[k]
  BY Kinds DEF TypeOK
<1>5. OneDrone'
  <2>1. ASSUME NEW b \in Agent, NEW e \in Drone, Of(b, e)' PROVE Of(b, e)
    BY <1>1, <2>1, Kinds DEF Of
  <2> QED
    BY <2>1, OneDroneShrinks DEF Holdings
<1>6. OnePermit' /\ Noticed' /\ Taken'
  BY <1>1, <1>2 DEF OnePermit, Noticed, Taken, Holdings
<1>7. Entered'
  <2>1. \A k \in Handler : pc'[k] = "remove" => on[k] \in Drone
    BY <1>2 DEF HandlersOK, TypeOK
  <2>2. \A k \in Handler : on[k] \notin overlapped => pc'[k] \in {"idle", "all"}
    BY <1>2, <1>3 DEF HandlersOK
  <2> QED
    BY <1>1, <1>4, <2>1, <2>2 DEF Entered
<1>8. Accounted'
  <2>1. \A k \in Handler : on[k] \notin overlapped => pc'[k] \in {"idle", "all"}
    BY <1>2, <1>3 DEF HandlersOK
  <2>2. \A k \in Handler : pc'[k] = "all" => pc[k] = "all"
    BY <1>2
  <2>3. None \notin Real
    BY Kinds DEF Agent
  <2> QED
    BY <1>1, <2>1, <2>2, <2>3 DEF Accounted, Holdings
<1>9. NoOrphan'
  BY <1>1 DEF Taken, NoOrphan, Holdings
<1> QED
  BY <1>5, <1>6, <1>7, <1>8, <1>9 DEF Holdings

LEMMA InjectKeeps ==
    ASSUME TypeOK, HandlersOK, Holdings, NEW d \in Drone, Inject(d)
    PROVE  Holdings'
<1>1. /\ UNCHANGED <<held, pc, on, work, leaving, overlapped>>
      /\ \/ UNCHANGED registry
         \/ /\ registry[d] = None
            /\ \E a \in New(Stub) : registry' = [registry EXCEPT ![d] = a]
  BY DEF Inject, permits, handlers
<1>2. CASE UNCHANGED registry
  BY <1>1, <1>2 DEF Holdings, OneDrone, OnePermit, Noticed, Entered, Accounted,
                    Taken, NoOrphan, Of
<1>3. ASSUME NEW a \in New(Stub), registry[d] = None,
             registry' = [registry EXCEPT ![d] = a]
      PROVE  Holdings'
  <2>1. /\ a \in Stub /\ a \in Agent
        /\ \A e \in Drone : ~Of(a, e)
        /\ \A k \in Handler : work[k] # a /\ a \notin leaving[k]
    <3>1. Stub \in SUBSET Agent
      BY DEF Agent
    <3> QED
      BY <1>3, <3>1, Fresh
  <2>2. \A e \in Drone : registry'[e] = IF e = d THEN a ELSE registry[e]
    BY <1>3 DEF TypeOK
  <2>3. OneDrone'
    <3>1. ASSUME NEW b \in Agent, NEW e \in Drone, Of(b, e)'
          PROVE  Of(b, e) \/ (b = a /\ e = d)
      BY <1>1, <2>2, <3>1 DEF Of
    <3> QED
      BY <2>1, <3>1, OneDroneKept DEF Holdings
  <2>4. OnePermit' /\ Noticed' /\ Taken'
    BY <1>1 DEF OnePermit, Noticed, Taken, Holdings
  <2>5. Entered'
    <3>1. ASSUME NEW k \in Handler
          PROVE  /\ pc[k] \in {"acquire", "connect"} => work[k] # None
                 /\ pc[k] \in {"acquire", "connect", "cleanup", "remove"} => on[k] \in Drone
                 /\ None \notin leaving[k]
      BY Kinds DEF HandlersOK, TypeOK
    <3> QED
      BY <1>1, <1>3, <2>1, <2>2, <3>1 DEF Entered, Holdings
  <2>6. Accounted'
    <3>1. a \notin Real
      BY <2>1, RegistryAssumption
    <3> QED
      BY <1>1, <2>2, <3>1 DEF Accounted, Holdings
  <2>7. NoOrphan'
    <3>1. \A p \in held : p[1] # None /\ p[2] \in Drone
      BY Kinds DEF TypeOK, Agent
    <3> QED
      BY <1>1, <1>3, <2>2, <3>1 DEF NoOrphan, Holdings
  <2> QED
    BY <2>3, <2>4, <2>5, <2>6, <2>7 DEF Holdings
<1> QED
  BY <1>1, <1>2, <1>3

\* Telemetry and the stale checker change what agents say of themselves only.
LEMMA HoldingsStand ==
    ASSUME Holdings, UNCHANGED <<registry, held, pc, on, work, leaving, overlapped>>
    PROVE  Holdings'
  BY DEF Holdings, OneDrone, OnePermit, Noticed, Entered, Accounted, Taken, NoOrphan, Of

LEMMA HoldingsKeep ==
    ASSUME TypeOK, HandlersOK, Holdings, [Next]_vars
    PROVE  Holdings'
<1>1. ASSUME NEW h \in Handler, ConnectFails(h) PROVE Holdings'
  BY <1>1, RaiseKeeps DEF ConnectFails
<1>2. CASE \/ \E d \in Drone : Stale(d)
           \/ \E a \in Agent : Position(a)
           \/ UNCHANGED vars
  BY <1>2, HoldingsStand DEF Stale, Position, permits, handlers, vars
<1> QED
  BY <1>1, <1>2, AddFreshKeeps, AddStaleKeeps, AddCleanedKeeps, AcquireKeeps,
     AcquireTimeoutKeeps, ConnectSucceedsKeeps, RemoveKeeps, RemovedKeeps,
     DisconnectAllKeeps, DisconnectOneKeeps, ClearKeeps, InjectKeeps
     DEF Next, add_drone

-----------------------------------------------------------------------------
(* The semaphore as those who share it see it.                             *)

LEMMA PoolStep ==
    ASSUME overlapped \subseteq overlapped', NEW f \in {free, free + 1}, NEW H \in SUBSET held,
           Pool!GiveBack(f, H), Pool!Take(f, H)
    PROVE  Pool!Next
<1>1. (overlapped' # {}) \in BOOLEAN /\ (overlapped # {} => overlapped' # {})
  OBVIOUS
<1> QED
  BY <1>1 DEF Pool!Next

\* disconnect() gives back what its agent has, or something overlapped.
LEMMA PoolGivesBack ==
    ASSUME TypeOK, OneDrone, NEW a \in Agent,
           overlapped' = {} /\ a \in Real => \E d \in Drone : <<a, d>> \in held
    PROVE  /\ Pool!GiveBack(free + Given(a), Without(a))
           /\ free + Given(a) \in {free, free + 1}
           /\ Without(a) \in SUBSET held
<1>1. Without(a) \in SUBSET held /\ free \in Nat
  BY DEF Without, TypeOK
<1>2. CASE a \notin Real
  <2>1. \A p \in held : p[1] # a
    BY <1>2 DEF TypeOK
  <2>2. Without(a) = held /\ free + Given(a) = free
    BY <1>1, <1>2, <2>1, Kinds DEF Without
  <2> QED
    BY <1>1, <2>2 DEF Pool!GiveBack
<1>3. CASE a \in Real
  <2>1. free + Given(a) = free + 1
    BY <1>3, Kinds
  <2>2. ASSUME NEW d \in Drone, <<a, d>> \in held PROVE Without(a) = held \ {<<a, d>>}
    <3>1. ASSUME NEW p \in held, p[1] = a PROVE p = <<a, d>>
      <4>1. PICK b \in Real, e \in Drone : p = <<b, e>>
        BY DEF TypeOK
      <4>2. Of(a, e) /\ Of(a, d)
        BY <2>2, <3>1, <4>1 DEF Of
      <4> QED
        BY <3>1, <4>1, <4>2 DEF OneDrone
    <3> QED
      BY <2>2, <3>1 DEF Without
  <2>3. ASSUME \A d \in Drone : <<a, d>> \notin held
        PROVE  Without(a) = held /\ overlapped' # {}
    <3>1. \A p \in held : p[1] # a
      BY <2>3 DEF TypeOK
    <3> QED
      BY <1>3, <2>3, <3>1 DEF Without
  <2> QED
    BY <1>1, <2>1, <2>2, <2>3 DEF Pool!GiveBack
<1> QED
  BY <1>2, <1>3

\* connect() of a new agent takes a permit the agent does not have.
LEMMA PoolTakes ==
    ASSUME TypeOK, NEW h \in Handler, NEW d \in Drone, NEW f \in Nat,
           NEW hd \in SUBSET held, NewAgent(h, d, f, hd)
    PROVE  Pool!Take(f, hd)
<1>1. PICK a \in Real :
        /\ a \in New(Real)
        /\ \/ f > 0 /\ free' = f - 1 /\ held' = hd \cup {<<a, d>>}
           \/ free' = f /\ held' = hd
  BY NewAgentFacts
<1>2. <<a, d>> \notin hd
  <2>1. Real \in SUBSET Agent
    BY DEF Agent
  <2> QED
    BY <1>1, <2>1, Fresh
<1> QED
  BY <1>1, <1>2 DEF Pool!Take

\* The agent entered for d, when an operation starts on it alone.
LEMMA StartHeld ==
    ASSUME TypeOK, Holdings, NEW h \in Handler, NEW d \in Drone, Start({d})
    PROVE  overlapped' = {} /\ registry[d] \in Real => \E e \in Drone : <<registry[d], e>> \in held
<1>1. SUFFICES ASSUME overlapped' = {}, registry[d] \in Real
               PROVE  <<registry[d], d>> \in held
  OBVIOUS
<1>2. d \notin overlapped /\ \A k \in Handler : on[k] # d /\ pc[k] # "all"
  BY <1>1, StartAlone DEF Alone
<1> QED
  BY <1>1, <1>2 DEF Accounted, Holdings

\* Every step is one of the pool.
LEMMA PoolKeeps ==
    ASSUME TypeOK, HandlersOK, Holdings, [Next]_vars
    PROVE  Pool!Next
<1> USE DEF Holdings
<1>1. overlapped \subseteq overlapped'
  BY DEF Next, add_drone, AddFresh, AddStale, AddCleaned, Acquire, AcquireTimeout,
         ConnectFails, ConnectSucceeds, Raise, Remove, Removed, DisconnectAll,
         DisconnectOne, Clear, Stale, Inject, Position, Start, vars
<1>2. free \in Nat /\ free \in {free, free + 1} /\ held \in SUBSET held
      /\ Pool!GiveBack(free, held)
  BY DEF TypeOK, Pool!GiveBack
<1>3. ASSUME UNCHANGED permits PROVE Pool!Next
  <2>1. Pool!Take(free, held)
    BY <1>3 DEF Pool!Take, permits
  <2> QED
    BY <1>1, <1>2, <2>1, PoolStep
<1>4. ASSUME NEW a \in Agent, free' = free + Given(a), held' = Without(a),
             overlapped' = {} /\ a \in Real => \E d \in Drone : <<a, d>> \in held
      PROVE  Pool!Next
  <2>1. Pool!Take(free + Given(a), Without(a))
    BY <1>4 DEF Pool!Take
  <2> QED
    BY <1>1, <1>4, <2>1, PoolGivesBack, PoolStep
<1>5. ASSUME NEW a \in Agent, NEW h \in Handler, NEW d \in Drone,
             NewAgent(h, d, free + Given(a), Without(a)),
             overlapped' = {} /\ a \in Real => \E e \in Drone : <<a, e>> \in held
      PROVE  Pool!Next
  <2>1. Without(a) \in SUBSET held /\ free + Given(a) \in Nat
    BY <1>2, GivenNat DEF Without
  <2>2. Pool!Take(free + Given(a), Without(a))
    BY <1>5, <2>1, PoolTakes
  <2> QED
    BY <1>1, <1>5, <2>2, PoolGivesBack, PoolStep
<1>6. ASSUME NEW h \in Handler, NEW d \in Drone, AddFresh(h, d) PROVE Pool!Next
  <2>1. CASE NewAgent(h, d, free, held)
    BY <1>1, <1>2, <2>1, PoolTakes, PoolStep
  <2>2. CASE /\ registry[d] # None
             /\ NewAgent(h, d, free + Given(registry[d]), Without(registry[d]))
    <3>1. registry[d] \in Agent
      BY <2>2 DEF TypeOK
    <3>2. overlapped' = {} /\ registry[d] \in Real => \E e \in Drone : <<registry[d], e>> \in held
      BY <1>6, StartHeld DEF AddFresh
    <3> QED
      BY <1>5, <2>2, <3>1, <3>2
  <2> QED
    BY <1>6, <2>1, <2>2 DEF AddFresh
<1>7. ASSUME NEW h \in Handler, AddCleaned(h) PROVE Pool!Next
  <2>1. PICK old \in leaving[h] : NewAgent(h, on[h], free + Given(old), Without(old))
    BY <1>7 DEF AddCleaned
  <2>2. pc[h] = "cleanup" /\ old \in Agent /\ on[h] \in Drone /\ overlapped' = overlapped
    BY <1>7 DEF AddCleaned, HandlersOK, TypeOK
  <2>3. overlapped' = {} /\ old \in Real => <<old, on[h]>> \in held
    BY <2>2 DEF Accounted
  <2> QED
    BY <1>5, <2>1, <2>2, <2>3
<1>8. ASSUME NEW h \in Handler, Acquire(h) PROVE Pool!Next
  <2>1. /\ free > 0 /\ free' = free - 1
        /\ held' = held \cup {<<work[h], on[h]>>} /\ <<work[h], on[h]>> \notin held
    BY <1>8 DEF Acquire, OnePermit
  <2>2. work[h] \in Real /\ on[h] \in Drone
    BY <1>8 DEF Acquire, HandlersOK, TypeOK
  <2>3. Pool!Take(free, held)
    BY <2>1, <2>2 DEF Pool!Take
  <2> QED
    BY <1>1, <1>2, <2>3, PoolStep
<1>9. ASSUME NEW h \in Handler, ConnectFails(h) PROVE Pool!Next
  <2>1. /\ pc[h] = "connect" /\ work[h] \in Real /\ work[h] \in Agent /\ on[h] \in Drone
        /\ free' = free + 1 /\ held' = Without(work[h]) /\ overlapped' = overlapped
    BY <1>9 DEF ConnectFails, Raise, HandlersOK, TypeOK, Agent
  <2>2. Given(work[h]) = 1
    BY <2>1, Kinds
  <2>3. overlapped' = {} => <<work[h], on[h]>> \in held
    BY <2>1 DEF Accounted
  <2> QED
    BY <1>4, <2>1, <2>2, <2>3
<1>10. ASSUME NEW h \in Handler, NEW d \in Drone, Remove(h, d) PROVE Pool!Next
  <2>1. CASE registry[d] \in streams
    BY <1>3, <1>10, <2>1 DEF Remove
  <2>2. CASE registry[d] \notin streams
    <3>1. registry[d] \in Agent
      BY <1>10 DEF Remove, TypeOK
    <3>2. overlapped' = {} /\ registry[d] \in Real => \E e \in Drone : <<registry[d], e>> \in held
      BY <1>10, StartHeld DEF Remove
    <3>3. free' = free + Given(registry[d]) /\ held' = Without(registry[d])
      BY <1>10, <2>2 DEF Remove
    <3> QED
      BY <1>4, <3>1, <3>2, <3>3
  <2> QED
    BY <2>1, <2>2
<1>11. ASSUME NEW h \in Handler, Removed(h) PROVE Pool!Next
  <2>1. PICK a \in leaving[h] : free' = free + Given(a) /\ held' = Without(a)
    BY <1>11 DEF Removed
  <2>2. pc[h] = "remove" /\ a \in Agent /\ on[h] \in Drone /\ overlapped' = overlapped
    BY <1>11 DEF Removed, HandlersOK, TypeOK
  <2>3. overlapped' = {} /\ a \in Real => <<a, on[h]>> \in held
    BY <2>2 DEF Accounted
  <2> QED
    BY <1>4, <2>1, <2>2, <2>3
<1>12. ASSUME NEW h \in Handler, DisconnectOne(h) PROVE Pool!Next
  <2>1. PICK a \in leaving[h] : free' = free + Given(a) /\ held' = Without(a)
    BY <1>12 DEF DisconnectOne
  <2>2. pc[h] = "all" /\ a \in Agent /\ overlapped' = overlapped
    BY <1>12 DEF DisconnectOne, TypeOK
  <2>3. overlapped' = {} /\ a \in Real => \E d \in Drone : <<a, d>> \in held
    BY <2>2 DEF Accounted
  <2> QED
    BY <1>4, <2>1, <2>2, <2>3
<1>13. CASE UNCHANGED permits
  BY <1>3, <1>13
<1> QED
  BY <1>6, <1>7, <1>8, <1>9, <1>10, <1>11, <1>12, <1>13
     DEF Next, add_drone, AddStale, AcquireTimeout, ConnectSucceeds, DisconnectAll,
         Clear, Stale, Inject, Position, vars, permits

\* How many permits there are, from the pool alone: a step that gives one back
\* and one that takes one leave their number as it was, and a doubled one adds
\* to it.
Permits == IsFiniteSet(held) /\ NoPermitLost /\ CapKept

LEMMA PermitsKeep ==
    ASSUME TypeOK, TypeOK', Permits, Pool!Next
    PROVE  Permits'
<1>1. PICK f \in {free, free + 1}, H \in SUBSET held : Pool!GiveBack(f, H) /\ Pool!Take(f, H)
  BY DEF Pool!Next
<1>2. overlapped' = {} => overlapped = {}
  BY DEF Pool!Next
<1>3. free \in Nat /\ f \in Nat /\ free' \in Nat /\ MaxPermits \in Nat
  BY RegistryAssumption DEF TypeOK
<1>4. IsFiniteSet(held) /\ Cardinality(held) \in Nat
  BY FS_CardinalityType DEF Permits
<1>5. /\ IsFiniteSet(H) /\ Cardinality(H) \in Nat
      /\ f + Cardinality(H) >= free + Cardinality(held)
      /\ overlapped' = {} => f + Cardinality(H) = free + Cardinality(held)
  <2>1. CASE H = held
    BY <1>1, <1>3, <1>4, <2>1 DEF Pool!GiveBack
  <2>2. ASSUME NEW o \in held, H = held \ {o}, f = free + 1
        PROVE  /\ IsFiniteSet(H) /\ Cardinality(H) \in Nat
               /\ f + Cardinality(H) = free + Cardinality(held)
    <3>1. IsFiniteSet(H) /\ Cardinality(H) = Cardinality(held) - 1
      BY <1>4, <2>2, FS_RemoveElement
    <3>2. Cardinality(H) \in Nat
      BY <3>1, FS_CardinalityType
    <3> QED
      BY <1>3, <1>4, <2>2, <3>1, <3>2
  <2> QED
    BY <1>1, <1>3, <1>4, <2>1, <2>2 DEF Pool!GiveBack
<1>6. /\ IsFiniteSet(held') /\ Cardinality(held') \in Nat
      /\ free' + Cardinality(held') = f + Cardinality(H)
  <2>1. CASE free' = f /\ held' = H
    BY <1>5, <2>1
  <2>2. ASSUME NEW o, o \notin H, held' = H \cup {o}, f > 0, free' = f - 1
        PROVE  /\ IsFiniteSet(held') /\ Cardinality(held') \in Nat
               /\ free' + Cardinality(held') = f + Cardinality(H)
    <3>1. IsFiniteSet(held') /\ Cardinality(held') = Cardinality(H) + 1
      BY <1>5, <2>2, FS_AddElement
    <3> QED
      BY <1>3, <1>5, <2>2, <3>1
  <2> QED
    BY <1>1, <2>1, <2>2 DEF Pool!Take
<1>7. NoPermitLost'
  BY <1>3, <1>4, <1>5, <1>6 DEF NoPermitLost, Permits
<1>8. CapKept'
  BY <1>2, <1>3, <1>4, <1>5, <1>6 DEF CapKept, Permits
<1> QED
  BY <1>6, <1>7, <1>8 DEF Permits

-----------------------------------------------------------------------------
(* The invariant.  TypeOK, NoPermitLost and CapKept say nothing of who     *)
(* holds what, so they are not inductive: that a permit is given back      *)
(* without being lost or doubled follows from Holdings.                    *)

Inv == TypeOK /\ HandlersOK /\ Holdings /\ Permits

LEMMA Initially == Init => Inv
<1> SUFFICES ASSUME Init PROVE Inv
  OBVIOUS
<1> USE Kinds DEF Init
<1>1. TypeOK /\ HandlersOK
  BY RegistryAssumption DEF TypeOK, HandlersOK
<1>2. OneDrone /\ OnePermit /\ Noticed /\ Entered
  BY DEF OneDrone, Of, OnePermit, Noticed, Entered
<1>3. None \notin Real
  BY DEF Agent
<1>4. Accounted /\ Taken /\ NoOrphan
  BY <1>3 DEF Accounted, Taken, NoOrphan
<1>5. IsFiniteSet(held) /\ Cardinality(held) = 0
  BY FS_EmptySet
<1>6. Permits
  BY <1>5, RegistryAssumption DEF Permits, NoPermitLost, CapKept
<1> QED
  BY <1>1, <1>2, <1>4, <1>6 DEF Inv, Holdings

LEMMA Inductive == Inv /\ [Next]_vars => Inv'
  BY TypeKeeps, HoldingsKeep, PoolKeeps, PermitsKeep DEF Inv

LEMMA Invariance == Spec => []Inv
  BY Initially, Inductive, PTL DEF Spec

-----------------------------------------------------------------------------
(* The theorems.                                                           *)

\* Whatever requests, telemetry, the stale checker and the simulator do to the
\* registry, its maps, agents and permits keep their types.
THEOREM TypeTheorem == Spec => []TypeOK
<1>1. Inv => TypeOK
  BY DEF Inv
<1> QED
  BY <1>1, Invariance, PTL

\* connect() that times out or fails, disconnect() of an agent that never got
\* through, remove_drone and disconnect_all in the middle of a connect: none
\* of them ever costs the semaphore a permit.
THEOREM NoPermitLostTheorem == Spec => []NoPermitLost
<1>1. Inv => NoPermitLost
  BY DEF Inv, Permits
<1> QED
  BY <1>1, Invariance, PTL

\* As long as no two operations were about one drone at once, the release() of
\* disconnect() never lifts the semaphore above MAX_CONCURRENT_CONNECTIONS.
THEOREM CapKeptTheorem == Spec => []CapKept
<1>1. Inv => CapKept
  BY DEF Inv, Permits
<1> QED
  BY <1>1, Invariance, PTL

\* So no more agents are connecting and connected than that.
THEOREM LimitTheorem == Spec => [](overlapped = {} => Cardinality(held) <= MaxPermits)
<1>1. Inv => (overlapped = {} => Cardinality(held) <= MaxPermits)
  <2>1. ASSUME Inv PROVE free \in Nat /\ Cardinality(held) \in Nat /\ MaxPermits \in Nat
    BY <2>1, FS_CardinalityType, RegistryAssumption DEF Inv, TypeOK, Permits
  <2> QED
    BY <2>1 DEF Inv, Permits, CapKept
<1> QED
  BY <1>1, Invariance, PTL

\* An agent that took a permit is entered for its drone or being disconnected,
\* unless operations on that drone overlapped: no connection is forgotten.
THEOREM NoOrphanTheorem == Spec => []NoOrphan
<1>1. Inv => NoOrphan
  BY DEF Inv, Holdings
<1> QED
  BY <1>1, Invariance, PTL

\* DroneRegistry and its agents implement PermitPool: connect(), its failures
\* and disconnect() take and give back the permits of the semaphore as holders
\* do, and once two operations on one drone have overlapped, the only thing that
\* may go wrong is a permit too many.
THEOREM Refinement == Spec => PermitsShared
<1>1. Init => Pool!Init
  BY DEF Init, Pool!Init
<1>2. Inv /\ [Next]_vars => [Pool!Next]_(Pool!pool)
  BY PoolKeeps DEF Inv
<1> QED
  BY <1>1, <1>2, Invariance, PTL DEF Spec, PermitsShared, Pool!Spec
=============================================================================
