--------------------------- MODULE FleetAIProofs ---------------------------
(***************************************************************************)
(* Proofs about what Fleet AI keeps: its view of the drones (FleetView),   *)
(* the daily counters and the cached locations (FleetStore).  The two      *)
(* specifications share no variable; each theorem names the one it is      *)
(* about.                                                                  *)
(***************************************************************************)
EXTENDS FleetView, FleetStore, SequenceTheorems, TLAPS

-----------------------------------------------------------------------------
(* The view of the drones: no drone's state is ever replaced by an older   *)
(* one, for any number of drones, connections, losses and restarts.        *)

\* f says nothing newer than g of any drone both know.
Precedes(f, g) == \A d \in DOMAIN f \cap DOMAIN g : f[d] <= g[d]

\* What Fleet AI has entered or works on.
Entered(f) == f = view \/ f = hash \/ f = current

\* Nobody knows more than the agents.
Truthful ==
    /\ Precedes(view, truth) /\ Precedes(hash, truth)
    /\ Precedes(current, truth) /\ Precedes(message, truth)
    /\ \A i \in 1..Len(inbox) : Precedes(inbox[i], truth)

\* Messages wait in the order of their age, the one that is being sent on the
\* open connection behind them.
InLine ==
    /\ \A i \in 1..Len(inbox) : \A j \in i..Len(inbox) : Precedes(inbox[i], inbox[j])
    /\ link \in sending => \A i \in 1..Len(inbox) : Precedes(inbox[i], message)

\* What was entered is no newer than any of them.
Before(f) ==
    /\ \A i \in 1..Len(inbox) : Precedes(f, inbox[i])
    /\ link \in sending => Precedes(f, message)

\* What is left of the current message is no older than what was entered.
Current ==
    /\ \A d \in todo : view[d] <= current[d] /\ hash[d] <= current[d]
    /\ writing # None => hash[writing] <= current[writing]

Inv ==
    /\ TypeOK
    /\ Truthful
    /\ InLine
    /\ Before(view) /\ Before(hash) /\ Before(current)
    /\ Current

-----------------------------------------------------------------------------
(* Messages.                                                               *)

LEMMA MessageFacts ==
    ASSUME NEW m \in Message
    PROVE  DOMAIN m \subseteq Drone /\ \A d \in DOMAIN m : m[d] \in State
  BY DEF Message

LEMMA NothingFacts ==
    /\ Nothing \in Message
    /\ DOMAIN Nothing = {}
<1>1. Nothing \in [{} -> State]
  BY DEF Nothing
<1>2. {} \in SUBSET Drone
  OBVIOUS
<1> QED
  BY <1>1, <1>2 DEF Message, Nothing

LEMMA SnapshotFacts ==
    ASSUME TypeOK
    PROVE  Snapshot \in Message /\ Precedes(Snapshot, truth)
<1>1. registered \in SUBSET Drone
  BY DEF TypeOK
<1>2. Snapshot \in [registered -> State]
  BY DEF Snapshot, TypeOK
<1>3. Precedes(Snapshot, truth)
  BY <1>1, FleetViewAssumption DEF Precedes, Snapshot, TypeOK, State
<1> QED
  BY <1>1, <1>2, <1>3 DEF Message

LEMMA Numbers ==
    ASSUME TypeOK
    PROVE  /\ truth \in [Drone -> Int] /\ view \in [Drone -> Int] /\ hash \in [Drone -> Int]
           /\ State \subseteq Nat
           /\ \A d \in Drone : truth[d] \in Nat
  BY FleetViewAssumption DEF TypeOK, State, Unheard

LEMMA InboxFacts ==
    ASSUME TypeOK
    PROVE  /\ Len(inbox) \in Nat
           /\ \A i \in 1..Len(inbox) : inbox[i] \in Message
  BY ElementOfSeq, LenProperties DEF TypeOK

\* What is known of the drones stays in the past when an agent goes on.
LEMMA Grows ==
    ASSUME TypeOK, NEW d \in Drone, truth' = [truth EXCEPT ![d] = @ + 1],
           NEW f \in Message \cup [Drone -> Int], Precedes(f, truth)
    PROVE  Precedes(f, truth')
<1>1. \A e \in DOMAIN f : e \in Drone /\ f[e] \in Int
  BY MessageFacts, Numbers
<1>2. \A e \in Drone : truth[e] \in Nat /\ truth'[e] \in Nat /\ truth[e] <= truth'[e]
  BY Numbers DEF TypeOK
<1>3. DOMAIN truth = Drone /\ DOMAIN truth' = Drone
  BY DEF TypeOK
<1> QED
  BY <1>1, <1>2, <1>3 DEF Precedes

\* What precedes the truth precedes the next message.
LEMMA SnapshotLast ==
    ASSUME TypeOK, NEW f, Precedes(f, truth)
    PROVE  Precedes(f, Snapshot)
<1>1. DOMAIN Snapshot = registered /\ registered \subseteq Drone
  BY DEF Snapshot, TypeOK
<1>2. \A d \in registered : Snapshot[d] = truth[d]
  BY DEF Snapshot
<1>3. DOMAIN truth = Drone
  BY DEF TypeOK
<1> QED
  BY <1>1, <1>2, <1>3 DEF Precedes

LEMMA Reflexive ==
    ASSUME NEW f \in Message
    PROVE  Precedes(f, f)
<1>1. \A d \in DOMAIN f : f[d] \in Int
  BY MessageFacts, FleetViewAssumption DEF State
<1> QED
  BY <1>1 DEF Precedes

LEMMA NothingPrecedes ==
    ASSUME NEW f
    PROVE  Precedes(f, Nothing) /\ Precedes(Nothing, f)
  BY NothingFacts DEF Precedes

LEMMA Initially == Init => Inv
<1> SUFFICES ASSUME Init PROVE Inv
  OBVIOUS
<1> USE FleetViewAssumption DEF Init
<1>1. TypeOK
  <2>1. <<>> \in Seq(Message) /\ Len(<<>>) = 0
    BY EmptySeq
  <2> QED
    BY <2>1, NothingFacts DEF TypeOK, State, Unheard
<1>2. Len(inbox) = 0
  BY EmptySeq
<1>3. Truthful
  BY <1>2, NothingPrecedes DEF Truthful, Precedes, Unheard
<1>4. InLine /\ Before(view) /\ Before(hash) /\ Before(current) /\ Current
  BY <1>2 DEF InLine, Before, Current
<1> QED
  BY <1>1, <1>3, <1>4 DEF Inv

-----------------------------------------------------------------------------
(* The backend.                                                            *)

LEMMA ChangeKeeps ==
    ASSUME Inv, NEW d \in Drone, Change(d)
    PROVE  Inv'
<1> USE DEF Inv, Change, hub, listener, cache, pusher
<1>1. TypeOK'
  <2>1. truth[d] + 1 \in State
    <3>1. truth[d] \in Nat /\ truth[d] < MaxVersion
      BY Numbers
    <3> QED
      BY <3>1, FleetViewAssumption DEF State
  <2> QED
    BY <2>1 DEF TypeOK
<1>2. Truthful'
  <2>1. view \in [Drone -> Int] /\ hash \in [Drone -> Int]
    BY Numbers
  <2>2. current \in Message /\ message \in Message
    BY DEF TypeOK
  <2>3. Precedes(view, truth') /\ Precedes(hash, truth')
    BY <2>1, Grows DEF Truthful
  <2>4. Precedes(current, truth') /\ Precedes(message, truth')
    BY <2>2, Grows DEF Truthful
  <2>5. \A i \in 1..Len(inbox) : Precedes(inbox[i], truth')
    BY InboxFacts, Grows DEF Truthful
  <2> QED
    BY <2>3, <2>4, <2>5 DEF Truthful
<1>3. InLine' /\ Before(view)' /\ Before(hash)' /\ Before(current)' /\ Current'
  BY DEF InLine, Before, Current
<1> QED
  BY <1>1, <1>2, <1>3

LEMMA BroadcastKeeps ==
    ASSUME Inv, Broadcast
    PROVE  Inv'
<1> USE DEF Inv, Broadcast, listener, cache, pusher
<1>1. TypeOK'
  BY SnapshotFacts DEF TypeOK
<1>2. Truthful'
  BY SnapshotFacts DEF Truthful
<1>3. InLine'
  BY SnapshotLast DEF InLine, Truthful
<1>4. Before(view)' /\ Before(hash)' /\ Before(current)'
  BY SnapshotLast DEF Before, Truthful
<1>5. Current'
  BY DEF Current
<1> QED
  BY <1>1, <1>2, <1>3, <1>4, <1>5

\* A message that is sent to all, or to all that can be reached, is gone.
LEMMA MessageGoes ==
    ASSUME Inv, NEW c \in sending, sending' = sending \ {c},
           message' = IF sending = {c} THEN Nothing ELSE message,
           link' = link
    PROVE  /\ message' \in Message
           /\ Precedes(message', truth)
           /\ link' \in sending' => message' = message
  BY NothingFacts, NothingPrecedes DEF Inv, TypeOK, Truthful

LEMMA SendFailsKeeps ==
    ASSUME Inv, NEW c \in Conn, SendFails(c)
    PROVE  Inv'
<1> USE DEF Inv, SendFails, listener, cache, pusher
<1>1. message' \in Message /\ Precedes(message', truth)
      /\ (link' \in sending' => message' = message)
  BY MessageGoes
<1>2. TypeOK'
  BY <1>1 DEF TypeOK
<1>3. Truthful' /\ Current'
  BY <1>1 DEF Truthful, Current
<1>4. InLine' /\ Before(view)' /\ Before(hash)' /\ Before(current)'
  BY <1>1 DEF InLine, Before
<1> QED
  BY <1>2, <1>3, <1>4

LEMMA SendKeeps ==
    ASSUME Inv, NEW c \in Conn, Send(c)
    PROVE  Inv'
<1> USE DEF Inv
<1> DEFINE long == Append(inbox, message)
<1>1. message' \in Message /\ Precedes(message', truth)
      /\ (link' \in sending' => message' = message)
  BY MessageGoes DEF Send
<1>2. /\ inbox \in Seq(Message) /\ message \in Message
      /\ Len(inbox) \in Nat
  BY InboxFacts DEF TypeOK
<1>3. /\ long \in Seq(Message)
      /\ Len(long) = Len(inbox) + 1
      /\ \A i \in 1..Len(inbox) : long[i] = inbox[i]
      /\ long[Len(inbox) + 1] = message
  BY <1>2, AppendProperties
<1>4. CASE c # link
  <2>1. TypeOK'
    BY <1>1, <1>4 DEF TypeOK, Send, cache, pusher
  <2>2. Truthful' /\ Current'
    BY <1>1, <1>4 DEF Truthful, Current, Send, cache
  <2>3. InLine' /\ Before(view)' /\ Before(hash)' /\ Before(current)'
    BY <1>1, <1>4 DEF InLine, Before, Send, cache
  <2> QED
    BY <2>1, <2>2, <2>3
<1>5. CASE c = link
  <2>1. link' \notin sending' /\ link \in sending /\ inbox' = long
    BY <1>5 DEF Send
  <2>2. TypeOK'
    <3>1. Len(long) <= Capacity
      BY <1>2, <1>3, <1>5, FleetViewAssumption DEF Send
    <3> QED
      BY <1>1, <1>3, <2>1, <3>1 DEF TypeOK, Send, cache, pusher
  <2>3. Truthful'
    <3>1. \A i \in 1..Len(long) : Precedes(long[i], truth)
      BY <1>2, <1>3 DEF Truthful
    <3> QED
      BY <1>1, <2>1, <3>1 DEF Truthful, Send, cache
  <2>4. InLine'
    <3>1. \A i \in 1..Len(inbox) : Precedes(inbox[i], message)
      BY <2>1 DEF InLine
    <3>2. Precedes(message, message)
      BY <1>2, Reflexive
    <3>3. \A i \in 1..Len(long) : \A j \in i..Len(long) : Precedes(long[i], long[j])
      BY <1>2, <1>3, <3>1, <3>2 DEF InLine
    <3> QED
      BY <2>1, <3>3 DEF InLine
  <2>5. ASSUME NEW f, Before(f) PROVE \A i \in 1..Len(long) : Precedes(f, long[i])
    BY <1>2, <1>3, <2>1, <2>5 DEF Before
  <2>6. Before(view)' /\ Before(hash)' /\ Before(current)'
    BY <2>1, <2>5 DEF Before, Send, cache
  <2>7. Current'
    BY DEF Current, Send, cache
  <2> QED
    BY <2>2, <2>3, <2>4, <2>6, <2>7
<1> QED
  BY <1>4, <1>5

-----------------------------------------------------------------------------
(* Fleet AI.                                                               *)

LEMMA ConnectKeeps ==
    ASSUME Inv, NEW c \in Conn, Connect(c)
    PROVE  Inv'
<1> USE DEF Inv, Connect, listener, cache, pusher
<1>1. link' \notin sending'
  OBVIOUS
<1>2. TypeOK'
  BY DEF TypeOK, Accepted
<1>3. Truthful' /\ Current'
  BY DEF Truthful, Current
<1>4. InLine' /\ Before(view)' /\ Before(hash)' /\ Before(current)'
  BY <1>1 DEF InLine, Before
<1> QED
  BY <1>2, <1>3, <1>4

LEMMA DropKeeps ==
    ASSUME Inv, Drop
    PROVE  Inv'
<1> USE DEF Inv, Drop, hub, cache, pusher
<1>1. link' \notin sending'
  BY FleetViewAssumption DEF TypeOK
<1>2. inbox' \in Seq(Message) /\ Len(inbox') = 0
  BY EmptySeq
<1>3. TypeOK'
  <2>1. drops' \in 0..MaxDrops
    BY FleetViewAssumption DEF TypeOK
  <2>2. Len(inbox') <= Capacity
    BY <1>2, FleetViewAssumption
  <2> QED
    BY <1>2, <2>1, <2>2 DEF TypeOK
<1>4. Truthful' /\ Current'
  BY <1>2 DEF Truthful, Current
<1>5. InLine' /\ Before(view)' /\ Before(hash)' /\ Before(current)'
  BY <1>1, <1>2 DEF InLine, Before
<1> QED
  BY <1>3, <1>4, <1>5

\* The listener takes the oldest message.
LEMMA ReceiveKeeps ==
    ASSUME Inv, Receive
    PROVE  Inv'
<1> USE DEF Inv
<1>1. inbox \in Seq(Message) /\ inbox # <<>> /\ Len(inbox) \in Nat
  BY InboxFacts DEF TypeOK, Receive
<1>2. Head(inbox) \in Message /\ Tail(inbox) \in Seq(Message)
      /\ Len(Tail(inbox)) = Len(inbox) - 1
      /\ \A i \in 1..Len(Tail(inbox)) : Tail(inbox)[i] = inbox[i + 1]
  BY <1>1, HeadTailProperties
<1>3. Head(inbox) = inbox[1] /\ 1 \in 1..Len(inbox)
  BY <1>1, EmptySeq
<1>4. \A i \in 1..Len(Tail(inbox)) : i + 1 \in 1..Len(inbox)
  BY <1>1, <1>2
<1>5. inbox' = Tail(inbox) /\ current' = Head(inbox) /\ todo' = DOMAIN Head(inbox)
      /\ writing' = None /\ UNCHANGED <<truth, message, sending, link, view, hash>>
  BY DEF Receive, hub, cache
<1>6. TypeOK'
  <2>1. todo' \subseteq DOMAIN current'
    BY <1>5
  <2>2. Len(inbox') <= Capacity
    BY <1>1, <1>2, <1>5, FleetViewAssumption DEF TypeOK
  <2> QED
    BY <1>2, <1>5, <2>1, <2>2 DEF TypeOK, Receive, hub, cache, pusher
<1>7. Truthful'
  <2>1. Precedes(current', truth)
    BY <1>3, <1>5 DEF Truthful
  <2>2. \A i \in 1..Len(inbox') : Precedes(inbox'[i], truth)
    BY <1>2, <1>4, <1>5 DEF Truthful
  <2> QED
    BY <1>5, <2>1, <2>2 DEF Truthful
<1>8. InLine'
  <2>1. ASSUME NEW i \in 1..Len(inbox'), NEW j \in i..Len(inbox')
        PROVE  Precedes(inbox'[i], inbox'[j])
    <3>1. /\ j \in 1..Len(Tail(inbox)) /\ i + 1 \in 1..Len(inbox)
          /\ j + 1 \in (i + 1)..Len(inbox)
      BY <1>1, <1>2, <1>5
    <3> QED
      BY <1>2, <1>5, <3>1 DEF InLine
  <2>2. link \in sending => \A i \in 1..Len(inbox') : Precedes(inbox'[i], message)
    BY <1>2, <1>4, <1>5 DEF InLine
  <2> QED
    BY <1>5, <2>1, <2>2 DEF InLine
<1>9. Before(view)' /\ Before(hash)'
  BY <1>2, <1>4, <1>5 DEF Before
<1>10. Before(current)'
  <2>1. \A j \in 1..Len(inbox) : Precedes(inbox[1], inbox[j])
    BY <1>3 DEF InLine
  <2>2. link \in sending => Precedes(inbox[1], message)
    BY <1>3 DEF InLine
  <2> QED
    BY <1>2, <1>3, <1>4, <1>5, <2>1, <2>2 DEF Before
<1>11. Current'
  <2>1. Precedes(view, inbox[1]) /\ Precedes(hash, inbox[1])
    BY <1>3 DEF Before
  <2>2. \A d \in DOMAIN inbox[1] : d \in DOMAIN view /\ d \in DOMAIN hash
    BY <1>2, <1>3, MessageFacts DEF TypeOK
  <2> QED
    BY <1>3, <1>5, <2>1, <2>2 DEF Current, Precedes
<1> QED
  BY <1>6, <1>7, <1>8, <1>9, <1>10, <1>11

\* One drone of f takes over what the current message says of it.
LEMMA TakesOver ==
    ASSUME Inv, NEW f \in [Drone -> Int], NEW d \in DOMAIN current,
           NEW g, Precedes(f, g), Precedes(current, g)
    PROVE  Precedes([f EXCEPT ![d] = current[d]], g)
  BY DEF Precedes

LEMMA UpdateKeeps ==
    ASSUME Inv, NEW d \in Drone, Update(d)
    PROVE  Inv'
<1> USE DEF Inv, Update, hub, pusher
<1>1. /\ d \in DOMAIN current /\ view \in [Drone -> Int]
      /\ current[d] \in State /\ current \in Message
  BY Numbers, MessageFacts DEF TypeOK
<1>2. view' = [view EXCEPT ![d] = current[d]]
  OBVIOUS
<1>3. TypeOK'
  <2>1. view' \in [Drone -> State \cup {Unheard}] /\ silence' \in [Drone -> 0..(Stale + 1)]
    BY <1>1, FleetViewAssumption DEF TypeOK
  <2>2. offline' \subseteq Drone /\ todo' \subseteq DOMAIN current'
        /\ writing' \in DOMAIN current' \cup {None}
    BY <1>1 DEF TypeOK
  <2> QED
    BY <2>1, <2>2 DEF TypeOK
<1>4. Truthful'
  <2>1. Precedes(view', truth)
    BY <1>1, <1>2, TakesOver DEF Truthful
  <2> QED
    BY <2>1 DEF Truthful
<1>5. InLine' /\ Before(hash)' /\ Before(current)'
  BY DEF InLine, Before
<1>6. Before(view)'
  <2>1. \A i \in 1..Len(inbox) : Precedes(view', inbox[i])
    BY <1>1, <1>2, TakesOver DEF Before
  <2>2. link \in sending => Precedes(view', message)
    BY <1>1, <1>2, TakesOver DEF Before
  <2> QED
    BY <2>1, <2>2 DEF Before
<1>7. Current'
  <2>1. d # None /\ hash[d] <= current[d]
    BY FleetViewAssumption DEF Current
  <2>2. \A e \in todo \ {d} : view'[e] = view[e]
    BY <1>1, <1>2 DEF TypeOK
  <2> QED
    BY <2>1, <2>2 DEF Current
<1> QED
  BY <1>3, <1>4, <1>5, <1>6, <1>7

LEMMA WriteKeeps ==
    ASSUME Inv, Write
    PROVE  Inv'
<1> USE DEF Inv, hub, pusher
<1>1. /\ writing \in DOMAIN current /\ current \in Message
      /\ hash \in [Drone -> Int] /\ current[writing] \in State
  BY Numbers, MessageFacts DEF TypeOK, Write
<1>2. hash' = hash \/ hash' = [hash EXCEPT ![writing] = current[writing]]
  BY DEF Write
<1>3. current' = current \/ (current' = Nothing /\ todo = {})
  BY DEF Write
<1>4. writing' = None /\ todo' = todo
      /\ UNCHANGED <<truth, message, sending, link, inbox, view>>
  BY DEF Write
<1>5. TypeOK'
  <2>1. hash' \in [Drone -> State \cup {Unheard}]
    BY <1>1, <1>2 DEF TypeOK
  <2>2. current' \in Message /\ todo' \subseteq DOMAIN current'
    BY <1>1, <1>3, <1>4, NothingFacts DEF TypeOK
  <2> QED
    BY <1>4, <2>1, <2>2 DEF TypeOK, Write
<1>6. ASSUME NEW g, Precedes(hash, g), Precedes(current, g)
      PROVE  Precedes(hash', g) /\ Precedes(current', g)
  BY <1>1, <1>2, <1>3, <1>6, TakesOver, NothingPrecedes
<1>7. Truthful'
  BY <1>4, <1>6 DEF Truthful
<1>8. InLine' /\ Before(view)'
  BY <1>4 DEF InLine, Before
<1>9. Before(hash)' /\ Before(current)'
  BY <1>4, <1>6 DEF Before
<1>10. Current'
  <2>1. ASSUME NEW d \in todo PROVE view[d] <= current'[d] /\ hash'[d] <= current'[d]
    <3>1. current' = current /\ d \in DOMAIN current /\ d \in Drone
      BY <1>1, <1>3, MessageFacts DEF TypeOK
    <3>2. hash'[d] = hash[d] \/ hash'[d] = current[d]
      BY <1>1, <1>2, <3>1
    <3>3. current[d] \in Int
      BY <1>1, <3>1, MessageFacts, FleetViewAssumption DEF State
    <3> QED
      BY <3>1, <3>2, <3>3 DEF Current
  <2> QED
    BY <1>4, <2>1 DEF Current
<1> QED
  BY <1>5, <1>7, <1>8, <1>9, <1>10

LEMMA HashExpiresKeeps ==
    ASSUME Inv, NEW d \in Drone, HashExpires(d)
    PROVE  Inv'
<1> USE DEF Inv, HashExpires, hub, listener, pusher
<1>1. hash' = [hash EXCEPT ![d] = Unheard] /\ hash \in [Drone -> Int] /\ Unheard \in Int
  BY Numbers DEF Unheard
<1>2. TypeOK'
  BY DEF TypeOK
<1>3. ASSUME NEW g \in Message \cup [Drone -> State], Precedes(hash, g)
      PROVE  Precedes(hash', g)
  <2>1. \A e \in DOMAIN g : g[e] \in Nat
    BY <1>3, MessageFacts, Numbers
  <2> QED
    BY <1>1, <1>3, <2>1 DEF Precedes, Unheard
<1>4. truth \in [Drone -> State] /\ message \in Message /\ current \in Message
  BY DEF TypeOK
<1>5. Truthful'
  BY <1>3, <1>4 DEF Truthful
<1>6. InLine' /\ Before(view)' /\ Before(current)'
  BY DEF InLine, Before
<1>7. Before(hash)'
  BY <1>3, <1>4, InboxFacts DEF Before
<1>8. Current'
  <2>1. \A e \in todo : current[e] \in Nat /\ e \in Drone
    BY <1>4, MessageFacts, Numbers DEF TypeOK
  <2>2. writing # None => writing \in Drone /\ hash'[writing] = hash[writing]
    BY <1>1, <1>4, MessageFacts DEF TypeOK
  <2> QED
    BY <1>1, <2>1, <2>2 DEF Current, Unheard
<1> QED
  BY <1>2, <1>5, <1>6, <1>7, <1>8

\* A restarted process knows of no drone; what Redis holds stays.
LEMMA RestartKeeps ==
    ASSUME Inv, Restart
    PROVE  Inv'
<1> USE DEF Inv, Restart, hub
<1>1. link' \notin sending'
  BY FleetViewAssumption DEF TypeOK
<1>2. inbox' \in Seq(Message) /\ Len(inbox') = 0
  BY EmptySeq
<1>3. TypeOK'
  <2>1. drops' \in 0..MaxDrops
    BY FleetViewAssumption DEF TypeOK
  <2>2. Len(inbox') <= Capacity
    BY <1>2, FleetViewAssumption
  <2>3. current' \in Message /\ todo' \subseteq DOMAIN current'
    BY NothingFacts
  <2>4. view' \in [Drone -> State \cup {Unheard}] /\ silence' \in [Drone -> 0..(Stale + 1)]
    BY FleetViewAssumption
  <2> QED
    BY <1>2, <2>1, <2>2, <2>3, <2>4 DEF TypeOK
<1>4. Truthful'
  <2>1. \A d \in Drone : truth[d] \in Nat
    BY Numbers
  <2>2. Precedes(view', truth)
    BY <2>1 DEF Precedes, Unheard, TypeOK
  <2> QED
    BY <1>2, <2>2, NothingPrecedes DEF Truthful
<1>5. InLine' /\ Before(view)' /\ Before(hash)' /\ Before(current)'
  BY <1>1, <1>2 DEF InLine, Before
<1>6. Current'
  BY DEF Current
<1> QED
  BY <1>3, <1>4, <1>5, <1>6

-----------------------------------------------------------------------------
\* The steps that touch neither a message nor what is known of a drone.
Known == <<truth, message, sending, link, inbox, current, todo, writing, view, hash>>

LEMMA AsideKeeps ==
    ASSUME Inv, UNCHANGED Known, TypeOK'
    PROVE  Inv'
  BY DEF Inv, Known, Truthful, InLine, Before, Current

LEMMA Aside ==
    ASSUME Inv,
           \/ \E d \in Drone : Register(d) \/ Remove(d)
           \/ Gathered \/ \E c \in Conn : Disconnect(c)
           \/ Pusher \/ \E f \in Frontend : Joins(f) \/ Leaves(f)
           \/ Tick
    PROVE  TypeOK' /\ UNCHANGED Known
<1> USE DEF Inv, Known, hub, listener, cache, pusher
<1>1. CASE \E d \in Drone : Register(d) \/ Remove(d)
  BY <1>1 DEF TypeOK, Register, Remove
<1>2. CASE Gathered \/ \E c \in Conn : Disconnect(c)
  BY <1>2 DEF TypeOK, Gathered, Disconnect, Discarded
<1>3. CASE Pusher
  BY <1>3 DEF TypeOK, Pusher, Push, PushOne, MarkedOffline, Without
<1>4. CASE \E f \in Frontend : Joins(f) \/ Leaves(f)
  BY <1>4 DEF TypeOK, Joins, Leaves, Without
<1>5. CASE Tick
  <2>1. silence' \in [Drone -> 0..(Stale + 1)]
    <3>1. \A d \in Drone : silence[d] \in 0..(Stale + 1)
      BY DEF TypeOK
    <3>2. \A d \in Drone : \/ silence'[d] = silence[d]
                           \/ silence'[d] = silence[d] + 1 /\ ~(silence[d] > Stale)
      BY <1>5 DEF Tick
    <3>3. \A d \in Drone : silence'[d] \in 0..(Stale + 1)
      BY <3>1, <3>2, FleetViewAssumption
    <3>4. silence' = [d \in Drone |-> silence'[d]]
      BY <1>5 DEF Tick
    <3> QED
      BY <3>3, <3>4
  <2> QED
    BY <1>5, <2>1 DEF TypeOK, Tick
<1> QED
  BY <1>1, <1>2, <1>3, <1>4, <1>5

LEMMA Inductive == Inv /\ [Next]_vars => Inv'
<1> SUFFICES ASSUME Inv, [Next]_vars PROVE Inv'
  OBVIOUS
<1>1. CASE UNCHANGED vars
  <2>1. TypeOK'
    BY <1>1 DEF Inv, TypeOK, vars, hub, listener, cache, pusher
  <2> QED
    BY <1>1, <2>1, AsideKeeps DEF vars, hub, listener, cache, Known
<1> QED
  BY <1>1, Aside, AsideKeeps, ChangeKeeps, BroadcastKeeps, SendKeeps, SendFailsKeeps,
     ConnectKeeps, DropKeeps, ReceiveKeeps, UpdateKeeps, WriteKeeps, HashExpiresKeeps,
     RestartKeeps
  DEF Next, Broadcaster, Listener

LEMMA Invariance == FairSpec => []Inv
  BY Initially, Inductive, PTL DEF FairSpec, Spec

\* Every variable has its type; no connection gets more than it can hold.
THEOREM TypeTheorem == FairSpec => []TypeOK
<1>1. Inv => TypeOK
  BY DEF Inv
<1> QED
  BY <1>1, Invariance, PTL

\* Neither the view nor Redis goes back to an older state of a drone, whichever
\* connections are lost and however late a send returns (state_manager.py).
THEOREM NeverOlderTheorem == FairSpec => NeverOlder
<1>1. ASSUME Inv, [Next]_vars, NEW d \in Drone
      PROVE  /\ view'[d] # Unheard => view'[d] >= view[d]
             /\ hash'[d] # Unheard => hash'[d] >= hash[d]
  <2>1. view[d] \in Int /\ hash[d] \in Int
    BY <1>1, Numbers DEF Inv
  <2>2. CASE UNCHANGED <<view, hash>>
    BY <2>1, <2>2
  <2>3. ASSUME NEW e \in Drone, Update(e) \/ HashExpires(e)
        PROVE  /\ view'[d] # Unheard => view'[d] >= view[d]
               /\ hash'[d] # Unheard => hash'[d] >= hash[d]
    BY <1>1, <2>1, <2>3 DEF Inv, TypeOK, Current, Update, HashExpires
  <2>4. CASE Write
    BY <1>1, <2>1, <2>4 DEF Inv, TypeOK, Current, Write
  <2>5. CASE Restart
    BY <1>1, <2>1, <2>5 DEF Restart
  <2> QED
    BY <1>1, <2>2, <2>3, <2>4, <2>5
       DEF Next, Broadcaster, Listener, Pusher, Change, Register, Remove, Broadcast,
           Gathered, Receive, Push, PushOne, Send, SendFails, Disconnect, Connect,
           Joins, Leaves, Drop, Tick, vars, cache
<1>2. Inv /\ [Next]_vars
      => [\A d \in Drone :
            /\ view'[d] # Unheard => view'[d] >= view[d]
            /\ hash'[d] # Unheard => hash'[d] >= hash[d]]_vars
  BY <1>1
<1> QED
  BY <1>2, Invariance, PTL DEF FairSpec, Spec, NeverOlder

-----------------------------------------------------------------------------
(* The daily counters stay those of the day, whatever the reset task       *)
(* meets, for any drones, days and amounts.                                *)

\* The task works on a date it read, which is never ahead of the calendar, and
\* it empties counters only while an older date is stored.
Dates ==
    /\ date <= day /\ today <= day
    /\ pc # "sleep" => date <= today
    /\ pc \notin {"sleep", "get"} => date < today

\* No counter of keys holds more than was recorded today.
OfToday(keys) == \A k \in keys : count[k] <= done[k]

\* If midnight has not passed meanwhile, what the task has not yet to delete
\* is of today.
Swept ==
    /\ pc = "flights" /\ today = day => OfToday(DeliveryKey \ listed)
    /\ pc = "delete" /\ today = day => OfToday(Key \ listed)
    /\ pc = "store" /\ today = day => OfToday(Key)

CountersInv == CountersTypeOK /\ Dates /\ Swept /\ OnlyToday

LEMMA CountersInitially == CountersInit => CountersInv
<1> SUFFICES ASSUME CountersInit PROVE CountersInv
  OBVIOUS
<1> USE CountersAssumption
<1>1. CountersTypeOK
  BY DEF CountersInit, CountersTypeOK, Key, Never
<1>2. Dates /\ Swept
  BY DEF CountersInit, Dates, Swept, Never
<1>3. OnlyToday
  BY DEF CountersInit, OnlyToday
<1> QED
  BY <1>1, <1>2, <1>3 DEF CountersInv

\* Recording adds the same to a counter and to what was recorded.
LEMMA RecordKeeps ==
    ASSUME CountersInv, NEW k \in Key, Record(k)
    PROVE  CountersInv'
<1> USE CountersAssumption DEF CountersInv, Record, reset
<1>1. CountersTypeOK'
  <2>1. count[k] + 1 \in 0..MaxCount /\ done[k] + 1 \in 0..MaxCount
    BY DEF CountersTypeOK
  <2>2. count' \in [Key -> 0..MaxCount]
    BY <2>1 DEF CountersTypeOK
  <2>3. done' \in [Key -> 0..MaxCount]
    BY <2>1 DEF CountersTypeOK
  <2> QED
    BY <2>2, <2>3 DEF CountersTypeOK
<1>2. ASSUME NEW keys, keys \subseteq Key, OfToday(keys)
      PROVE  OfToday(keys)'
  <2>1. ASSUME NEW j \in keys PROVE count'[j] <= done'[j]
    <3>1. count[j] \in Nat /\ done[j] \in Nat /\ count[j] <= done[j]
      BY <1>2 DEF CountersTypeOK, OfToday
    <3>2. CASE j = k
      BY <3>1, <3>2, <1>2 DEF CountersTypeOK
    <3>3. CASE j # k
      BY <3>1, <3>3, <1>2 DEF CountersTypeOK
    <3> QED
      BY <3>2, <3>3
  <2> QED
    BY <2>1 DEF OfToday
<1>3. Dates'
  BY DEF Dates
<1>4. Swept'
  <2>1. DeliveryKey \ listed \subseteq Key /\ Key \ listed \subseteq Key
    BY DEF Key
  <2> QED
    BY <1>2, <2>1 DEF Swept, OfToday, Key
<1>5. OnlyToday'
  BY <1>2 DEF OnlyToday, OfToday
<1> QED
  BY <1>1, <1>3, <1>4, <1>5

LEMMA ListFlightsKeeps ==
    ASSUME CountersInv, ListFlights
    PROVE  CountersInv'
<1> USE CountersAssumption DEF CountersInv, ListFlights
<1>1. CountersTypeOK' /\ Dates'
  BY DEF CountersTypeOK, Dates, Existing, Key
<1>2. ASSUME today = day, NEW k \in Key \ listed' PROVE count[k] <= done[k]
  <2>1. count[k] \in Nat /\ done[k] \in Nat
    BY DEF CountersTypeOK
  <2>2. CASE k \in DeliveryKey
    BY <1>2, <2>2 DEF Swept, OfToday
  <2>3. CASE k \in FlightKey
    BY <1>2, <2>1, <2>3 DEF Existing
  <2> QED
    BY <2>2, <2>3, <1>2 DEF Key
<1>3. Swept'
  BY <1>2 DEF Swept, OfToday
<1>4. OnlyToday'
  BY DEF OnlyToday
<1> QED
  BY <1>1, <1>3, <1>4

LEMMA DeleteKeeps ==
    ASSUME CountersInv, Delete
    PROVE  CountersInv'
<1> USE CountersAssumption DEF CountersInv, Delete
<1>1. CountersTypeOK' /\ Dates'
  BY DEF CountersTypeOK, Dates
<1>2. ASSUME today = day, NEW k \in Key PROVE count'[k] <= done[k]
  BY <1>2 DEF CountersTypeOK, Swept, OfToday
<1>3. Swept'
  BY <1>2 DEF Swept, OfToday
<1>4. OnlyToday'
  BY DEF OnlyToday, Dates, CountersTypeOK, Never
<1> QED
  BY <1>1, <1>3, <1>4

LEMMA CountersInductive == CountersInv /\ [CountersNext]_counters => CountersInv'
<1> SUFFICES ASSUME CountersInv, [CountersNext]_counters PROVE CountersInv'
  OBVIOUS
<1> USE CountersAssumption
<1>1. CASE Midnight
  <2>1. CountersTypeOK'
    BY <1>1 DEF CountersInv, CountersTypeOK, Midnight, reset
  <2>2. Dates' /\ Swept' /\ OnlyToday'
    BY <1>1 DEF CountersInv, Dates, Swept, OnlyToday, CountersTypeOK, Midnight, reset, Never
  <2> QED
    BY <2>1, <2>2 DEF CountersInv
<1>2. CASE _record_delivery \/ _record_flight_time
  BY <1>2, RecordKeeps DEF _record_delivery, _record_flight_time, Key
<1>3. CASE Wake
  BY <1>3 DEF CountersInv, CountersTypeOK, Dates, Swept, OnlyToday, Wake, Never
<1>4. CASE Get
  BY <1>4 DEF CountersInv, CountersTypeOK, Dates, Swept, OnlyToday, Get, Never
<1>5. CASE ListDeliveries
  <2>1. CountersTypeOK' /\ Dates' /\ OnlyToday'
    BY <1>5 DEF CountersInv, CountersTypeOK, Dates, OnlyToday, ListDeliveries, Existing, Key
  <2>2. ASSUME NEW k \in DeliveryKey \ listed' PROVE count[k] <= done[k]
    BY <1>5 DEF CountersInv, CountersTypeOK, ListDeliveries, Existing, Key
  <2>3. Swept'
    BY <1>5, <2>2 DEF Swept, OfToday, ListDeliveries
  <2> QED
    BY <2>1, <2>3 DEF CountersInv
<1>6. CASE ListFlights
  BY <1>6, ListFlightsKeeps
<1>7. CASE Delete
  BY <1>7, DeleteKeeps
<1>8. CASE Store
  <2>1. CountersTypeOK' /\ Dates' /\ Swept'
    BY <1>8 DEF CountersInv, CountersTypeOK, Dates, Swept, Store
  <2>2. OnlyToday'
    BY <1>8 DEF CountersInv, Swept, OfToday, OnlyToday, Store
  <2> QED
    BY <2>1, <2>2 DEF CountersInv
<1>9. CASE Abort
  BY <1>9 DEF CountersInv, CountersTypeOK, Dates, Swept, OnlyToday, Abort
<1>10. CASE UNCHANGED counters
  BY <1>10 DEF CountersInv, CountersTypeOK, Dates, Swept, OfToday, OnlyToday, counters, reset
<1> QED
  BY <1>1, <1>2, <1>3, <1>4, <1>5, <1>6, <1>7, <1>8, <1>9, <1>10 DEF CountersNext

\* The counters keep the invariant on their own.
LEMMA CountersInvariant == CountersSpec => []CountersInv
  BY CountersInitially, CountersInductive, PTL DEF CountersSpec

\* Only Delete lowers a counter, and it runs while an older date is stored.
LEMMA StepKeeps ==
    CountersInv /\ [CountersNext]_counters
    => (date = day /\ day' = day => \A k \in Key : count'[k] >= count[k])
<1> SUFFICES ASSUME CountersInv, [CountersNext]_counters, date = day, NEW k \in Key
             PROVE  count'[k] >= count[k]
  OBVIOUS
<1>1. count[k] \in Nat
  BY CountersAssumption DEF CountersInv, CountersTypeOK
<1>2. ~Delete
  BY DEF Delete, CountersInv, Dates, CountersTypeOK, Never
<1>3. ASSUME NEW j \in Key, Record(j) PROVE count'[k] >= count[k]
  BY <1>1, <1>3 DEF Record, CountersInv, CountersTypeOK
<1>4. CASE _record_delivery \/ _record_flight_time
  BY <1>3, <1>4 DEF _record_delivery, _record_flight_time, Key
<1>5. CASE count' = count
  BY <1>1, <1>5
<1> QED
  BY <1>2, <1>4, <1>5
     DEF CountersNext, Midnight, Wake, Get, ListDeliveries, ListFlights, Store, Abort, counters

\* The counters and the locations share no key: what Fleet AI does to both is,
\* for the counters, a step of theirs or nothing (main.py, location_cache.py).
THEOREM CountersRefinement == FleetSpec => CountersSpec
<1>1. FleetInit => CountersInit
  BY DEF FleetInit
<1>2. [\/ CountersNext /\ UNCHANGED locations
       \/ L!Next /\ UNCHANGED counters
       \/ ProcessRestarts]_<<counters, locations>> => [CountersNext]_counters
  BY DEF ProcessRestarts, CountersNext
<1> QED
  BY <1>1, <1>2, PTL DEF FleetSpec, CountersSpec

\* Every variable of the counters has its type in every reachable state.
THEOREM CountersTypeTheorem == CountersSpec => []CountersTypeOK
<1>1. CountersInv => CountersTypeOK
  BY DEF CountersInv
<1> QED
  BY <1>1, CountersInvariant, PTL

\* Whatever midnight, a failed command or a restart meets, a stored reset of
\* today leaves nothing of an earlier day (_midnight_reset).
THEOREM OnlyTodayTheorem == FleetSpec => []OnlyToday
<1>1. CountersInv => OnlyToday
  BY DEF CountersInv
<1> QED
  BY <1>1, CountersInvariant, CountersRefinement, PTL

\* Nothing recorded after the stored reset of a day is deleted on that day.
THEOREM KeptTodayTheorem == FleetSpec => KeptToday
<1>1. CountersInv /\ [CountersNext]_counters
      => [date = day /\ day' = day => \A k \in Key : count'[k] >= count[k]]_counters
  BY StepKeeps
<1> QED
  BY <1>1, CountersInvariant, CountersRefinement, PTL DEF CountersSpec, KeptToday

-----------------------------------------------------------------------------
(* The locations.                                                          *)

\* The age of a version counts the ticks since it was replaced.
Ages ==
    /\ table \in L!Version
    /\ age \in [L!Version -> Nat]
    /\ \A v \in L!Version : v >= table => age[v] = 0

\* A copy in Redis was current when it was fetched: what it has aged is at most
\* the writing and the part of its life that is over.
CopyFresh ==
    /\ ttl \in 0..TTL
    /\ cached # NoVersion => /\ cached \in L!Version
                             /\ ttl > 0
                             /\ age[cached] + ttl <= TTL + Slow

\* So was what a call fetched and has not written, and what it answers.
CallsFresh ==
    /\ stage \in [Caller -> {"idle", "get", "fetch", "read", "write", "answered", "old"}]
    /\ waited \in [Caller -> 0..Slow]
    /\ DOMAIN data = Caller
    /\ \A c \in Caller :
         /\ stage[c] \in L!Reading =>
              data[c] \in L!Version /\ age[data[c]] <= waited[c]
         /\ stage[c] = "answered" =>
              data[c] \in L!Version /\ age[data[c]] < TTL + Slow

LInv == Ages /\ CopyFresh /\ CallsFresh

LEMMA LInitially == L!Init => LInv
<1> SUFFICES ASSUME L!Init PROVE LInv
  OBVIOUS
<1> USE LocationsAssumption DEF L!Init, L!Version, L!Reading
<1>1. Ages
  BY DEF Ages
<1>2. CopyFresh
  BY DEF CopyFresh
<1>3. CallsFresh
  BY DEF CallsFresh
<1> QED
  BY <1>1, <1>2, <1>3 DEF LInv

\* An edit ages nothing: what it replaces has age 0.
LEMMA EditKeeps == LInv /\ L!Edit => LInv'
<1> USE LocationsAssumption DEF LInv, L!Edit, L!Version, L!store, L!call
<1>1. LInv /\ L!Edit => Ages'
  BY DEF Ages
<1>2. LInv /\ L!Edit => CopyFresh' /\ CallsFresh'
  BY DEF CopyFresh, CallsFresh
<1> QED
  BY <1>1, <1>2

\* A tick ages a version by one at most, shortens the life of the copy by one,
\* and makes a call that fetched wait one more.
LEMMA TickKeeps ==
    ASSUME LInv, L!Tick
    PROVE  LInv'
<1> USE LocationsAssumption DEF LInv, L!Version
<1>1. \A v \in L!Version : age'[v] \in Nat /\ age'[v] <= age[v] + 1
  BY DEF L!Tick, Ages
<1>2. Ages'
  <2>1. age' \in [L!Version -> Nat]
    BY <1>1 DEF L!Tick, Ages
  <2>2. \A v \in L!Version : v >= table => age'[v] = 0
    BY DEF L!Tick, Ages
  <2> QED
    BY <2>1, <2>2 DEF L!Tick, Ages
<1>3. CopyFresh'
  <2>1. ttl \in 0..TTL /\ ttl' = (IF ttl > 0 THEN ttl - 1 ELSE 0)
    BY DEF L!Tick, CopyFresh
  <2>2. cached' = IF ttl' = 0 THEN NoVersion ELSE cached
    BY DEF L!Tick
  <2>3. ASSUME cached' # NoVersion
        PROVE  cached' \in L!Version /\ ttl' > 0 /\ age'[cached'] + ttl' <= TTL + Slow
    <3>1. cached' = cached /\ ttl' = ttl - 1 /\ ttl' > 0
      BY <2>1, <2>2, <2>3
    <3>2. cached \in L!Version /\ age[cached] + ttl <= TTL + Slow
      BY <2>3, <3>1 DEF CopyFresh
    <3>3. age[cached] \in Nat
      BY <3>2 DEF Ages
    <3> QED
      BY <1>1, <2>1, <3>1, <3>2, <3>3
  <2> QED
    BY <2>1, <2>3 DEF CopyFresh
<1>4. CallsFresh'
  <2>1. waited' \in [Caller -> 0..Slow]
    BY DEF L!Tick, CallsFresh
  <2>2. \A c \in Caller : stage[c] # "answered"
    BY DEF L!Tick
  <2>3. ASSUME NEW c \in Caller, stage[c] \in L!Reading
        PROVE  data[c] \in L!Version /\ age'[data[c]] <= waited'[c]
    <3>1. data[c] \in L!Version /\ age[data[c]] <= waited[c]
      BY <2>3 DEF CallsFresh
    <3>2. waited'[c] = waited[c] + 1 /\ waited[c] \in Nat
      BY <2>3 DEF L!Tick, CallsFresh
    <3>3. age[data[c]] \in Nat
      BY <3>1 DEF Ages
    <3> QED
      BY <1>1, <3>1, <3>2, <3>3
  <2> QED
    BY <2>1, <2>2, <2>3 DEF L!Tick, CallsFresh
<1> QED
  BY <1>2, <1>3, <1>4

\* One call takes a step: the table and the clock stand still.
LEMMA CallKeeps ==
    ASSUME LInv, NEW c \in Caller,
           \/ L!Begin(c) \/ L!ReadCache(c) \/ L!Fetch(c) \/ L!FetchFails(c)
           \/ L!Fetched(c) \/ L!WriteCache(c) \/ L!End(c)
    PROVE  LInv'
<1> USE LocationsAssumption DEF LInv, L!Version, L!store, L!Reading, L!Answer
<1>1. CASE L!Begin(c)
  BY <1>1 DEF L!Begin, Ages, CopyFresh, CallsFresh
<1>2. CASE L!ReadCache(c)
  <2>1. Ages' /\ CopyFresh'
    BY <1>2 DEF L!ReadCache, Ages, CopyFresh
  <2>2. cached # NoVersion => cached \in L!Version /\ age[cached] < TTL + Slow
    <3>1. cached # NoVersion => cached \in L!Version /\ age[cached] + ttl <= TTL + Slow /\ ttl > 0 /\ ttl \in Nat
      BY DEF CopyFresh
    <3>2. cached # NoVersion => age[cached] \in Nat
      BY <3>1 DEF Ages
    <3> QED
      BY <3>1, <3>2
  <2>3. CallsFresh'
    BY <1>2, <2>2 DEF L!ReadCache, CallsFresh
  <2> QED
    BY <2>1, <2>3
<1>3. CASE L!Fetch(c)
  <2>1. Ages' /\ CopyFresh'
    BY <1>3 DEF L!Fetch, Ages, CopyFresh
  <2>2. age[table] = 0 /\ table \in L!Version
    BY DEF Ages
  <2>3. CallsFresh'
    BY <1>3, <2>2 DEF L!Fetch, CallsFresh
  <2> QED
    BY <2>1, <2>3
<1>4. CASE L!FetchFails(c)
  BY <1>4 DEF L!FetchFails, Ages, CopyFresh, CallsFresh
<1>5. CASE L!Fetched(c)
  BY <1>5 DEF L!Fetched, Ages, CopyFresh, CallsFresh
<1>6. CASE L!WriteCache(c)
  <2>1. data[c] \in L!Version /\ age[data[c]] <= Slow
    <3>1. data[c] \in L!Version /\ age[data[c]] <= waited[c] /\ waited[c] \in 0..Slow
      BY <1>6 DEF L!WriteCache, CallsFresh
    <3>2. age[data[c]] \in Nat
      BY <3>1 DEF Ages
    <3> QED
      BY <3>1, <3>2
  <2>2. age[data[c]] \in Nat
    BY <2>1 DEF Ages
  <2>3. Ages'
    BY <1>6 DEF L!WriteCache, Ages
  <2>4. CopyFresh'
    BY <1>6, <2>1, <2>2 DEF L!WriteCache, CopyFresh
  <2>5. CallsFresh'
    BY <1>6, <2>1, <2>2 DEF L!WriteCache, CallsFresh
  <2> QED
    BY <2>3, <2>4, <2>5
<1>7. CASE L!End(c)
  BY <1>7 DEF L!End, Ages, CopyFresh, CallsFresh
<1> QED
  BY <1>1, <1>2, <1>3, <1>4, <1>5, <1>6, <1>7

LEMMA LRestartKeeps == LInv /\ L!Restart => LInv'
  BY LocationsAssumption
     DEF LInv, L!Restart, L!store, L!Reading, Ages, CopyFresh, CallsFresh

LEMMA LInductive ==
    LInv /\ [\/ CountersNext /\ UNCHANGED locations
             \/ L!Next /\ UNCHANGED counters
             \/ ProcessRestarts]_<<counters, locations>>
    => LInv'
<1>1. LInv /\ L!Next => LInv'
  BY EditKeeps, TickKeeps, CallKeeps DEF L!Next
<1>2. LInv /\ ProcessRestarts => LInv'
  BY LRestartKeeps DEF ProcessRestarts
<1>3. LInv /\ UNCHANGED locations => LInv'
  BY DEF LInv, locations, Ages, CopyFresh, CallsFresh
<1> QED
  BY <1>1, <1>2, <1>3

\* However concurrent requests fetch and write their copies, and whenever the
\* process restarts, an answer is at most a copy's life and its writing old
\* (_get_cached_or_fetch); the fallback is excluded.
THEOREM LocationsTheorem == FleetSpec => []LocationsFresh
<1>1. LInv => LocationsFresh
  BY DEF LInv, CallsFresh, LocationsFresh, L!Fresh
<1>2. FleetInit => LInv
  BY LInitially DEF FleetInit
<1> QED
  BY <1>1, <1>2, LInductive, PTL DEF FleetSpec

\* Nor do the counters or their reset touch a copy of the locations: beside them
\* the cache behaves as it does alone, restarts of the process included.
THEOREM LocationsRefinement == FleetSpec => L!Spec
<1>1. FleetInit => L!Init
  BY DEF FleetInit
<1>2. [\/ CountersNext /\ UNCHANGED locations
       \/ L!Next /\ UNCHANGED counters
       \/ ProcessRestarts]_<<counters, locations>> => [L!Next \/ L!Restart]_(L!lvars)
  BY DEF ProcessRestarts, locations, L!lvars, L!store, L!call
<1> QED
  BY <1>1, <1>2, PTL DEF FleetSpec, L!Spec
=============================================================================
