--------------------------- MODULE SSEBrokerProofs ---------------------------
(***************************************************************************)
(* Proofs about the live-update broker, for any number of dashboards and   *)
(* of writes and any buffer: who is registered has missed nothing and has  *)
(* a handler that serves him, and every variable keeps its type.           *)
(***************************************************************************)
EXTENDS SSEBroker, TLAPS

\* The shape of the state the two invariants look at.
Shape ==
  /\ clients \subseteq Clients
  /\ stream \in [Clients -> {"absent", "adding", "busy", "ready", "closing"}]
  /\ listen = [event |-> listen.event, left |-> listen.left]
  /\ listen.left \subseteq clients
  /\ behind = [c \in Clients |-> behind[c]]

\* RegisteredMissNothing is inductive with what holds of a dashboard that is not
\* registered: it is owed nothing, so that it starts with a clean slate when it registers.
BrokerInv ==
  /\ Shape
  /\ RegisteredMissNothing
  /\ \A c \in Clients \ clients : behind[c] = <<>>
  /\ RegisteredAreServed

LEMMA BrokerInit == Init => BrokerInv
BY DEF Init, BrokerInv, Shape, Idle, RegisteredMissNothing, RegisteredAreServed

LEMMA BrokerStutters ==
  BrokerInv /\ UNCHANGED <<clients, listen, behind, stream>> => BrokerInv'
BY DEF BrokerInv, Shape, RegisteredMissNothing, RegisteredAreServed

\* A stream handler's own step, which leaves the broker alone.
LEMMA HandlerKeepsInv ==
  ASSUME BrokerInv, NEW c \in Clients, Connect(c) \/ Park(c) \/ Close(c)
  PROVE BrokerInv'
BY DEF BrokerInv, Shape, RegisteredMissNothing, RegisteredAreServed, Connect, Park, Close, broker

\* A broadcast begins: whoever is registered is owed the event, and nothing else.
LEMMA TakeEventKeepsInv ==
  ASSUME BrokerInv, TakeEvent
  PROVE BrokerInv'
<1>1. /\ clients' = clients /\ stream' = stream /\ listen.left = {}
      /\ listen' = [event |-> Head(notifier), left |-> clients]
      /\ behind' = [c \in Clients |-> IF c \in clients THEN Append(behind[c], Head(notifier))
                                      ELSE behind[c]]
  BY DEF TakeEvent, Listening
<1>2. \A c \in clients : behind[c] = <<>>
  BY <1>1 DEF BrokerInv, RegisteredMissNothing
<1>3. \A c \in clients : behind'[c] = <<Head(notifier)>>
  <2>1. \A e : Append(<<>>, e) = <<e>> OBVIOUS
  <2> QED BY <1>1, <1>2, <2>1 DEF BrokerInv, Shape
<1> QED
  BY <1>1, <1>3 DEF BrokerInv, Shape, RegisteredMissNothing, RegisteredAreServed

\* One client's turn: it is handed the event it is owed, or is dropped.
LEMMA OfferKeepsInv ==
  ASSUME BrokerInv, NEW c \in Clients, Offer(c)
  PROVE BrokerInv'
<1>1. /\ c \in listen.left /\ c \in clients
      /\ listen' = [event |-> listen.event, left |-> listen.left \ {c}]
  BY DEF Offer, BrokerInv, Shape
<1>2. behind[c] = <<listen.event>>
  BY <1>1 DEF BrokerInv, RegisteredMissNothing
<1>3. \A e : Tail(<<e>>) = <<>>
  OBVIOUS
<1>4. CASE stream[c] = "ready"
  <2>1. /\ clients' = clients /\ stream' = [stream EXCEPT ![c] = "busy"]
        /\ behind' = [behind EXCEPT ![c] = Tail(@)]
    BY <1>4 DEF Offer, Deliver
  <2>2. behind'[c] = <<>> /\ \A d \in Clients : d # c => behind'[d] = behind[d]
    BY <1>2, <1>3, <2>1 DEF BrokerInv, Shape
  <2> QED
    BY <1>1, <2>1, <2>2 DEF BrokerInv, Shape, RegisteredMissNothing, RegisteredAreServed
<1>5. CASE stream[c] # "ready"
  <2>1. clients' = clients \ {c} /\ stream' = stream /\ behind' = [behind EXCEPT ![c] = <<>>]
    BY <1>5 DEF Offer
  <2> QED
    BY <1>1, <2>1 DEF BrokerInv, Shape, RegisteredMissNothing, RegisteredAreServed
<1> QED BY <1>4, <1>5

LEMMA BrokerNext == BrokerInv /\ [Next]_vars => BrokerInv'
<1> SUFFICES ASSUME BrokerInv, [Next]_vars PROVE BrokerInv'
  OBVIOUS
<1>1. ASSUME NEW w \in Writes, Write(w) \/ Notify(w) PROVE BrokerInv'
  BY <1>1, BrokerStutters DEF Write, Notify, broker
<1>2. ASSUME NEW c \in Clients, Register(c) PROVE BrokerInv'
  <2>1. /\ listen.left = {} /\ stream[c] = "adding" /\ UNCHANGED <<listen, behind>>
        /\ clients' = clients \cup {c} /\ stream' = [stream EXCEPT ![c] = "busy"]
    BY <1>2 DEF Register, Listening
  <2>2. behind[c] = <<>>
    BY <2>1 DEF BrokerInv, RegisteredMissNothing
  <2> QED
    BY <2>1, <2>2 DEF BrokerInv, Shape, RegisteredMissNothing, RegisteredAreServed
<1>3. ASSUME NEW c \in Clients, Unregister(c) PROVE BrokerInv'
  BY <1>3 DEF Unregister, Listening, BrokerInv, Shape, RegisteredMissNothing, RegisteredAreServed
<1>4. ASSUME NEW c \in Clients, Disconnect(c) \/ Refetch(c) PROVE BrokerInv'
  BY <1>4, BrokerStutters DEF Disconnect, Refetch, broker
<1>5. CASE UNCHANGED vars
  BY <1>5, BrokerStutters DEF vars, broker
<1> QED
  BY <1>1, <1>2, <1>3, <1>4, <1>5, HandlerKeepsInv, TakeEventKeepsInv, OfferKeepsInv DEF Next

LEMMA BrokerHolds == Spec => []BrokerInv
BY BrokerInit, BrokerNext, PTL DEF Spec

\* A dashboard that is still registered has been handed every event broadcast since it
\* registered but the one going round: the broker's default case drops it sooner than let
\* it miss one.
THEOREM RegisteredMissNothingHolds == Spec => []RegisteredMissNothing
<1>1. BrokerInv => RegisteredMissNothing BY DEF BrokerInv
<1> QED BY BrokerHolds, <1>1, PTL

\* The map never holds a dashboard whose handler has returned, however closing streams,
\* reopened ones and broadcasts interleave (the deferred RemoveClient).
THEOREM RegisteredAreServedHolds == Spec => []RegisteredAreServed
<1>1. BrokerInv => RegisteredAreServed BY DEF BrokerInv
<1> QED BY BrokerHolds, <1>1, PTL
-----------------------------------------------------------------------------
\* Types.  The bound of the channel is the part a controller could break; the record that
\* the listen goroutine keeps has its two fields (Shape).
TypeInv == Shape /\ TypeOK

LEMMA TypesInit == Init => TypeInv
<1> SUFFICES ASSUME Init PROVE TypeInv
  OBVIOUS
<1>1. Shape BY BrokerInit DEF BrokerInv
<1>2. <<>> \in Seq(Writes) /\ Len(<<>>) <= NotifierCap BY BrokerAssumption
<1>3. behind \in [Clients -> Seq(Writes)] BY DEF Init
<1> QED BY <1>1, <1>2, <1>3 DEF Init, TypeInv, TypeOK, Idle

\* A controller's send, when the buffer has room.
LEMMA NotifyKeepsTypes ==
  ASSUME TypeInv, NEW w \in Writes, Write(w) \/ Notify(w)
  PROVE TypeInv'
<1>1. pc' \in [Writes -> {"write", "notify", "done"}]
  BY DEF TypeInv, TypeOK, Write, Notify
<1>2. notifier' \in Seq(Writes) /\ Len(notifier') <= NotifierCap
  <2>1. CASE notifier' = notifier
    BY <2>1 DEF TypeInv, TypeOK
  <2>2. CASE Len(notifier) < NotifierCap /\ notifier' = Append(notifier, w)
    <3>1. notifier \in Seq(Writes) BY DEF TypeInv, TypeOK
    <3>2. notifier' \in Seq(Writes) /\ Len(notifier') = Len(notifier) + 1
      BY <2>2, <3>1
    <3> QED BY <2>2, <3>1, <3>2, BrokerAssumption
  <2> QED BY <2>1, <2>2 DEF Write, Notify
<1>3. UNCHANGED <<clients, listen, behind, stream, gone, inbox>>
  BY DEF Write, Notify, broker, browser
<1> QED BY <1>1, <1>2, <1>3 DEF TypeInv, TypeOK, Shape

LEMMA TakeEventKeepsTypes ==
  ASSUME TypeInv, TakeEvent
  PROVE TypeInv'
<1> DEFINE e == Head(notifier)
<1>1. /\ notifier \in Seq(Writes) /\ notifier # <<>> /\ Len(notifier) <= NotifierCap
  BY DEF TypeInv, TypeOK, TakeEvent
<1>2. /\ e \in Writes /\ Tail(notifier) \in Seq(Writes)
      /\ Len(Tail(notifier)) <= NotifierCap
  BY <1>1, BrokerAssumption
<1>3. /\ listen' = [event |-> e, left |-> clients] /\ notifier' = Tail(notifier)
      /\ behind' = [c \in Clients |-> IF c \in clients THEN Append(behind[c], e) ELSE behind[c]]
      /\ UNCHANGED <<pc, clients, stream, gone, inbox>>
  BY DEF TakeEvent, browser
<1> HIDE DEF e
<1>4. behind' \in [Clients -> Seq(Writes)]
  <2>1. \A c \in Clients : behind[c] \in Seq(Writes) BY DEF TypeInv, TypeOK
  <2>2. \A c \in Clients : Append(behind[c], e) \in Seq(Writes) BY <1>2, <2>1
  <2> QED BY <1>3, <2>1, <2>2
<1> QED BY <1>2, <1>3, <1>4 DEF TypeInv, TypeOK, Shape

\* Only a client that is owed an event is offered one (RegisteredMissNothing).
LEMMA OfferKeepsTypes ==
  ASSUME TypeInv, BrokerInv, NEW c \in Clients, Offer(c)
  PROVE TypeInv'
<1>1. /\ c \in listen.left /\ listen.event \in Writes
      /\ listen' = [event |-> listen.event, left |-> listen.left \ {c}]
      /\ UNCHANGED <<pc, notifier, gone>>
  BY DEF Offer, TypeInv, TypeOK, Shape, server
<1>2. behind[c] = <<listen.event>>
  BY <1>1 DEF BrokerInv, Shape, RegisteredMissNothing
<1>3. \A e : Tail(<<e>>) = <<>>
  OBVIOUS
<1>4. <<>> \in Seq(Writes)
  OBVIOUS
<1>5. behind' = [behind EXCEPT ![c] = <<>>]
  BY <1>2, <1>3 DEF Offer, Deliver
<1>6. behind' \in [Clients -> Seq(Writes)]
  BY <1>4, <1>5 DEF TypeInv, TypeOK
<1>7. CASE stream[c] = "ready"
  <2>1. /\ clients' = clients /\ stream' = [stream EXCEPT ![c] = "busy"]
        /\ inbox' = IF gone[c] THEN inbox ELSE [inbox EXCEPT ![c] = @ \cup {listen.event}]
    BY <1>7 DEF Offer, Deliver
  <2>2. inbox' \in [Clients -> SUBSET Writes]
    BY <1>1, <2>1 DEF TypeInv, TypeOK
  <2> QED BY <1>1, <1>6, <2>1, <2>2 DEF TypeInv, TypeOK, Shape
<1>8. CASE stream[c] # "ready"
  <2>1. clients' = clients \ {c} /\ UNCHANGED <<stream, inbox>>
    BY <1>8 DEF Offer
  <2> QED BY <1>1, <1>6, <2>1 DEF TypeInv, TypeOK, Shape
<1> QED BY <1>7, <1>8

\* A stream handler's or a browser's own step, and the two rendezvous.
LEMMA StreamKeepsTypes ==
  ASSUME TypeInv, NEW c \in Clients,
         \/ Register(c) \/ Unregister(c) \/ Connect(c) \/ Park(c) \/ Disconnect(c)
         \/ Close(c) \/ Refetch(c)
  PROVE TypeInv'
<1> USE DEF TypeInv, TypeOK, Shape
<1>1. CASE Register(c)
  BY <1>1 DEF Register, Listening, server, browser
<1>2. CASE Unregister(c)
  <2>1. <<>> \in Seq(Writes) OBVIOUS
  <2>2. behind' \in [Clients -> Seq(Writes)] BY <1>2, <2>1 DEF Unregister
  <2> QED BY <1>2, <2>2 DEF Unregister, Listening, server, browser
<1>3. CASE Connect(c)
  BY <1>3 DEF Connect, server, broker
<1>4. CASE Park(c) \/ Close(c)
  BY <1>4 DEF Park, Close, server, broker, browser
<1>5. CASE Disconnect(c) \/ Refetch(c)
  BY <1>5 DEF Disconnect, Refetch, server, broker
<1> QED BY <1>1, <1>2, <1>3, <1>4, <1>5

LEMMA TypesNext == TypeInv /\ BrokerInv /\ [Next]_vars => TypeInv'
<1> SUFFICES ASSUME TypeInv, BrokerInv, [Next]_vars PROVE TypeInv'
  OBVIOUS
<1>1. CASE UNCHANGED vars
  BY <1>1 DEF vars, server, broker, browser, TypeInv, TypeOK, Shape
<1> QED
  BY <1>1, NotifyKeepsTypes, TakeEventKeepsTypes, OfferKeepsTypes, StreamKeepsTypes DEF Next

\* The Notifier never holds more than its buffer, whatever the number of controllers that
\* write at once, the broadcast is only ever of an event somebody sent, and it goes round
\* only among clients that are registered.
THEOREM BrokerTypes == Spec => []TypeOK
<1>1. TypeInv => TypeOK BY DEF TypeInv
<1> QED BY BrokerInit, BrokerNext, TypesInit, TypesNext, <1>1, PTL DEF Spec
=============================================================================
