------------------------------ MODULE SSEBroker ------------------------------
(***************************************************************************)
(* The live-update broker: the listen goroutine, the stream handler of     *)
(* every connected dashboard, the controllers that write to the database   *)
(* and then notify, and the dashboards that refetch on an event.           *)
(***************************************************************************)
EXTENDS Naturals, Sequences, FiniteSets

CONSTANTS
  Clients,      \* dashboards; one stream handler each
  Writes,       \* mutating requests; each writes once and notifies once
  NotifierCap   \* buffer of Notifier (1)

ASSUME BrokerAssumption == NotifierCap \in Nat \ {0}

VARIABLES
  pc,         \* pc[w]: the controller of write w
  notifier,   \* the Notifier channel's buffer
  clients,    \* broker.clients
  listen,     \* the listen goroutine: the event being broadcast, clients left to try
  stream,     \* stream[c]: the stream handler of c
  gone,       \* gone[c]: the browser has closed the connection
  inbox,      \* inbox[c]: events the browser has got and not refetched for
  behind      \* auxiliary: events broadcast since c registered, not yet handed to it

server == <<pc, notifier>>
broker == <<clients, listen, behind>>
browser == <<gone, inbox>>
vars == <<server, broker, stream, browser>>

Idle == [event |-> "none", left |-> {}]
Listening == listen.left = {}     \* the goroutine is back at its select

TypeOK ==
  /\ pc \in [Writes -> {"write", "notify", "done"}]
  /\ notifier \in Seq(Writes) /\ Len(notifier) <= NotifierCap
  /\ clients \subseteq Clients
  /\ listen.left \subseteq clients
  /\ listen.left # {} => listen.event \in Writes
  /\ stream \in [Clients -> {"absent", "adding", "busy", "ready", "closing"}]
  /\ gone \in [Clients -> BOOLEAN]
  /\ inbox \in [Clients -> SUBSET Writes]
  /\ behind \in [Clients -> Seq(Writes)]

Init ==
  /\ pc = [w \in Writes |-> "write"]
  /\ notifier = <<>>
  /\ clients = {}
  /\ listen = Idle
  /\ stream = [c \in Clients |-> "absent"]
  /\ gone = [c \in Clients |-> FALSE]
  /\ inbox = [c \in Clients |-> {}]
  /\ behind = [c \in Clients |-> <<>>]

-----------------------------------------------------------------------------
\* Controllers

Write(w) ==
  /\ pc[w] = "write"
  /\ pc' = [pc EXCEPT ![w] = "notify"]
  /\ UNCHANGED <<notifier, broker, stream, browser>>

\* Mutation: a channel without bound.
NotifyUnbounded(w) ==
  /\ pc[w] = "notify"
  /\ notifier' = Append(notifier, w)
  /\ pc' = [pc EXCEPT ![w] = "done"]
  /\ UNCHANGED <<broker, stream, browser>>

\* sseBroker.Notifier <- event blocks while the buffer is full.
Notify(w) ==
  /\ pc[w] = "notify"
  /\ Len(notifier) < NotifierCap
  /\ notifier' = Append(notifier, w)
  /\ pc' = [pc EXCEPT ![w] = "done"]
  /\ UNCHANGED <<broker, stream, browser>>

-----------------------------------------------------------------------------
\* The listen goroutine

\* The rendezvous of AddClient.
Register(c) ==
  /\ Listening /\ stream[c] = "adding"
  /\ clients' = clients \cup {c}
  /\ stream' = [stream EXCEPT ![c] = "busy"]
  /\ UNCHANGED <<server, listen, behind, browser>>

\* The rendezvous of RemoveClient; deleting a client that is not there is harmless.
Unregister(c) ==
  /\ Listening /\ stream[c] = "closing"
  /\ clients' = clients \ {c}
  /\ stream' = [stream EXCEPT ![c] = "absent"]
  /\ UNCHANGED <<server, listen, browser>>
  /\ behind' = [behind EXCEPT ![c] = <<>>]

TakeEvent ==
  /\ Listening /\ notifier # <<>>
  /\ listen' = [event |-> Head(notifier), left |-> clients]
  /\ notifier' = Tail(notifier)
  /\ behind' = [c \in Clients |-> IF c \in clients THEN Append(behind[c], Head(notifier))
                                 ELSE behind[c]]
  /\ UNCHANGED <<pc, clients, stream, browser>>

Deliver(c) ==
  /\ behind' = [behind EXCEPT ![c] = Tail(@)]
  /\ stream' = [stream EXCEPT ![c] = "busy"]
  /\ inbox' = IF gone[c] THEN inbox ELSE [inbox EXCEPT ![c] = @ \cup {listen.event}]
  /\ UNCHANGED clients

\* Mutation: a client that is not ready is passed over and kept.
OfferKeep(c) ==
  /\ c \in listen.left
  /\ listen' = [listen EXCEPT !.left = @ \ {c}]
  /\ IF stream[c] = "ready"
     THEN Deliver(c)
     ELSE UNCHANGED <<clients, behind, stream, inbox>>
  /\ UNCHANGED <<server, gone>>

\* Mutation: a plain send that waits for the client.
OfferBlocking(c) ==
  /\ c \in listen.left
  /\ stream[c] = "ready"
  /\ listen' = [listen EXCEPT !.left = @ \ {c}]
  /\ Deliver(c)
  /\ UNCHANGED <<server, gone>>

\* One turn of the broadcast loop, in map order: a handler waiting in its select takes
\* the event; any other client is deleted from the map, its stream left open.
Offer(c) ==
  /\ c \in listen.left
  /\ listen' = [listen EXCEPT !.left = @ \ {c}]
  /\ IF stream[c] = "ready"
     THEN Deliver(c)
     ELSE /\ clients' = clients \ {c}
          /\ behind' = [behind EXCEPT ![c] = <<>>]
          /\ UNCHANGED <<stream, inbox>>
  /\ UNCHANGED <<server, gone>>

-----------------------------------------------------------------------------
\* The stream handler of a dashboard

\* GET /moderator/stream, when the dashboard loads or fetchEventSource reopens the stream
\* of a tab that was hidden.
Connect(c) ==
  /\ stream[c] = "absent"
  /\ stream' = [stream EXCEPT ![c] = "adding"]
  /\ gone' = [gone EXCEPT ![c] = FALSE]
  /\ inbox' = [inbox EXCEPT ![c] = {}]
  /\ UNCHANGED <<server, broker>>

\* Back at the select, after AddClient or after SSEEvent and Flush.
Park(c) ==
  /\ stream[c] = "busy"
  /\ stream' = [stream EXCEPT ![c] = "ready"]
  /\ UNCHANGED <<server, broker, browser>>

Disconnect(c) ==
  /\ stream[c] # "absent" /\ ~gone[c]
  /\ gone' = [gone EXCEPT ![c] = TRUE]
  /\ inbox' = [inbox EXCEPT ![c] = {}]
  /\ UNCHANGED <<server, broker, stream>>

\* Mutation: no deferred RemoveClient.
CloseLeaking(c) ==
  /\ stream[c] = "ready" /\ gone[c]
  /\ stream' = [stream EXCEPT ![c] = "absent"]
  /\ UNCHANGED <<server, broker, browser>>

\* The request's context is done: the handler returns and its defer runs RemoveClient.
Close(c) ==
  /\ stream[c] = "ready" /\ gone[c]
  /\ stream' = [stream EXCEPT ![c] = "closing"]
  /\ UNCHANGED <<server, broker, browser>>

\* LiveSyncManager turns the event into a DOM event; the page refetches.
Refetch(c) ==
  /\ inbox[c] # {}
  /\ inbox' = [inbox EXCEPT ![c] = {}]
  /\ UNCHANGED <<server, broker, stream, gone>>

-----------------------------------------------------------------------------
Next ==
  \/ \E w \in Writes : Write(w) \/ Notify(w)
  \/ \E c \in Clients :
       \/ Register(c) \/ Unregister(c) \/ Offer(c)
       \/ Connect(c) \/ Park(c) \/ Disconnect(c) \/ Close(c) \/ Refetch(c)
  \/ TakeEvent

Spec == Init /\ [][Next]_vars

\* The listen goroutine runs and its select, which picks at random among the ready
\* cases, starves none; a channel serves the sends blocked on it.  Nothing is assumed of
\* the handlers: a browser may stop reading and leave its handler in Flush for ever.
FairSpec ==
  /\ Spec
  /\ SF_vars(TakeEvent)
  /\ WF_vars(\E c \in Clients : Offer(c))
  /\ SF_vars(\E w \in Writes : Notify(w))
  /\ \A c \in Clients : SF_vars(Unregister(c))

-----------------------------------------------------------------------------
\* A client the broker still has registered has been handed every event broadcast
\* since its registration but the one going round: the broker drops a client rather than
\* let it miss an event and stay (the default case of the broadcast).
RegisteredMissNothing ==
  \A c \in clients :
    behind[c] = IF c \in listen.left THEN <<listen.event>> ELSE <<>>

\* The map holds no client whose handler has returned, so that a broadcast never
\* touches a dead channel and the map cannot grow for ever (the deferred RemoveClient).
RegisteredAreServed == \A c \in clients : stream[c] \notin {"absent", "adding"}

\* No controller waits for ever for a slow or dead dashboard (the non-blocking send).
NotifyReturns == \A w \in Writes : (pc[w] = "notify") ~> (pc[w] = "done")

\* Nor does the handler of a closed stream wait for ever in RemoveClient.
CloseReturns == \A c \in Clients : (stream[c] = "closing") ~> (stream[c] # "closing")

=============================================================================
