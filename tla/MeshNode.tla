------------------------------- MODULE MeshNode -------------------------------
(***************************************************************************)
(* A libp2p node and what shares it: the wrapper that hands messages to    *)
(* handlers (mesh/libp2p.ts), the transport (mesh/transport.ts)            *)
(* and the router of experts, which listens to a topic of its own          *)
(* (mesh/routing.ts).  Subscriptions are the node's: they go when it stops *)
(* and any of its users may end one.  The handlers outlive the node; a     *)
(* node that is replaced by a second start runs on with its listeners.     *)
(***************************************************************************)
EXTENDS Naturals, FiniteSets

CONSTANTS
  Topics,       \* topics; Experts is the one the router subscribes to
  Experts,
  NoTopic,
  Subscribers,  \* callers of subscribe; each awaits one call at a time
  MaxHandlers,  \* bound on the handlers of a topic
  MaxStarts     \* bound on the nodes that are made, and on the calls of stop that overlap

ASSUME MeshAssumption ==
  NoTopic \notin Topics /\ Experts \in Topics /\ MaxStarts \in Nat

VARIABLES
  starts,       \* nodes made so far
  present,      \* this.node: the last node made, or 0 for null
  stopping,     \* calls of stop that await the end of a node
  nodesUp,      \* nodes that run
  handlers,     \* handlers: 0 for a topic without entry, else one more than it has handlers
  listeners,    \* listeners a node has for a topic's handlers
  subscribed,   \* topics a node's pubsub is subscribed to
  awaiting,     \* for each caller of subscribe the topic it awaits, or NoTopic
  carrier,      \* the node the transport was last attached to, or 0
  dropped       \* topics the transport has unsubscribed (history)

meshVars == <<starts, present, stopping, nodesUp, handlers, listeners, subscribed, awaiting, carrier, dropped>>
nodeVars == <<starts, present, stopping, nodesUp>>

MeshNodes == 1 .. MaxStarts

MeshInit ==
  /\ starts = 0 /\ present = 0 /\ stopping = 0 /\ nodesUp = {}
  /\ handlers = [t \in Topics |-> 0] /\ listeners = [n \in MeshNodes |-> [t \in Topics |-> 0]]
  /\ subscribed = [n \in MeshNodes |-> {}] /\ awaiting = [c \in Subscribers |-> NoTopic]
  /\ carrier = 0 /\ dropped = {}

\* A new node has no listener and no subscription; the transport and the router keep the old one,
\* which runs on if nobody stopped it.  MeshNetwork.start goes no further than this:
\* discovery.attach calls addEventListener, which the wrapper has not, and the call throws before
\* the transport and the router are attached.
NodeStart ==
  /\ starts < MaxStarts /\ starts' = starts + 1
  /\ present' = starts' /\ nodesUp' = nodesUp \cup {starts'}
  /\ UNCHANGED <<stopping, handlers, listeners, subscribed, awaiting, carrier, dropped>>
\* stop awaits the end of the node, then forgets the node there is by then.
StopBegins ==
  /\ present # 0 /\ stopping < MaxStarts
  /\ stopping' = stopping + 1 /\ nodesUp' = nodesUp \ {present}
  /\ UNCHANGED <<starts, present, handlers, listeners, subscribed, awaiting, carrier, dropped>>
StopEnds ==
  /\ stopping > 0 /\ stopping' = stopping - 1 /\ present' = 0
  /\ UNCHANGED <<starts, nodesUp, handlers, listeners, subscribed, awaiting, carrier, dropped>>

Joins(n, t) ==
  /\ n \in nodesUp
  /\ subscribed' = [subscribed EXCEPT ![n] = @ \cup {t}] /\ dropped' = dropped \ {t}

\* subscribe throws at once when there is no node, or one that was stopped.
SubscribeBegins(c, t) ==
  /\ awaiting[c] = NoTopic /\ handlers[t] <= MaxHandlers
  /\ awaiting' = [awaiting EXCEPT ![c] = t]
  /\ Joins(present, t)
  /\ UNCHANGED <<nodeVars, handlers, listeners, carrier>>

\* A fault: a listener is added with every handler.
EveryHandler(t) == TRUE
\* The entry is made once in the wrapper's life, the listener with it.
FirstHandler(t) == handlers[t] = 0

\* After the await, the node may be another.  The entry is made before it is asked for its pubsub:
\* when there is none any more this throws, and the entry stays without handler or listener.
SubscribeEnds(c) ==
  LET t == awaiting[c]
      throws == FirstHandler(t) /\ present = 0
  IN  /\ t # NoTopic
      /\ awaiting' = [awaiting EXCEPT ![c] = NoTopic]
      /\ handlers' = [handlers EXCEPT ![t] = IF throws THEN 1 ELSE IF @ = 0 THEN 2 ELSE @ + 1]
      /\ listeners' = IF FirstHandler(t) /\ present # 0 THEN [listeners EXCEPT ![present][t] = @ + 1]
                      ELSE listeners
      /\ UNCHANGED <<nodeVars, subscribed, carrier, dropped>>

\* attach, to the node of the wrapper or to what it wraps; nothing detaches.
TransportAttach ==
  /\ present # 0 /\ carrier' = present
  /\ UNCHANGED <<nodeVars, handlers, listeners, subscribed, awaiting, dropped>>
RouterAttach ==
  /\ Joins(present, Experts)
  /\ UNCHANGED <<nodeVars, handlers, listeners, awaiting, carrier>>
TransportSubscribe(t) ==
  /\ Joins(carrier, t)
  /\ UNCHANGED <<nodeVars, handlers, listeners, awaiting, carrier>>
TransportUnsubscribe(t) ==
  /\ carrier \in nodesUp
  /\ subscribed' = [subscribed EXCEPT ![carrier] = @ \ {t}] /\ dropped' = dropped \cup {t}
  /\ UNCHANGED <<nodeVars, handlers, listeners, awaiting, carrier>>

\* The nodes that hand a message of a topic to its handlers, each as often as it has listeners.
Hears(t) == {n \in nodesUp : t \in subscribed[n] /\ listeners[n][t] > 0}

MeshNext ==
  \/ NodeStart \/ StopBegins \/ StopEnds \/ TransportAttach \/ RouterAttach
  \/ \E c \in Subscribers : SubscribeEnds(c) \/ \E t \in Topics : SubscribeBegins(c, t)
  \/ \E t \in Topics : TransportSubscribe(t) \/ TransportUnsubscribe(t)

MeshSpec == MeshInit /\ [][MeshNext]_meshVars

MeshTypeOK ==
  /\ starts \in 0 .. MaxStarts /\ present \in {0, starts} /\ stopping \in 0 .. MaxStarts
  /\ nodesUp \subseteq 1 .. starts /\ carrier \in 0 .. starts
  /\ handlers \in [Topics -> Nat] /\ listeners \in [MeshNodes -> [Topics -> Nat]]
  /\ subscribed \in [MeshNodes -> SUBSET Topics] /\ dropped \subseteq Topics
  /\ awaiting \in [Subscribers -> Topics \cup {NoTopic}]

\* No handler of the wrapper is handed a message twice, however many subscribe to its topic at
\* once, while nodes are stopped, started again or replaced.  That it is handed every message
\* holds of the first node alone, until the transport unsubscribes the topic for everybody: after
\* a second start the wrapper believes that it still listens.
HandledOnce ==
  \A t \in Topics :
    /\ \A n \in Hears(t) : Hears(t) = {n} /\ listeners[n][t] = 1
    /\ starts = 1 /\ nodesUp = {1} /\ handlers[t] > 0 /\ t \notin dropped => Hears(t) = {1}
=============================================================================
