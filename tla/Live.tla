-------------------------------- MODULE Live --------------------------------
(***************************************************************************)
(* Progress events on their way to a user's browsers.  Workers publish to  *)
(* the user's Redis channel; in the API process each WebSocket has a       *)
(* handler, which answers pings, and a forwarder task subscribed to the    *)
(* channel.  Both write to the socket, one at a time by its lock.  Sockets *)
(* and Redis fail when they like.                                          *)
(***************************************************************************)
EXTENDS Naturals, Sequences, FiniteSets, SequencesExt

CONSTANTS Sockets,   \* WebSocket connections of one user
          MaxEvents, \* bound: events published
          MaxPings,  \* bound: pings of one socket
          None

Roles == {"handler", "forwarder"}  \* the tasks that write to a socket

ASSUME LiveAssumption == MaxEvents \in Nat /\ MaxPings \in Nat /\ None \notin Roles

VARIABLES
    published, \* number of events workers have published
    alive,     \* sockets whose client is there
    handler,   \* websocket_endpoint of each socket
    forwarder, \* forward_user_events of each socket
    byUser,    \* ConnectionManager._by_user of the user
    locks,     \* ConnectionManager._locks: socket -> who holds its lock
    writing,   \* who is in ws.send_text
    inbox,     \* what the forwarder's subscription holds
    received,  \* events the client got
    pings      \* pings a client has sent

vars == <<published, alive, handler, forwarder, byUser, locks, writing, inbox, received, pings>>

Confirmation == 0  \* the message that answers a subscription; events count from 1

Init == /\ published = 0 /\ alive = {}
        /\ handler = [w \in Sockets |-> "none"] /\ forwarder = [w \in Sockets |-> "none"]
        /\ byUser = {} /\ locks = [w \in {} |-> None]
        /\ writing = [w \in Sockets |-> {}]
        /\ inbox = [w \in Sockets |-> << >>] /\ received = [w \in Sockets |-> << >>]
        /\ pings = [w \in Sockets |-> 0]

HandlerTo(w, x)   == handler' = [handler EXCEPT ![w] = x]
ForwarderTo(w, x) == forwarder' = [forwarder EXCEPT ![w] = x]

(* disconnect *)
Forget(w) == byUser' = byUser \ {w} /\ locks' = [x \in DOMAIN locks \ {w} |-> locks[x]]

(* A worker publishes an event; who is subscribed gets it, nobody keeps it.  *)
Subscribed == {w \in Sockets : forwarder[w] \in {"listening", "waiting", "sending"}}
Publish == /\ published < MaxEvents /\ published' = published + 1
           /\ inbox' = [w \in Sockets |-> IF w \in Subscribed THEN Append(inbox[w], published') ELSE inbox[w]]
           /\ UNCHANGED <<alive, handler, forwarder, byUser, locks, writing, received, pings>>

(* The ticket is good: the socket is accepted, registered and given a lock,  *)
(* and a forwarder is started if there was a Redis when the process started. *)
Connect(w) ==
    /\ handler[w] = "none" /\ HandlerTo(w, "receive")
    /\ alive' = alive \cup {w} /\ byUser' = byUser \cup {w}
    /\ locks' = [x \in DOMAIN locks \cup {w} |-> IF x = w THEN None ELSE locks[x]]
    /\ forwarder' \in {[forwarder EXCEPT ![w] = x] : x \in {"starting", "none"}}
    /\ UNCHANGED <<published, writing, inbox, received, pings>>

(* The client closes, or the network drops it.                               *)
Leave(w) == /\ w \in alive /\ alive' = alive \ {w}
            /\ UNCHANGED <<published, handler, forwarder, byUser, locks, writing, inbox, received, pings>>

-----------------------------------------------------------------------------
(* Writing to a socket: the role waits for the lock, sends, and lets it go;  *)
(* a socket without a lock is written to at once.                            *)

(* Mutant: the forwarder calls send_text itself. *)
LockedByHandler(w, role) == IF w \in DOMAIN locks /\ role = "handler" THEN locks[w] ELSE None

LockHolder(w, role) == IF w \in DOMAIN locks THEN locks[w] ELSE None

StartSend(w, role) ==
    /\ LockHolder(w, role) = None
    /\ locks' = [x \in DOMAIN locks |-> IF x = w THEN role ELSE locks[x]]
    /\ writing' = [writing EXCEPT ![w] = @ \cup {role}]

EndSend(w, role) == writing' = [writing EXCEPT ![w] = @ \ {role}]
Unlocked(w, role) == [x \in DOMAIN locks |-> IF x = w /\ locks[x] = role THEN None ELSE locks[x]]

-----------------------------------------------------------------------------
(* The handler. *)

Ping(w) == /\ handler[w] = "receive" /\ w \in alive /\ pings[w] < MaxPings
           /\ pings' = [pings EXCEPT ![w] = @ + 1] /\ HandlerTo(w, "pong")
           /\ UNCHANGED <<published, alive, forwarder, byUser, locks, writing, inbox, received>>

Pong(w) == /\ handler[w] = "pong" /\ HandlerTo(w, "sending") /\ StartSend(w, "handler")
           /\ UNCHANGED <<published, alive, forwarder, byUser, inbox, received, pings>>

(* send_to: a client that is gone is forgotten, but its handler goes on.     *)
PongSent(w) ==
    /\ handler[w] = "sending" /\ HandlerTo(w, "receive") /\ EndSend(w, "handler")
    /\ IF w \in alive THEN locks' = Unlocked(w, "handler") /\ UNCHANGED byUser
       ELSE Forget(w)
    /\ UNCHANGED <<published, alive, forwarder, inbox, received, pings>>

(* WebSocketDisconnect: the forwarder is cancelled ...                       *)
Disconnected(w) ==
    /\ handler[w] = "receive" /\ w \notin alive /\ HandlerTo(w, "leaving")
    /\ ForwarderTo(w, IF forwarder[w] \in {"none", "failed", "lost", "ended"} THEN forwarder[w]
                      ELSE IF forwarder[w] = "starting" THEN "ended" ELSE "cancelled")
    /\ writing' = [writing EXCEPT ![w] = @ \ {"forwarder"}]
    /\ locks' = Unlocked(w, "forwarder")
    /\ UNCHANGED <<published, alive, byUser, inbox, received, pings>>

(* ... and awaited.  Only its CancelledError is suppressed: what it died of, *)
(* or dies of while it unsubscribes, leaves the handler here.                *)
TaskRaises(w) == forwarder[w] = "failed"

Leaving(w) == /\ handler[w] = "leaving" /\ forwarder[w] # "cancelled" /\ HandlerTo(w, "done")
              /\ IF TaskRaises(w) THEN UNCHANGED <<byUser, locks>> ELSE Forget(w)
              /\ UNCHANGED <<published, alive, forwarder, writing, inbox, received, pings>>

-----------------------------------------------------------------------------
(* The forwarder. *)

(* Redis confirms the subscription, with a message of its own, or raises.    *)
Subscribe(w) == /\ forwarder[w] = "starting" /\ ForwarderTo(w, "listening")
                /\ inbox' = [inbox EXCEPT ![w] = <<Confirmation>>]
                /\ UNCHANGED <<published, alive, handler, byUser, locks, writing, received, pings>>

(* Mutant: the loop ends at a message that is no event. *)
Stops(w) == ForwarderTo(w, "ended")

Skips(w) == UNCHANGED forwarder

(* The next message: what is no event is skipped.                            *)
Listen(w) ==
    /\ forwarder[w] = "listening" /\ inbox[w] # << >>
    /\ IF Head(inbox[w]) = Confirmation
       THEN inbox' = [inbox EXCEPT ![w] = Tail(@)] /\ Skips(w)
       ELSE UNCHANGED inbox /\ ForwarderTo(w, "waiting")
    /\ UNCHANGED <<published, alive, handler, byUser, locks, writing, received, pings>>

(* Mutant: an event that finds the socket busy is dropped. *)
ForwardOrDrop(w) ==
    /\ forwarder[w] = "waiting"
    /\ IF LockHolder(w, "forwarder") = None
       THEN ForwarderTo(w, "sending") /\ StartSend(w, "forwarder") /\ UNCHANGED inbox
       ELSE /\ ForwarderTo(w, "listening") /\ inbox' = [inbox EXCEPT ![w] = Tail(@)]
            /\ UNCHANGED <<locks, writing>>
    /\ UNCHANGED <<published, alive, handler, byUser, received, pings>>

Forward(w) == /\ forwarder[w] = "waiting" /\ ForwarderTo(w, "sending") /\ StartSend(w, "forwarder")
              /\ UNCHANGED <<published, alive, handler, byUser, inbox, received, pings>>

(* It arrives, or the client is gone and the exception ends the loop, and    *)
(* the task without one if it can unsubscribe.                               *)
Forwarded(w) ==
    /\ forwarder[w] = "sending" /\ EndSend(w, "forwarder") /\ locks' = Unlocked(w, "forwarder")
    /\ inbox' = [inbox EXCEPT ![w] = Tail(@)]
    /\ IF w \in alive
       THEN received' = [received EXCEPT ![w] = Append(@, Head(inbox[w]))] /\ ForwarderTo(w, "listening")
       ELSE UNCHANGED received /\ (ForwarderTo(w, "ended") \/ ForwarderTo(w, "failed"))
    /\ UNCHANGED <<published, alive, handler, byUser, pings>>

(* Redis goes away: while subscribing that raises; while listening the loop  *)
(* ends, and unsubscribing may raise in turn.  The socket stays.             *)
RedisFails(w) ==
    \/ /\ forwarder[w] = "starting" /\ ForwarderTo(w, "failed")
       /\ UNCHANGED <<published, alive, handler, byUser, locks, writing, inbox, received, pings>>
    \/ /\ forwarder[w] = "listening" /\ inbox' = [inbox EXCEPT ![w] = << >>]
       /\ ForwarderTo(w, "lost") \/ ForwarderTo(w, "failed")
       /\ UNCHANGED <<published, alive, handler, byUser, locks, writing, received, pings>>

(* The cancelled task unsubscribes, or Redis is not there to ask.            *)
Cancelled(w) == /\ forwarder[w] = "cancelled"
                /\ ForwarderTo(w, "ended") \/ ForwarderTo(w, "failed")
                /\ inbox' = [inbox EXCEPT ![w] = << >>]
                /\ UNCHANGED <<published, alive, handler, byUser, locks, writing, received, pings>>

-----------------------------------------------------------------------------
HandlerStep(w)   == Pong(w) \/ PongSent(w) \/ Disconnected(w) \/ Leaving(w)
ForwarderStep(w) == Subscribe(w) \/ Listen(w) \/ Forward(w) \/ Forwarded(w) \/ Cancelled(w)

Next == \/ Publish
        \/ \E w \in Sockets : Connect(w) \/ Leave(w) \/ Ping(w) \/ RedisFails(w)
                              \/ HandlerStep(w) \/ ForwarderStep(w)

Spec == Init /\ [][Next]_vars

(* The event loop runs every task that can go on; the lock's holder lets it  *)
(* go, and is not given it again before the other (asyncio.Lock queues).     *)
FairSpec == Spec /\ \A w \in Sockets : WF_vars(HandlerStep(w)) /\ WF_vars(ForwarderStep(w))

-----------------------------------------------------------------------------
(* Two tasks never write to a client's socket at once, whatever becomes of   *)
(* its registration (events.py:23-25).                                       *)
SendsSerialised == \A w \in alive : Cardinality(writing[w]) <= 1

(* Between a connection and its end a client gets every event, once and in   *)
(* order, from the first it gets, whatever pings, other tabs and failures    *)
(* come between: each event received is the one after the last, and a        *)
(* forwarder with nothing to do has passed on the latest (subscriber.py:     *)
(* 22-41).                                                                   *)
NoEventSkipped ==
    \A w \in Sockets :
        /\ \A i \in 1..(Len(received[w]) - 1) : received[w][i + 1] = received[w][i] + 1
        /\ w \in Subscribed /\ inbox[w] = << >> /\ received[w] # << >> =>
               received[w][Len(received[w])] = published

(* An event that has reached a subscription reaches the client, unless the   *)
(* client or Redis goes first.                                               *)
EventsArrive ==
    \A w \in Sockets : \A e \in 1..MaxEvents :
        Contains(inbox[w], e)
            ~> Contains(received[w], e) \/ w \notin alive \/ forwarder[w] \in {"lost", "failed"}
=============================================================================
