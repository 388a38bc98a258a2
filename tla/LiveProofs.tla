----------------------------- MODULE LiveProofs -----------------------------
(***************************************************************************)
(* Proofs about Live for any number of sockets, events and pings: first    *)
(* who holds the lock of a socket, who writes to it and who still runs for *)
(* it, then which events its client gets.                                  *)
(***************************************************************************)
EXTENDS Live, FiniteSetTheorems, TLAPS

-----------------------------------------------------------------------------
(* The inductive invariant. *)

Over  == {"none", "failed", "lost", "ended"}

LiveTypeOK ==
    /\ alive \subseteq Sockets /\ byUser \subseteq Sockets /\ DOMAIN locks \subseteq Sockets
    /\ handler \in [Sockets -> {"none", "receive", "pong", "sending", "leaving", "done"}]
    /\ forwarder \in [Sockets -> Over \cup {"starting", "listening", "waiting", "sending", "cancelled"}]
    /\ writing \in [Sockets -> SUBSET Roles]

(* Before a socket is accepted there is nothing of it, and while its client  *)
(* is there it has its lock.                                                 *)
SocketInv ==
    \A w \in Sockets :
        /\ handler[w] = "none" => /\ forwarder[w] = "none" /\ writing[w] = {}
                                  /\ w \notin alive /\ w \notin byUser /\ w \notin DOMAIN locks
        /\ w \in alive => w \in DOMAIN locks

(* Who writes is at the step that writes, and holds the lock if there is one. *)
WriterInv ==
    \A w \in Sockets :
        /\ "handler" \in writing[w] => handler[w] = "sending"
        /\ "forwarder" \in writing[w] => forwarder[w] = "sending"
        /\ w \in DOMAIN locks => writing[w] \subseteq {locks[w]}

(* A handler that leaves has lost its client, and has ended its forwarder or *)
(* waits for it to end.                                                      *)
LeavingInv ==
    \A w \in Sockets :
        /\ handler[w] \in {"leaving", "done"} =>
               w \notin alive /\ forwarder[w] \in Over \cup {"cancelled"}
        /\ handler[w] = "done" => forwarder[w] # "cancelled"

LiveInv == LiveTypeOK /\ SocketInv /\ WriterInv /\ LeavingInv
-----------------------------------------------------------------------------
(* The invariant holds of every step; one step of the proof per action. *)
LEMMA LiveInvInit == Init => LiveInv
<1> SUFFICES ASSUME Init PROVE LiveInv
  OBVIOUS
<1>1. DOMAIN locks = {}
  BY DEF Init
<1> QED BY <1>1 DEF Init, LiveInv, LiveTypeOK, SocketInv, WriterInv, LeavingInv, Over

LEMMA LiveInvNext == LiveInv /\ [Next]_vars => LiveInv'
<1> SUFFICES ASSUME LiveInv, [Next]_vars PROVE LiveInv'
  OBVIOUS
<1> USE DEF LiveInv, LiveTypeOK, SocketInv, WriterInv, LeavingInv, Over, Roles
<1>0. CASE Publish
  BY <1>0 DEF Publish
<1>1. ASSUME NEW w \in Sockets, Connect(w) PROVE LiveInv'
  BY <1>1 DEF Connect, HandlerTo
<1>2. ASSUME NEW w \in Sockets, Leave(w) PROVE LiveInv'
  BY <1>2 DEF Leave
<1>3. ASSUME NEW w \in Sockets, Ping(w) PROVE LiveInv'
  BY <1>3 DEF Ping, HandlerTo
<1>4. ASSUME NEW w \in Sockets, RedisFails(w) PROVE LiveInv'
  BY <1>4 DEF RedisFails, ForwarderTo
<1>5. ASSUME NEW w \in Sockets, Pong(w) PROVE LiveInv'
  <2>1. /\ handler' = [handler EXCEPT ![w] = "sending"]
        /\ writing' = [writing EXCEPT ![w] = @ \cup {"handler"}]
        /\ locks' = [x \in DOMAIN locks |-> IF x = w THEN "handler" ELSE locks[x]]
        /\ UNCHANGED <<forwarder, alive, byUser>>
    BY <1>5 DEF Pong, HandlerTo, StartSend
  <2>2. w \in DOMAIN locks => writing[w] = {}
    BY <1>5, LiveAssumption DEF Pong, StartSend, LockHolder
  <2> QED BY <1>5, <2>1, <2>2 DEF Pong
<1>6. ASSUME NEW w \in Sockets, PongSent(w) PROVE LiveInv'
  BY <1>6 DEF PongSent, HandlerTo, EndSend, Unlocked, Forget
<1>7. ASSUME NEW w \in Sockets, Disconnected(w) PROVE LiveInv'
  BY <1>7 DEF Disconnected, HandlerTo, ForwarderTo, Unlocked
<1>8. ASSUME NEW w \in Sockets, Leaving(w) PROVE LiveInv'
  <2>1. CASE TaskRaises(w)
    BY <1>8, <2>1 DEF Leaving, HandlerTo, TaskRaises
  <2>2. CASE ~ TaskRaises(w)
    <3>1. /\ handler[w] = "leaving" /\ forwarder[w] # "cancelled"
          /\ handler' = [handler EXCEPT ![w] = "done"] /\ byUser' = byUser \ {w}
          /\ locks' = [x \in DOMAIN locks \ {w} |-> locks[x]]
          /\ UNCHANGED <<alive, forwarder, writing>>
      BY <1>8, <2>2 DEF Leaving, HandlerTo, Forget
    <3>2. w \notin alive
      BY <3>1
    <3>3. LiveTypeOK' /\ SocketInv' /\ WriterInv'
      BY <3>1, <3>2
    <3> QED BY <3>1, <3>3
  <2> QED BY <2>1, <2>2
<1>9. ASSUME NEW w \in Sockets, Subscribe(w) PROVE LiveInv'
  BY <1>9 DEF Subscribe, ForwarderTo
<1>10. ASSUME NEW w \in Sockets, Listen(w) PROVE LiveInv'
  BY <1>10 DEF Listen, ForwarderTo, Skips
<1>11. ASSUME NEW w \in Sockets, Forward(w) PROVE LiveInv'
  <2>1. /\ forwarder' = [forwarder EXCEPT ![w] = "sending"]
        /\ writing' = [writing EXCEPT ![w] = @ \cup {"forwarder"}]
        /\ locks' = [x \in DOMAIN locks |-> IF x = w THEN "forwarder" ELSE locks[x]]
        /\ UNCHANGED <<handler, alive, byUser>>
    BY <1>11 DEF Forward, ForwarderTo, StartSend
  <2>2. w \in DOMAIN locks => writing[w] = {}
    BY <1>11, LiveAssumption DEF Forward, StartSend, LockHolder
  <2> QED BY <1>11, <2>1, <2>2 DEF Forward
<1>12. ASSUME NEW w \in Sockets, Forwarded(w) PROVE LiveInv'
  BY <1>12 DEF Forwarded, ForwarderTo, EndSend, Unlocked
<1>13. ASSUME NEW w \in Sockets, Cancelled(w) PROVE LiveInv'
  BY <1>13 DEF Cancelled, ForwarderTo
<1>14. CASE UNCHANGED vars
  BY <1>14 DEF vars
<1> QED BY <1>0, <1>1, <1>2, <1>3, <1>4, <1>5, <1>6, <1>7, <1>8, <1>9, <1>10, <1>11, <1>12, <1>13, <1>14 DEF Next, HandlerStep, ForwarderStep

(* The inductive invariant holds in every reachable state. *)
LEMMA LiveInvariant == Spec => []LiveInv
BY LiveInvInit, LiveInvNext, PTL DEF Spec

(* Two tasks never write to a client's socket at once (events.py:23-25),     *)
(* although either may find the client gone and drop the lock while the      *)
(* other waits for it: a socket without a lock has no client.                *)
THEOREM OneWriterPerClient == Spec => []SendsSerialised
<1>1. LiveInv => SendsSerialised
  <2> SUFFICES ASSUME LiveInv, NEW w \in alive PROVE Cardinality(writing[w]) <= 1
    BY DEF SendsSerialised
  <2>1. writing[w] \subseteq {locks[w]}
    BY DEF LiveInv, LiveTypeOK, SocketInv, WriterInv
  <2>2. Cardinality(writing[w]) <= Cardinality({locks[w]})
    BY <2>1, FS_Singleton, FS_Subset
  <2> QED BY <2>1, <2>2, FS_Singleton, FS_Subset, FS_CardinalityType
<1> QED BY <1>1, LiveInvariant, PTL

-----------------------------------------------------------------------------
(* The events a client gets.  While the forwarder is subscribed its inbox    *)
(* ends with the latest event, and begins where the client has got to.       *)

Consecutive(got) == \A i \in 1..(Len(got) - 1) : got[i + 1] = got[i] + 1

(* What waits ends with the latest event, and follows what was received.     *)
UpTo(latest, waits, got) ==
    /\ Len(waits) <= latest + 1
    /\ \A i \in DOMAIN waits :
           \/ waits[i] + Len(waits) = latest + i /\ waits[i] # Confirmation
           \/ i = 1 /\ waits[i] = Confirmation /\ got = << >>
    /\ got # << >> => got[Len(got)] + Len(waits) = latest

Stream(latest, task, waits, got) ==
    /\ task \in {"none", "starting"} => got = << >>
    /\ task \in {"listening", "waiting", "sending"} => UpTo(latest, waits, got)
    /\ task \in {"waiting", "sending"} => waits # << >> /\ Head(waits) # Confirmation
    /\ Consecutive(got)

StreamTypeOK == published \in Nat /\ inbox \in [Sockets -> Seq(Nat)] /\ received \in [Sockets -> Seq(Nat)]
StreamInv == StreamTypeOK /\ \A w \in Sockets : Stream(published, forwarder[w], inbox[w], received[w])

LEMMA OneMoreWaits ==
  ASSUME NEW latest \in Nat, NEW waits \in Seq(Nat), NEW got \in Seq(Nat), UpTo(latest, waits, got)
  PROVE  UpTo(latest + 1, Append(waits, latest + 1), got)
<1> DEFINE L == Len(waits)
           more == Append(waits, latest + 1)
           n == Len(got)
<1>1. /\ L \in Nat /\ DOMAIN waits = 1..L /\ Len(more) = L + 1 /\ DOMAIN more = 1..(L + 1)
      /\ more[L + 1] = latest + 1 /\ \A i \in 1..L : more[i] = waits[i] /\ waits[i] \in Nat
  OBVIOUS
<1>2. got # << >> => got[n] \in Nat
  OBVIOUS
<1>3. L <= latest + 1
  BY DEF UpTo
<1>4. \A i \in DOMAIN waits : \/ waits[i] + L = latest + i /\ waits[i] # Confirmation
                              \/ i = 1 /\ waits[i] = Confirmation /\ got = << >>
  BY DEF UpTo
<1>5. got # << >> => got[n] + L = latest
  BY DEF UpTo
<1> HIDE DEF L, more, n
<1>6. ASSUME NEW i \in 1..(L + 1)
      PROVE  \/ more[i] + (L + 1) = (latest + 1) + i /\ more[i] # Confirmation
             \/ i = 1 /\ more[i] = Confirmation /\ got = << >>
  <2>1. CASE i = L + 1
    <3>1. more[i] = latest + 1
      BY <1>1, <2>1
    <3>2. more[i] # 0 /\ more[i] + (L + 1) = (latest + 1) + i
      BY <1>1, <2>1, <3>1
    <3> QED BY <3>2 DEF Confirmation
  <2>2. CASE i # L + 1
    <3>1. i \in 1..L
      BY <1>1, <2>2
    <3> DEFINE x == waits[i]
    <3>2. more[i] = x /\ x \in Nat /\ i \in Nat
      BY <1>1, <3>1
    <3>3. \/ x + L = latest + i /\ x # Confirmation
          \/ i = 1 /\ x = Confirmation /\ got = << >>
      BY <1>1, <1>4, <3>1
    <3> HIDE DEF x
    <3>4. x + L = latest + i => x + (L + 1) = (latest + 1) + i
      BY <1>1, <3>2
    <3> QED BY <3>2, <3>3, <3>4
  <2> QED BY <2>1, <2>2
<1>7. L + 1 <= (latest + 1) + 1
  BY <1>1, <1>3
<1>8. ASSUME got # << >> PROVE got[n] + (L + 1) = latest + 1
  <2> DEFINE x == got[n]
  <2>1. x \in Nat /\ x + L = latest
    BY <1>2, <1>5, <1>8
  <2> HIDE DEF x
  <2>2. x + (L + 1) = latest + 1
    BY <1>1, <2>1
  <2> QED BY <2>2 DEF x
<1> QED BY <1>1, <1>6, <1>7, <1>8 DEF UpTo, more, n

(* One waits less, if the first is no event or has arrived. *)
LEMMA TheRestWaits ==
  ASSUME NEW latest \in Nat, NEW waits \in Seq(Nat), NEW got, UpTo(latest, waits, got), waits # << >>
  PROVE  /\ Len(Tail(waits)) <= latest + 1
         /\ \A i \in DOMAIN Tail(waits) :
                Tail(waits)[i] + Len(Tail(waits)) = latest + i /\ Tail(waits)[i] # Confirmation
         /\ Head(waits) # Confirmation => Head(waits) + Len(Tail(waits)) = latest
         /\ Head(waits) = Confirmation => got = << >>
<1> DEFINE L == Len(waits)
           rest == Tail(waits)
<1>1. /\ L \in Nat /\ L >= 1 /\ DOMAIN waits = 1..L /\ Len(rest) = L - 1 /\ DOMAIN rest = 1..(L - 1)
      /\ Head(waits) = waits[1] /\ \A i \in 1..(L - 1) : rest[i] = waits[i + 1] /\ waits[i + 1] \in Nat
      /\ waits[1] \in Nat
  OBVIOUS
<1>2. L <= latest + 1
  BY DEF UpTo
<1>3. \A i \in DOMAIN waits : \/ waits[i] + L = latest + i /\ waits[i] # Confirmation
                              \/ i = 1 /\ waits[i] = Confirmation /\ got = << >>
  BY DEF UpTo
<1> HIDE DEF L, rest
<1>4. ASSUME NEW i \in 1..(L - 1) PROVE rest[i] + (L - 1) = latest + i /\ rest[i] # Confirmation
  <2> DEFINE x == waits[i + 1]
  <2>1. i + 1 \in DOMAIN waits /\ i + 1 # 1 /\ x \in Nat /\ rest[i] = x /\ i \in Nat
    BY <1>1
  <2>2. x + L = latest + (i + 1) /\ x # Confirmation
    BY <1>3, <2>1
  <2> HIDE DEF x
  <2>3. x + (L - 1) = latest + i
    BY <1>1, <2>1, <2>2
  <2> QED BY <2>1, <2>2, <2>3
<1>5. /\ Head(waits) # Confirmation => Head(waits) + (L - 1) = latest
      /\ Head(waits) = Confirmation => got = << >>
  <2> DEFINE x == waits[1]
  <2>1. 1 \in DOMAIN waits /\ x \in Nat
    BY <1>1
  <2>2. (x + L = latest + 1 /\ x # Confirmation) \/ (x = Confirmation /\ got = << >>)
    BY <1>3, <2>1
  <2> HIDE DEF x
  <2>3. x + L = latest + 1 => x + (L - 1) = latest
    BY <1>1, <2>1
  <2> QED BY <1>1, <2>2, <2>3 DEF x
<1>6. L - 1 <= latest + 1
  BY <1>1, <1>2
<1> QED BY <1>1, <1>4, <1>5, <1>6 DEF rest

LEMMA FirstSkipped ==
  ASSUME NEW latest \in Nat, NEW waits \in Seq(Nat), NEW got, UpTo(latest, waits, got),
         waits # << >>, Head(waits) = Confirmation
  PROVE  UpTo(latest, Tail(waits), got)
BY TheRestWaits DEF UpTo

LEMMA FirstReceived ==
  ASSUME NEW latest \in Nat, NEW waits \in Seq(Nat), NEW got \in Seq(Nat), UpTo(latest, waits, got),
         waits # << >>, Head(waits) # Confirmation, Consecutive(got)
  PROVE  UpTo(latest, Tail(waits), Append(got, Head(waits))) /\ Consecutive(Append(got, Head(waits)))
<1> DEFINE x == Head(waits)
           R == Len(Tail(waits))
           n == Len(got)
           more == Append(got, x)
<1>1. x \in Nat /\ R \in Nat /\ Len(waits) = R + 1
  OBVIOUS
<1>2. /\ R <= latest + 1 /\ x + R = latest
      /\ \A i \in DOMAIN Tail(waits) : Tail(waits)[i] + R = latest + i /\ Tail(waits)[i] # Confirmation
  BY TheRestWaits
<1>3. got # << >> => got[n] \in Nat /\ got[n] + Len(waits) = latest
  <2>1. got # << >> => got[n] \in Nat
    OBVIOUS
  <2>2. got # << >> => got[n] + Len(waits) = latest
    BY DEF UpTo
  <2> QED BY <2>1, <2>2
<1>4. \A i \in 1..(n - 1) : got[i + 1] = got[i] + 1
  BY DEF Consecutive
<1> HIDE DEF x
<1>5. /\ n \in Nat /\ Len(more) = n + 1 /\ more[n + 1] = x
      /\ \A i \in 1..n : more[i] = got[i]
      /\ n # 0 => got # << >>
  <2>1. n \in Nat /\ (n # 0 => got # << >>)
    OBVIOUS
  <2>2. Len(more) = n + 1 /\ more[n + 1] = x
    BY <1>1, <2>1
  <2>3. \A i \in 1..n : more[i] = got[i]
    BY <1>1, <2>1
  <2> QED BY <2>1, <2>2, <2>3
<1> HIDE DEF R, n, more
<1>6. more # << >>
  <2>1. Len(<< >>) = 0
    OBVIOUS
  <2> QED BY <1>5, <2>1
<1>7. UpTo(latest, Tail(waits), more)
  BY <1>2, <1>5, <1>6 DEF UpTo, R
<1>8. ASSUME NEW i \in 1..n PROVE more[i + 1] = more[i] + 1
  <2>1. CASE i = n
    <3> DEFINE y == got[n]
    <3>1. n # 0 /\ y \in Nat /\ y + (R + 1) = latest
      BY <1>1, <1>3, <1>5, <2>1
    <3> HIDE DEF y
    <3>2. x = y + 1
      BY <1>1, <1>2, <3>1
    <3> QED BY <1>5, <2>1, <3>2 DEF y
  <2>2. CASE i # n
    <3>1. i \in 1..(n - 1) /\ i + 1 \in 1..n
      BY <1>5, <2>2
    <3> QED BY <1>4, <1>5, <3>1
  <2> QED BY <2>1, <2>2
<1>9. (n + 1) - 1 = n
  BY <1>5
<1> QED BY <1>5, <1>7, <1>8, <1>9 DEF Consecutive, more, x

LEMMA StreamInvInit == Init => StreamInv
<1> SUFFICES ASSUME Init PROVE StreamInv
  OBVIOUS
<1>1. << >> \in Seq(Nat) /\ Len(<< >>) = 0
  OBVIOUS
<1>2. Consecutive(<< >>)
  BY <1>1 DEF Consecutive
<1> QED BY <1>1, <1>2 DEF Init, StreamInv, StreamTypeOK, Stream

(* A step of one socket leaves the streams of the others alone. *)
LEMMA OtherStreams ==
  ASSUME StreamInv, StreamTypeOK', NEW w \in Sockets, UNCHANGED published,
         \A x \in Sockets \ {w} : UNCHANGED <<forwarder[x], inbox[x], received[x]>>,
         Stream(published, forwarder'[w], inbox'[w], received'[w])
  PROVE  StreamInv'
BY DEF StreamInv

LEMMA StreamInvNext == LiveInv /\ StreamInv /\ [Next]_vars => StreamInv'
<1> SUFFICES ASSUME LiveInv, StreamInv, [Next]_vars PROVE StreamInv'
  OBVIOUS
<1>0. CASE Publish
  <2>1. /\ published \in Nat /\ published' = published + 1 /\ forwarder' = forwarder /\ received' = received
        /\ inbox' = [w \in Sockets |-> IF w \in Subscribed THEN Append(inbox[w], published') ELSE inbox[w]]
    BY <1>0 DEF Publish, StreamInv, StreamTypeOK
  <2>2. StreamTypeOK'
    BY <2>1 DEF StreamInv, StreamTypeOK
  <2>3. ASSUME NEW w \in Sockets PROVE Stream(published', forwarder'[w], inbox'[w], received'[w])
    <3>1. /\ inbox[w] \in Seq(Nat) /\ received[w] \in Seq(Nat)
          /\ Stream(published, forwarder[w], inbox[w], received[w])
      BY DEF StreamInv, StreamTypeOK
    <3>2. CASE w \in Subscribed
      <4>1. inbox'[w] = Append(inbox[w], published + 1)
        BY <2>1, <3>2
      <4>2. UpTo(published + 1, Append(inbox[w], published + 1), received[w])
        <5>1. UpTo(published, inbox[w], received[w])
          BY <3>1, <3>2 DEF Stream, Subscribed
        <5> QED BY <2>1, <3>1, <5>1, OneMoreWaits
      <4>3. inbox[w] # << >> => Append(inbox[w], published + 1) # << >>
                               /\ Head(Append(inbox[w], published + 1)) = Head(inbox[w])
        <5> DEFINE s == inbox[w]
        <5>1. s \in Seq(Nat) /\ published + 1 \in Nat
          BY <2>1, <3>1
        <5> HIDE DEF s
        <5>2. s # << >> => Append(s, published + 1) # << >> /\ Head(Append(s, published + 1)) = Head(s)
          BY <5>1
        <5> QED BY <5>2 DEF s
      <4> QED BY <2>1, <3>1, <4>1, <4>2, <4>3 DEF Stream
    <3>3. CASE w \notin Subscribed
      BY <2>1, <3>1, <3>3 DEF Stream, Subscribed
    <3> QED BY <3>2, <3>3
  <2> QED BY <2>2, <2>3 DEF StreamInv
<1>1. ASSUME NEW w \in Sockets, Connect(w) PROVE StreamInv'
  <2>1. /\ forwarder[w] = "none" /\ forwarder \in [Sockets -> Over \cup {"starting", "listening", "waiting", "sending", "cancelled"}]
        /\ UNCHANGED <<published, inbox, received>>
        /\ \E x \in {"starting", "none"} : forwarder' = [forwarder EXCEPT ![w] = x]
    BY <1>1 DEF Connect, LiveInv, LiveTypeOK, SocketInv
  <2> QED BY <2>1 DEF StreamInv, StreamTypeOK, Stream
<1>2. ASSUME NEW w \in Sockets, Leave(w) \/ Ping(w) \/ Pong(w) \/ PongSent(w) \/ Leaving(w) PROVE StreamInv'
  <2>1. UNCHANGED <<published, forwarder, inbox, received>>
    BY <1>2 DEF Leave, Ping, Pong, PongSent, Leaving
  <2> QED BY <2>1 DEF StreamInv, StreamTypeOK
<1>3. ASSUME NEW w \in Sockets, RedisFails(w) \/ Cancelled(w) \/ Disconnected(w) PROVE StreamInv'
  <2>1. /\ UNCHANGED <<published, received>>
        /\ inbox' = inbox \/ inbox' = [inbox EXCEPT ![w] = << >>]
        /\ \E x \in Over \cup {"cancelled"} :
               forwarder' = [forwarder EXCEPT ![w] = x] /\ (x = "none" => forwarder[w] = "none")
    <3>1. CASE RedisFails(w)
      BY <3>1 DEF RedisFails, ForwarderTo, Over
    <3>2. CASE Cancelled(w)
      BY <3>2 DEF Cancelled, ForwarderTo, Over
    <3>3. CASE Disconnected(w)
      <4> DEFINE x == IF forwarder[w] \in Over THEN forwarder[w]
                      ELSE IF forwarder[w] = "starting" THEN "ended" ELSE "cancelled"
      <4>1. /\ UNCHANGED <<published, inbox, received>>
            /\ forwarder' = [forwarder EXCEPT ![w] = x]
        BY <3>3 DEF Disconnected, ForwarderTo, Over
      <4>2. x \in Over \cup {"cancelled"} /\ (x = "none" => forwarder[w] = "none")
        BY DEF Over
      <4> QED BY <4>1, <4>2
    <3> QED BY <1>3, <3>1, <3>2, <3>3
  <2>2. StreamTypeOK'
    <3>1. << >> \in Seq(Nat)
      OBVIOUS
    <3>2. inbox' \in [Sockets -> Seq(Nat)]
      BY <2>1, <3>1 DEF StreamInv, StreamTypeOK
    <3> QED BY <2>1, <3>2 DEF StreamInv, StreamTypeOK
  <2>3. Stream(published, forwarder'[w], inbox'[w], received'[w])
    BY <2>1 DEF LiveInv, LiveTypeOK, StreamInv, StreamTypeOK, Stream, Over
  <2> QED BY <2>1, <2>2, <2>3, OtherStreams DEF LiveInv, LiveTypeOK, StreamInv, StreamTypeOK
<1>4. ASSUME NEW w \in Sockets, Subscribe(w) PROVE StreamInv'
  <2>1. /\ forwarder[w] = "starting" /\ forwarder' = [forwarder EXCEPT ![w] = "listening"]
        /\ inbox' = [inbox EXCEPT ![w] = <<Confirmation>>] /\ UNCHANGED <<published, received>>
    BY <1>4 DEF Subscribe, ForwarderTo
  <2>2. StreamTypeOK'
    BY <2>1 DEF StreamInv, StreamTypeOK, Confirmation
  <2>3. received[w] = << >> /\ Consecutive(received[w]) /\ published \in Nat
    BY <2>1 DEF StreamInv, StreamTypeOK, Stream
  <2>4. UpTo(published, <<Confirmation>>, << >>)
    <3>1. Len(<<Confirmation>>) = 1 /\ DOMAIN <<Confirmation>> = {1} /\ <<Confirmation>>[1] = Confirmation
      OBVIOUS
    <3> QED BY <2>3, <3>1 DEF UpTo
  <2>5. Stream(published, forwarder'[w], inbox'[w], received'[w])
    BY <2>1, <2>3, <2>4 DEF LiveInv, LiveTypeOK, StreamInv, StreamTypeOK, Stream
  <2> QED BY <2>1, <2>2, <2>5, OtherStreams DEF LiveInv, LiveTypeOK, StreamInv, StreamTypeOK
<1>5. ASSUME NEW w \in Sockets, Listen(w) PROVE StreamInv'
  <2>1. /\ forwarder[w] = "listening" /\ inbox[w] # << >> /\ UNCHANGED <<published, received>>
        /\ published \in Nat /\ inbox[w] \in Seq(Nat) /\ received[w] \in Seq(Nat)
        /\ UpTo(published, inbox[w], received[w]) /\ Consecutive(received[w])
    BY <1>5 DEF Listen, StreamInv, StreamTypeOK, Stream
  <2>2. CASE Head(inbox[w]) = Confirmation
    <3>1. inbox' = [inbox EXCEPT ![w] = Tail(inbox[w])] /\ forwarder' = forwarder
      BY <1>5, <2>2 DEF Listen, Skips
    <3>2. StreamTypeOK'
      BY <2>1, <3>1 DEF StreamInv, StreamTypeOK
    <3>3. UpTo(published, Tail(inbox[w]), received[w])
      BY <2>1, <2>2, FirstSkipped
    <3>4. Stream(published, forwarder'[w], inbox'[w], received'[w])
      BY <2>1, <3>1, <3>3 DEF StreamInv, StreamTypeOK, Stream
    <3> QED BY <2>1, <3>1, <3>2, <3>4, OtherStreams DEF StreamInv, StreamTypeOK
  <2>3. CASE Head(inbox[w]) # Confirmation
    <3>1. inbox' = inbox /\ forwarder' = [forwarder EXCEPT ![w] = "waiting"]
      BY <1>5, <2>3 DEF Listen, ForwarderTo
    <3>2. StreamTypeOK'
      BY <2>1, <3>1 DEF StreamInv, StreamTypeOK
    <3>3. Stream(published, forwarder'[w], inbox'[w], received'[w])
      BY <2>1, <2>3, <3>1 DEF LiveInv, LiveTypeOK, Stream
    <3> QED BY <2>1, <3>1, <3>2, <3>3, OtherStreams DEF LiveInv, LiveTypeOK, StreamInv
  <2> QED BY <2>2, <2>3
<1>6. ASSUME NEW w \in Sockets, Forward(w) PROVE StreamInv'
  <2>1. /\ forwarder[w] = "waiting" /\ forwarder' = [forwarder EXCEPT ![w] = "sending"]
        /\ UNCHANGED <<published, inbox, received>>
    BY <1>6 DEF Forward, ForwarderTo
  <2> QED BY <2>1 DEF LiveInv, LiveTypeOK, StreamInv, StreamTypeOK, Stream
<1>7. ASSUME NEW w \in Sockets, Forwarded(w) PROVE StreamInv'
  <2>1. /\ forwarder[w] = "sending" /\ published' = published
        /\ inbox' = [inbox EXCEPT ![w] = Tail(inbox[w])]
        /\ published \in Nat /\ inbox[w] \in Seq(Nat) /\ received[w] \in Seq(Nat)
        /\ UpTo(published, inbox[w], received[w]) /\ Consecutive(received[w])
        /\ inbox[w] # << >> /\ Head(inbox[w]) # Confirmation
    BY <1>7 DEF Forwarded, StreamInv, StreamTypeOK, Stream
  <2>2. Head(inbox[w]) \in Nat /\ Tail(inbox[w]) \in Seq(Nat)
    BY <2>1
  <2>3. CASE w \in alive
    <3>1. /\ received' = [received EXCEPT ![w] = Append(received[w], Head(inbox[w]))]
          /\ forwarder' = [forwarder EXCEPT ![w] = "listening"]
      BY <1>7, <2>3 DEF Forwarded, ForwarderTo
    <3>2. StreamTypeOK'
      BY <2>1, <2>2, <3>1 DEF StreamInv, StreamTypeOK
    <3>3. /\ UpTo(published, Tail(inbox[w]), Append(received[w], Head(inbox[w])))
          /\ Consecutive(Append(received[w], Head(inbox[w])))
      BY <2>1, FirstReceived
    <3>4. Stream(published, forwarder'[w], inbox'[w], received'[w])
      BY <2>1, <3>1, <3>3 DEF LiveInv, LiveTypeOK, StreamInv, StreamTypeOK, Stream
    <3> QED BY <2>1, <3>1, <3>2, <3>4, OtherStreams DEF LiveInv, LiveTypeOK, StreamInv, StreamTypeOK
  <2>4. CASE w \notin alive
    <3>1. /\ received' = received
          /\ \E x \in {"ended", "failed"} : forwarder' = [forwarder EXCEPT ![w] = x]
      BY <1>7, <2>4 DEF Forwarded, ForwarderTo
    <3>2. StreamTypeOK'
      BY <2>1, <2>2, <3>1 DEF StreamInv, StreamTypeOK
    <3>3. Stream(published, forwarder'[w], inbox'[w], received'[w])
      BY <2>1, <3>1 DEF LiveInv, LiveTypeOK, Stream
    <3> QED BY <2>1, <3>1, <3>2, <3>3, OtherStreams DEF LiveInv, LiveTypeOK, StreamInv, StreamTypeOK
  <2> QED BY <2>3, <2>4
<1>8. CASE UNCHANGED vars
  BY <1>8 DEF vars, StreamInv, StreamTypeOK
<1> QED BY <1>0, <1>1, <1>2, <1>3, <1>4, <1>5, <1>6, <1>7, <1>8 DEF Next, HandlerStep, ForwarderStep

(* NoEventSkipped: a client gets every event, once and in order, from the    *)
(* first it gets, whatever joins, leaves or fails meanwhile, for any number  *)
(* of sockets, events and pings (endpoint.py:46-66, subscriber.py:22-41).    *)
THEOREM EventsInOrder == Spec => []NoEventSkipped
<1>1. StreamInv => NoEventSkipped
  <2> SUFFICES ASSUME StreamInv, NEW w \in Sockets
               PROVE  /\ Consecutive(received[w])
                      /\ w \in Subscribed /\ inbox[w] = << >> /\ received[w] # << >> =>
                             received[w][Len(received[w])] = published
    BY DEF NoEventSkipped, Consecutive
  <2>1. Stream(published, forwarder[w], inbox[w], received[w]) /\ received[w] \in Seq(Nat) /\ published \in Nat
    BY DEF StreamInv, StreamTypeOK
  <2>2. ASSUME w \in Subscribed, inbox[w] = << >>, received[w] # << >>
        PROVE  received[w][Len(received[w])] = published
    <3>1. received[w][Len(received[w])] + Len(<< >>) = published
      BY <2>1, <2>2 DEF Stream, Subscribed, UpTo
    <3>2. received[w][Len(received[w])] \in Nat /\ Len(<< >>) = 0
      BY <2>1, <2>2
    <3> QED BY <3>1, <3>2
  <2> QED BY <2>1, <2>2 DEF Stream
<1> QED BY <1>1, LiveInvariant, StreamInvInit, StreamInvNext, PTL DEF Spec
=============================================================================
