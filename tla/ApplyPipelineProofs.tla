------------------------ MODULE ApplyPipelineProofs ------------------------
(***************************************************************************)
(* Proofs about ApplyPipeline for every set of rows and requests, every    *)
(* MaxTries and every set of faults.  PipelineInv is shown inductive one   *)
(* action at a time; the safety theorems and the refinement of             *)
(* ApplyContract follow from it, and StuckInv is inductive relative to it. *)
(***************************************************************************)
EXTENDS ApplyPipeline, TLAPS

USE PipelineAssumption DEF FaultKinds

-----------------------------------------------------------------------------
(* Types. *)

(* The table a session writes is a table, whatever it holds. *)
LEMMA WrittenType ==
    ASSUME TypeOK, NEW S \in SUBSET Apps, NEW held \in [Apps -> Statuses \cup {"absent"}],
           NEW v \in Statuses
    PROVE  Written(S, held, v) \in [Apps -> Statuses \cup {"absent"}]
  BY DEF Written, TypeOK

(* Starting, continuing and ending a request keep its variables typed. *)
RequestsOK == /\ op \in [Clients -> {"idle", "dispatch", "approve", "update"}]
              /\ todo \in [Clients -> SUBSET Apps]
              /\ enq \in [Clients -> SUBSET Apps]
              /\ seen \in [Clients -> [Apps -> Statuses \cup {"absent"}]]

LEMMA BeginType ==
    ASSUME RequestsOK, NEW c \in Clients,
           NEW kind \in {"idle", "dispatch", "approve", "update"},
           NEW S \in SUBSET Apps,
           NEW table \in [Apps -> Statuses \cup {"absent"}],
           Begin(c, kind, S, table)
    PROVE  RequestsOK'
<1>1. Snapshot(S, table) \in [Apps -> Statuses \cup {"absent"}]
  BY DEF Snapshot
<1>2. QED
  BY <1>1 DEF Begin, RequestsOK

LEMMA RespondType ==
    ASSUME RequestsOK, NEW c \in Clients, Respond(c)
    PROVE  RequestsOK'
<1>1. Nothing \in [Apps -> Statuses \cup {"absent"}]
  BY DEF Nothing
<1>2. QED
  BY <1>1 DEF Respond, RequestsOK

LEMMA ProceedType ==
    ASSUME RequestsOK, NEW c \in Clients, NEW S \in SUBSET Apps, NEW E \in SUBSET Apps,
           Proceed(c, S, E)
    PROVE  RequestsOK'
<1>1. CASE S \cup E = {}
  BY <1>1, RespondType DEF Proceed
<1>2. CASE S \cup E # {}
  BY <1>2 DEF Proceed, RequestsOK
<1>3. QED
  BY <1>1, <1>2

(* The worker's own commits. *)
LEMMA WorkerCommitsType ==
    ASSUME TypeOK, NEW a \in Apps, NEW v \in Statuses,
           NEW next \in {"announce", "exit"},
           WorkerCommits(a, v, next)
    PROVE  /\ status' \in [Apps -> Statuses \cup {"absent"}]
           /\ copy' \in [Apps -> Statuses \cup {"absent"}]
           /\ stage' \in [Apps -> {"none", "load", "gate", "announce", "submit", "sent",
                                   "confirm", "fail", "exit"}]
<1>1. Written({a}, copy, v) \in [Apps -> Statuses \cup {"absent"}]
  <2>1. {a} \in SUBSET Apps /\ copy \in [Apps -> Statuses \cup {"absent"}]
    BY DEF TypeOK
  <2> QED BY <2>1, WrittenType
<1>2. CASE Unique(Written({a}, copy, v))
  <2>1. /\ status' = Written({a}, copy, v)
        /\ copy' = [copy EXCEPT ![a] = v]
        /\ stage' = [stage EXCEPT ![a] = next]
    BY <1>2 DEF WorkerCommits, GoTo
  <2>2. QED
    BY <1>1, <2>1 DEF TypeOK
<1>3. CASE ~Unique(Written({a}, copy, v))
  BY <1>3 DEF WorkerCommits, GoTo, TypeOK
<1>4. QED
  BY <1>2, <1>3

LEMMA NextType == TypeOK /\ [Next]_vars => TypeOK'
<1> SUFFICES ASSUME TypeOK, [Next]_vars PROVE TypeOK'
  OBVIOUS
<1>r. RequestsOK
  BY DEF TypeOK, RequestsOK
<1>s. {"queued", "pending_review", "approved", "applying", "applied", "failed"}
         \subseteq Statuses
  BY DEF Statuses, Terminal, Staged
<1>1. ASSUME NEW c \in Clients, NEW S \in SUBSET Apps, Insert(c, S) PROVE TypeOK'
  <2> DEFINE table == [a \in Apps |-> IF a \in S THEN "queued" ELSE status[a]]
  <2>1. table \in [Apps -> Statuses \cup {"absent"}]
    BY <1>s DEF TypeOK
  <2>2. status' = table /\ Begin(c, "dispatch", S, Nothing)
    BY <1>1 DEF Insert
  <2>3. RequestsOK'
    BY <1>r, <2>2, BeginType DEF Nothing
  <2>4. QED
    BY <1>1, <2>1, <2>2, <2>3 DEF Insert, TypeOK, RequestsOK, history, queue, runs
<1>2. ASSUME NEW c \in Clients, NEW a \in Apps,
             CreateExisting(c, a) \/ UpdateRead(c, a)
      PROVE  TypeOK'
  <2>1. PICK kind \in {"dispatch", "update"} : Begin(c, kind, {a}, status)
    BY <1>2 DEF CreateExisting, UpdateRead
  <2>2. RequestsOK'
    <3>1. /\ kind \in {"idle", "dispatch", "approve", "update"}
          /\ {a} \in SUBSET Apps
          /\ status \in [Apps -> Statuses \cup {"absent"}]
      BY DEF TypeOK
    <3>2. QED
      BY <1>r, <2>1, <3>1, BeginType
  <2>3. QED
    BY <1>2, <2>2 DEF CreateExisting, UpdateRead, TypeOK, RequestsOK, rows, queue, runs
<1>3. ASSUME NEW c \in Clients, NEW S \in SUBSET Apps, ApproveRead(c, S) PROVE TypeOK'
  <2>1. RequestsOK'
    BY <1>r, <1>3, BeginType DEF ApproveRead, TypeOK
  <2>2. QED
    BY <1>3, <2>1 DEF ApproveRead, TypeOK, RequestsOK, rows, queue, runs
<1>r4. ASSUME NEW c \in Clients, NEW a \in Apps, Refresh(c, a) PROVE TypeOK'
  BY <1>r4 DEF Refresh, TypeOK, rows, queue, runs
<1>4. ASSUME NEW c \in Clients, NEW a \in Apps, Dispatch(c, a) PROVE TypeOK'
  <2> DEFINE v == IF a \in Autonomous THEN "queued" ELSE "pending_review"
             table == Written({a}, seen[c], v)
  <2>1. table \in [Apps -> Statuses \cup {"absent"}]
    <3>1. seen[c] \in [Apps -> Statuses \cup {"absent"}] /\ v \in Statuses
      BY <1>s DEF TypeOK
    <3>2. QED
      BY <3>1, WrittenType
  <2>2. status' \in [Apps -> Statuses \cup {"absent"}]
    BY <1>4, <2>1 DEF Dispatch, TypeOK
  <2>3. RequestsOK'
    <3>1. todo[c] \ {a} \in SUBSET Apps /\ (IF a \in Autonomous THEN {a} ELSE {}) \in SUBSET Apps
      BY DEF TypeOK
    <3>2. CASE Unique(table)
      BY <1>4, <1>r, <3>1, <3>2, ProceedType DEF Dispatch
    <3>3. CASE ~Unique(table)
      BY <1>4, <1>r, <3>3, RespondType DEF Dispatch
    <3>4. QED
      BY <3>2, <3>3
  <2>4. QED
    BY <1>4, <2>2, <2>3 DEF Dispatch, TypeOK, RequestsOK, history, queue, runs
<1>5. ASSUME NEW c \in Clients, ApproveCommit(c) PROVE TypeOK'
  <2> DEFINE table == Written(todo[c], seen[c], "approved")
  <2>1. table \in [Apps -> Statuses \cup {"absent"}]
    <3>1. seen[c] \in [Apps -> Statuses \cup {"absent"}] /\ todo[c] \in SUBSET Apps
      BY DEF TypeOK
    <3>2. QED
      BY <3>1, <1>s, WrittenType
  <2>2. /\ status' \in [Apps -> Statuses \cup {"absent"}]
        /\ approved' \in SUBSET Apps
    BY <1>5, <2>1 DEF ApproveCommit, TypeOK
  <2>3. RequestsOK'
    <3>1. todo[c] \in SUBSET Apps
      BY DEF TypeOK
    <3>2. CASE Unique(table)
      BY <1>5, <1>r, <3>1, <3>2, ProceedType DEF ApproveCommit
    <3>3. CASE ~Unique(table)
      BY <1>5, <1>r, <3>3, RespondType DEF ApproveCommit
    <3>4. QED
      BY <3>2, <3>3
  <2>4. QED
    BY <1>5, <2>2, <2>3 DEF ApproveCommit, TypeOK, RequestsOK, queue, runs
<1>6. ASSUME NEW c \in Clients, NEW a \in Apps, Enqueue(c, a) PROVE TypeOK'
  <2>1. RequestsOK'
    <3>1. todo[c] \in SUBSET Apps /\ enq[c] \ {a} \in SUBSET Apps
      BY DEF TypeOK
    <3>2. QED
      BY <1>6, <1>r, <3>1, ProceedType DEF Enqueue
  <2>2. /\ arq' \in [Apps -> {"none", "queued", "running", "result"}]
        /\ tries' \in [Apps -> 0 .. MaxTries]
        /\ sends' \in [Apps -> Nat]
    <3>1. CASE arq[a] = "none"
      <4>1. /\ arq' = [arq EXCEPT ![a] = "queued"]
            /\ tries' = [tries EXCEPT ![a] = 0]
            /\ sends' = [sends EXCEPT ![a] = 0]
        BY <1>6, <3>1 DEF Enqueue
      <4>2. QED
        BY <4>1 DEF TypeOK
    <3>2. CASE arq[a] # "none"
      BY <1>6, <3>2 DEF Enqueue, TypeOK
    <3>3. QED
      BY <3>1, <3>2
  <2>3. QED
    BY <1>6, <2>1, <2>2 DEF Enqueue, TypeOK, RequestsOK, rows
<1>u. ASSUME NEW c \in Clients, NEW a \in Apps, EnqueueUnavailable(c, a) PROVE TypeOK'
  <2>1. RequestsOK'
    <3>1. todo[c] \in SUBSET Apps /\ enq[c] \ {a} \in SUBSET Apps
      BY DEF TypeOK
    <3>2. QED
      BY <1>u, <1>r, <3>1, ProceedType DEF EnqueueUnavailable
  <2>2. QED
    BY <1>u, <2>1 DEF EnqueueUnavailable, TypeOK, RequestsOK, rows, queue, runs
<1>7. ASSUME NEW c \in Clients, UpdateCommit(c) PROVE TypeOK'
  <2>1. PICK v \in UserStatuses :
          LET table == Written(todo[c], seen[c], v)
          IN  status' = IF Unique(table) THEN table ELSE status
    BY <1>7 DEF UpdateCommit
  <2>2. seen[c] \in [Apps -> Statuses \cup {"absent"}] /\ todo[c] \in SUBSET Apps
    BY DEF TypeOK
  <2>3. Written(todo[c], seen[c], v) \in [Apps -> Statuses \cup {"absent"}]
    BY <2>2, WrittenType
  <2>4. status' \in [Apps -> Statuses \cup {"absent"}]
    BY <2>1, <2>3 DEF TypeOK
  <2>5. RequestsOK'
    BY <1>7, <1>r, RespondType DEF UpdateCommit
  <2>6. QED
    BY <1>7, <2>4, <2>5 DEF UpdateCommit, TypeOK, RequestsOK, history, queue, runs
<1>8. ASSUME NEW c \in Clients, ApiFails(c) PROVE TypeOK'
  <2>1. RequestsOK'
    BY <1>8, <1>r, RespondType DEF ApiFails
  <2>2. QED
    BY <1>8, <2>1 DEF ApiFails, TypeOK, RequestsOK, rows, queue, runs
<1>9. ASSUME NEW a \in Apps, Start(a) \/ GiveUp(a) \/ Finish(a) \/ Expire(a) PROVE TypeOK'
  <2>1. CASE Start(a)
    <3>1. tries[a] + 1 \in 0 .. MaxTries
      BY <2>1 DEF Start, TypeOK
    <3>2. QED
      BY <2>1, <3>1 DEF Start, TypeOK, rows, requests
  <2>2. CASE GiveUp(a) \/ Expire(a)
    BY <2>2 DEF GiveUp, Expire, TypeOK, rows, requests, runs
  <2>3. CASE Finish(a)
    BY <2>3 DEF Finish, RunsNothing, TypeOK, rows, requests
  <2>4. QED
    BY <1>9, <2>1, <2>2, <2>3
<1>10. ASSUME NEW a \in Apps, Load(a) PROVE TypeOK'
  <2>1. /\ \E next \in {"gate", "exit"} : stage' = [stage EXCEPT ![a] = next]
        /\ copy' = copy \/ copy' = [copy EXCEPT ![a] = status[a]]
    BY <1>10 DEF Load, GoTo
  <2> QED BY <1>10, <2>1 DEF Load, TypeOK, rows, history, requests, queue
<1>11. ASSUME NEW a \in Apps,
              \/ GateBlocks(a) \/ Announce(a) \/ AnnounceRaises(a)
              \/ Reported(a) \/ Permanent(a)
       PROVE  TypeOK'
  <2>1. CASE GateBlocks(a) \/ Announce(a)
    BY <2>1 DEF GateBlocks, Announce, GoTo, TypeOK, rows, history, requests, queue
  <2>2. CASE AnnounceRaises(a)
    BY <2>2 DEF AnnounceRaises, GoTo, TypeOK, rows, history, requests, queue
  <2>3. CASE Reported(a) \/ Permanent(a)
    BY <2>3 DEF Reported, Permanent, GoTo, TypeOK, rows, history, requests, queue
  <2>4. QED
    BY <1>11, <2>1, <2>2, <2>3
<1>12. ASSUME NEW a \in Apps, Mark(a) \/ Confirm(a) \/ MarkFailed(a) PROVE TypeOK'
  <2>1. PICK v \in {"applying", "applied", "failed"}, next \in {"announce", "exit"} :
          WorkerCommits(a, v, next)
    BY <1>12 DEF Mark, Confirm, MarkFailed
  <2>2. /\ status' \in [Apps -> Statuses \cup {"absent"}]
        /\ copy' \in [Apps -> Statuses \cup {"absent"}]
        /\ stage' \in [Apps -> {"none", "load", "gate", "announce", "submit", "sent",
                                "confirm", "fail", "exit"}]
    BY <1>s, <2>1, WorkerCommitsType
  <2>3. QED
    BY <1>12, <2>2 DEF Mark, Confirm, MarkFailed, TypeOK, history, requests, queue
<1>13. ASSUME NEW a \in Apps, Crash(a) \/ Transient(a) PROVE TypeOK'
  <2>1. CASE Crash(a)
    BY <2>1 DEF Crash, GoTo, RunsNothing, TypeOK, rows, history, requests
  <2>2. CASE Transient(a)
    <3>1. /\ arq' = arq \/ arq' = [arq EXCEPT ![a] = "queued"]
          /\ copy' = copy \/ copy' = [copy EXCEPT ![a] = "absent"]
          /\ \E s \in {"fail", "none"} : stage' = [stage EXCEPT ![a] = s]
      BY <2>2 DEF Transient, GoTo, RunsNothing
    <3> QED BY <2>2, <3>1 DEF Transient, TypeOK, rows, history, requests
  <2> QED BY <1>13, <2>1, <2>2
<1>14. ASSUME NEW a \in Apps, Timeout(a) \/ Shutdown(a) PROVE TypeOK'
  <2>1. Written({a}, copy, "failed") \in [Apps -> Statuses \cup {"absent"}]
    <3>1. {a} \in SUBSET Apps /\ copy \in [Apps -> Statuses \cup {"absent"}]
      BY DEF TypeOK
    <3>2. "failed" \in Statuses
      BY <1>s
    <3> QED BY <3>1, <3>2, WrittenType
  <2>2. status' \in [Apps -> Statuses \cup {"absent"}]
    BY <1>14, <2>1 DEF Timeout, Shutdown, Cancelled, TypeOK
  <2>3. CASE Timeout(a)
    BY <2>2, <2>3 DEF Timeout, GoTo, TypeOK, history, requests, queue
  <2>4. CASE Shutdown(a)
    BY <2>2, <2>4 DEF Shutdown, RunsNothing, TypeOK, history, requests
  <2>5. QED
    BY <1>14, <2>3, <2>4
<1>15. ASSUME NEW a \in Apps, Send(a) PROVE TypeOK'
  BY <1>15 DEF Send, GoTo, TypeOK, rows, requests, queue
<1>16. CASE UNCHANGED vars
  BY <1>16 DEF vars, TypeOK
<1>17. ASSUME NEW c \in Clients, Request(c) \/ Handle(c) \/ ApiFails(c) PROVE TypeOK'
  BY <1>17, <1>1, <1>2, <1>3, <1>4, <1>5, <1>6, <1>7, <1>8, <1>r4, <1>u DEF Request, Handle
<1>18. ASSUME NEW a \in Apps, Work(a) \/ Expire(a) \/ Fault(a) PROVE TypeOK'
  BY <1>18, <1>9, <1>10, <1>11, <1>12, <1>13, <1>14, <1>15 DEF Work, Fault
<1>19. QED
  BY <1>16, <1>17, <1>18 DEF Next

(* TypeOK: the state stays within its types whatever the faults. *)
THEOREM TypeCorrect == Spec => []TypeOK
<1>1. Init => TypeOK
  BY DEF Nothing, Init, TypeOK
<1>2. QED
  BY <1>1, NextType, PTL DEF Spec

-----------------------------------------------------------------------------
(* One active row per job. *)

(* A status only changes under the eye of the index, or falls to FAILED. *)
LEMMA StatusStep ==
    ASSUME [Next]_vars
    PROVE  \/ status' = status
           \/ Unique(status')
           \/ \E a \in Apps : status' = Written({a}, copy, "failed")
<1>1. ASSUME NEW c \in Clients, Request(c) \/ Handle(c) \/ ApiFails(c)
      PROVE  status' = status \/ Unique(status')
  BY <1>1 DEF Request, Handle, ApiFails, Insert, ApproveRead, CreateExisting, UpdateRead,
              Refresh, Dispatch, Enqueue, EnqueueUnavailable, ApproveCommit, UpdateCommit, rows
<1>2. ASSUME NEW a \in Apps, Mark(a) \/ Confirm(a) \/ MarkFailed(a)
      PROVE  status' = status \/ Unique(status')
  BY <1>2 DEF Mark, Confirm, MarkFailed, WorkerCommits
<1>3. ASSUME NEW a \in Apps, Timeout(a) \/ Shutdown(a)
      PROVE  status' = status \/ status' = Written({a}, copy, "failed")
  BY <1>3 DEF Timeout, Shutdown, Cancelled
<1>4. ASSUME NEW a \in Apps, Work(a) \/ Expire(a) \/ Fault(a),
             ~(Mark(a) \/ Confirm(a) \/ MarkFailed(a) \/ Timeout(a) \/ Shutdown(a))
      PROVE  status' = status
  BY <1>4 DEF Work, Fault, Start, GiveUp, Finish, Expire, Load, GateBlocks, Announce,
              AnnounceRaises, Send, Reported, Transient, Permanent, Crash, rows
<1>5. QED
  BY <1>1, <1>2, <1>3, <1>4 DEF Next, vars

(* A request writes the status it is about, and touches no run.              *)
LEMMA RequestWrites ==
    ASSUME NEW c \in Clients, Request(c) \/ Handle(c) \/ ApiFails(c), NEW b \in Apps,
           TypeOK
    PROVE  /\ stage' = stage
           /\ \/ status'[b] = status[b]
              \/ status'[b] \in {"queued", "pending_review", "approved"} \cup UserStatuses
<1>1. ASSUME NEW S \in SUBSET Apps, Insert(c, S)
      PROVE  stage' = stage /\ (status'[b] = status[b] \/ status'[b] = "queued")
  BY <1>1 DEF Insert, runs
<1>2. ASSUME NEW a \in Apps, Dispatch(c, a)
      PROVE  stage' = stage /\ (status'[b] = status[b] \/ status'[b] \in {"queued", "pending_review"})
  BY <1>2 DEF Dispatch, Written, runs
<1>3. ASSUME ApproveCommit(c)
      PROVE  stage' = stage /\ (status'[b] = status[b] \/ status'[b] = "approved")
  BY <1>3 DEF ApproveCommit, Written, runs
<1>4. ASSUME UpdateCommit(c)
      PROVE  stage' = stage /\ (status'[b] = status[b] \/ status'[b] \in UserStatuses)
  BY <1>4 DEF UpdateCommit, Written, runs
<1>5. ASSUME \/ \E S \in SUBSET Apps : ApproveRead(c, S)
             \/ \E a \in Apps : CreateExisting(c, a) \/ UpdateRead(c, a) \/ Refresh(c, a)
             \/ ApiFails(c)
      PROVE  stage' = stage /\ status' = status
  BY <1>5 DEF ApproveRead, CreateExisting, UpdateRead, Refresh, ApiFails, rows, runs
<1>6. ASSUME NEW a \in Apps, Enqueue(c, a) \/ EnqueueUnavailable(c, a)
      PROVE  stage' = stage /\ status' = status
  BY <1>6 DEF Enqueue, EnqueueUnavailable, rows, runs
<1> QED BY <1>1, <1>2, <1>3, <1>4, <1>5, <1>6 DEF Request, Handle

LEMMA FailingKeepsUnique ==
    ASSUME NEW a \in Apps, Unique(status)
    PROVE  Unique(Written({a}, copy, "failed"))
  BY DEF Unique, Written, Active, Terminal

LEMMA UniqueStep == UniqueActive /\ [Next]_vars => UniqueActive'
<1> SUFFICES ASSUME UniqueActive, [Next]_vars PROVE Unique(status')
  BY DEF UniqueActive, Unique
<1>1. QED
  BY StatusStep, FailingKeepsUnique DEF UniqueActive

-----------------------------------------------------------------------------
(* Runs and tries. *)

RunInv == \A a \in Apps :
            /\ stage[a] # "none" <=> arq[a] = "running"
            /\ sends[a] <= tries[a]
            /\ stage[a] \in {"load", "gate", "announce", "submit"} => sends[a] < tries[a]

LEMMA RunStep == TypeOK /\ RunInv /\ [Next]_vars => RunInv'
<1> SUFFICES ASSUME TypeOK, RunInv, [Next]_vars PROVE RunInv'
  OBVIOUS
<1> USE DEF TypeOK, RunInv
<1>1. ASSUME NEW c \in Clients, \/ Request(c) \/ ApiFails(c) \/ ApproveCommit(c)
                               \/ UpdateCommit(c)
                               \/ \E a \in Apps : \/ Refresh(c, a) \/ Dispatch(c, a)
                                                 \/ EnqueueUnavailable(c, a)
      PROVE  RunInv'
  <2>1. UNCHANGED <<queue, runs>>
    BY <1>1 DEF Request, Insert, ApproveRead, CreateExisting, UpdateRead, ApiFails,
                ApproveCommit, UpdateCommit, Refresh, Dispatch, EnqueueUnavailable
  <2>2. QED
    BY <2>1 DEF queue, runs
<1>2. ASSUME NEW c \in Clients, NEW a \in Apps, Enqueue(c, a) PROVE RunInv'
  <2>1. CASE arq[a] = "none"
    <3>1. /\ arq' = [arq EXCEPT ![a] = "queued"]
          /\ tries' = [tries EXCEPT ![a] = 0]
          /\ sends' = [sends EXCEPT ![a] = 0]
          /\ stage' = stage
      BY <1>2, <2>1 DEF Enqueue
    <3>2. QED
      BY <2>1, <3>1
  <2>2. CASE arq[a] # "none"
    BY <1>2, <2>2 DEF Enqueue
  <2>3. QED
    BY <2>1, <2>2
<1>3. ASSUME NEW a \in Apps, Start(a) PROVE RunInv'
  BY <1>3 DEF Start
<1>4. ASSUME NEW a \in Apps, GiveUp(a) \/ Expire(a) PROVE RunInv'
  BY <1>4 DEF GiveUp, Expire, runs
<1>5. ASSUME NEW a \in Apps, Finish(a) \/ Crash(a) \/ Shutdown(a) PROVE RunInv'
  BY <1>5 DEF Finish, Crash, Shutdown, RunsNothing
<1>6. ASSUME NEW a \in Apps, Transient(a) PROVE RunInv'
  BY <1>6 DEF Transient, Submitting, GoTo, RunsNothing
<1>7. ASSUME NEW a \in Apps, Send(a) PROVE RunInv'
  BY <1>7 DEF Send, GoTo, queue
<1>8. ASSUME NEW a \in Apps,
             \/ Load(a) \/ GateBlocks(a) \/ Announce(a) \/ AnnounceRaises(a)
             \/ Reported(a) \/ Permanent(a) \/ Timeout(a)
      PROVE  RunInv'
  BY <1>8 DEF Load, GateBlocks, Announce, AnnounceRaises, Reported, Permanent, Timeout,
              Submitting, GoTo, queue
<1>9. ASSUME NEW a \in Apps, Mark(a) \/ Confirm(a) \/ MarkFailed(a) PROVE RunInv'
  BY <1>9 DEF Mark, Confirm, MarkFailed, WorkerCommits, GoTo, queue
<1>10. CASE UNCHANGED vars
  BY <1>10 DEF vars
<1>11. QED
  BY <1>1, <1>2, <1>3, <1>4, <1>5, <1>6, <1>7, <1>8, <1>9, <1>10
     DEF Next, Handle, Work, Fault

-----------------------------------------------------------------------------
(* Consent. *)

ConsentInv == /\ HumanGate
              /\ \A c \in Clients : enq[c] \subseteq Autonomous \cup approved

LEMMA ProceedEnq ==
    ASSUME NEW c \in Clients, NEW S, NEW E, Proceed(c, S, E)
    PROVE  enq' = [enq EXCEPT ![c] = E]
  BY DEF Proceed, Respond

LEMMA ConsentStep == TypeOK /\ RunInv /\ ConsentInv /\ [Next]_vars => ConsentInv'
<1> SUFFICES ASSUME TypeOK, RunInv, ConsentInv, [Next]_vars PROVE ConsentInv'
  OBVIOUS
<1> USE DEF ConsentInv, HumanGate, Pending
<1>r. ASSUME NEW c \in Clients, NEW a \in Apps, Refresh(c, a) PROVE ConsentInv'
  BY <1>r DEF Refresh, rows, queue
<1>1. ASSUME NEW c \in Clients, Request(c) \/ ApiFails(c) PROVE ConsentInv'
  <2>1. arq' = arq /\ approved' = approved
    BY <1>1 DEF Request, Insert, ApproveRead, CreateExisting, UpdateRead, ApiFails,
                rows, history, queue
  <2>2. enq' = enq \/ enq' = [enq EXCEPT ![c] = {}]
    BY <1>1 DEF Request, Insert, ApproveRead, CreateExisting, UpdateRead, Begin,
                ApiFails, Respond
  <2>3. QED
    BY <2>1, <2>2 DEF TypeOK
<1>2. ASSUME NEW c \in Clients, NEW a \in Apps, Dispatch(c, a) PROVE ConsentInv'
  <2>1. arq' = arq /\ approved' = approved
    BY <1>2 DEF Dispatch, history, queue
  <2>2. \/ enq' = [enq EXCEPT ![c] = {}]
        \/ a \in Autonomous /\ enq' = [enq EXCEPT ![c] = {a}]
    BY <1>2, ProceedEnq DEF Dispatch, Respond
  <2>3. QED
    BY <2>1, <2>2 DEF TypeOK
<1>3. ASSUME NEW c \in Clients, ApproveCommit(c) PROVE ConsentInv'
  <2>1. arq' = arq
    BY <1>3 DEF ApproveCommit, queue
  <2>2. \/ approved' = approved /\ enq' = [enq EXCEPT ![c] = {}]
        \/ approved' = approved \cup todo[c] /\ enq' = [enq EXCEPT ![c] = todo[c]]
    BY <1>3, ProceedEnq DEF ApproveCommit, Respond
  <2>3. QED
    BY <2>1, <2>2 DEF TypeOK
<1>4. ASSUME NEW c \in Clients, NEW a \in Apps, Enqueue(c, a) PROVE ConsentInv'
  <2>1. approved' = approved /\ enq' = [enq EXCEPT ![c] = enq[c] \ {a}]
    BY <1>4, ProceedEnq DEF Enqueue, rows
  <2>2. a \in Autonomous \cup approved
    BY <1>4 DEF Enqueue
  <2>3. arq' = arq \/ arq' = [arq EXCEPT ![a] = "queued"]
    BY <1>4 DEF Enqueue
  <2>4. QED
    BY <2>1, <2>2, <2>3 DEF TypeOK
<1>u. ASSUME NEW c \in Clients, NEW a \in Apps, EnqueueUnavailable(c, a) PROVE ConsentInv'
  <2>1. /\ enq' = [enq EXCEPT ![c] = enq[c] \ {a}]
        /\ arq' = arq /\ approved' = approved
    BY <1>u, ProceedEnq DEF EnqueueUnavailable, rows, queue
  <2>2. QED
    BY <2>1 DEF TypeOK
<1>5. ASSUME NEW c \in Clients, UpdateCommit(c) PROVE ConsentInv'
  <2>1. arq' = arq /\ approved' = approved /\ enq' = [enq EXCEPT ![c] = {}]
    BY <1>5 DEF UpdateCommit, Respond, history, queue
  <2>2. QED
    BY <2>1 DEF TypeOK
<1>6. ASSUME NEW a \in Apps, Work(a) \/ Expire(a) \/ Fault(a) PROVE ConsentInv'
  <2>1. approved' = approved /\ enq' = enq
    BY <1>6 DEF Work, Fault, Start, GiveUp, Finish, Expire, Load, GateBlocks, Mark, Announce,
                AnnounceRaises, Send, Reported, Transient, Permanent, Confirm, MarkFailed,
                Timeout, Shutdown, Crash, rows, history, requests
  <2>2. \/ arq' = arq
        \/ Pending(a) /\ arq' = [arq EXCEPT ![a] = "running"]
        \/ arq' = [arq EXCEPT ![a] = "result"]
        \/ arq' = [arq EXCEPT ![a] = "none"]
        \/ stage[a] # "none" /\ arq' = [arq EXCEPT ![a] = "queued"]
    BY <1>6 DEF Work, Fault, Start, GiveUp, Finish, Expire, Load, GateBlocks, Mark, Announce,
                AnnounceRaises, Send, Reported, Transient, Submitting, Permanent, Confirm,
                MarkFailed, Timeout, Shutdown, Crash, queue
  <2>3. QED
    BY <2>1, <2>2 DEF TypeOK, RunInv
<1>7. CASE UNCHANGED vars
  BY <1>7 DEF vars
<1>8. QED
  BY <1>1, <1>2, <1>3, <1>4, <1>5, <1>6, <1>7, <1>r, <1>u DEF Next, Handle

-----------------------------------------------------------------------------
(* PipelineInv and what it gives. *)

LEMMA PipelineInvParts ==
    PipelineInv <=> TypeOK /\ UniqueActive /\ ConsentInv /\ RunInv
  BY DEF PipelineInv, ConsentInv, RunInv

(* PipelineInv is an invariant. *)
THEOREM PipelineInvariant == Spec => []PipelineInv
<1>1. Init => PipelineInv
  <2>1. Init => TypeOK
    BY DEF Nothing, Init, TypeOK
  <2>2. Init => UniqueActive
    BY DEF Init, UniqueActive, Unique, Active, Nothing
  <2>3. Init => ConsentInv /\ RunInv
    BY DEF Init, ConsentInv, HumanGate, Pending, RunInv
  <2>4. QED
    BY <2>1, <2>2, <2>3, PipelineInvParts
<1>2. PipelineInv /\ [Next]_vars => PipelineInv'
  <2>1. TypeOK' /\ UniqueActive' /\ ConsentInv' /\ RunInv' => PipelineInv'
    BY DEF PipelineInv, ConsentInv, RunInv
  <2>2. QED
    BY <2>1, PipelineInvParts, NextType, UniqueStep, ConsentStep, RunStep
<1>3. QED
  BY <1>1, <1>2, PTL DEF Spec

(* HumanGate: no fault, race or repetition of requests hands the worker a    *)
(* row that is neither autonomous nor approved.                              *)
THEOREM HumanGateHolds == Spec => []HumanGate
<1>1. PipelineInv => HumanGate
  BY DEF PipelineInv
<1>2. QED
  BY <1>1, PipelineInvariant, PTL

-----------------------------------------------------------------------------
(* What the index refuses goes no further. *)

(* A run at the site holds APPLYING, which its own commit put there. *)
Marked == \A a \in Apps : stage[a] \in {"announce", "submit", "sent", "confirm"}
                              => copy[a] = "applying"

LEMMA MarkedStep == TypeOK /\ Marked /\ [Next]_vars => Marked'
<1> SUFFICES ASSUME TypeOK, Marked, [Next]_vars PROVE Marked'
  OBVIOUS
<1> USE DEF TypeOK, Marked
<1>1. ASSUME NEW c \in Clients, Request(c) \/ Handle(c) \/ ApiFails(c) PROVE Marked'
  <2>1. stage' = stage /\ copy' = copy
    BY <1>1 DEF Request, Handle, ApiFails, Insert, ApproveRead, CreateExisting, UpdateRead,
                Refresh, Dispatch, Enqueue, EnqueueUnavailable, ApproveCommit, UpdateCommit,
                runs
  <2>2. QED
    BY <2>1
<1>2. ASSUME NEW a \in Apps,
             \/ Start(a) \/ GiveUp(a) \/ Finish(a) \/ Expire(a) \/ Load(a) \/ GateBlocks(a)
             \/ Announce(a) \/ AnnounceRaises(a) \/ Send(a) \/ Reported(a) \/ Transient(a)
             \/ Permanent(a) \/ Timeout(a) \/ Shutdown(a) \/ Crash(a)
      PROVE  Marked'
  BY <1>2 DEF Start, GiveUp, Finish, Expire, Load, GateBlocks, Announce, AnnounceRaises,
              Send, Reported, Transient, Permanent, Timeout, Shutdown, Crash, Submitting,
              RunsNothing, GoTo, runs
<1>3. ASSUME NEW a \in Apps, Mark(a) \/ Confirm(a) \/ MarkFailed(a) PROVE Marked'
  BY <1>3 DEF Mark, Confirm, MarkFailed, WorkerCommits, GoTo
<1>4. CASE UNCHANGED vars
  BY <1>4 DEF vars
<1>5. QED
  BY <1>1, <1>2, <1>3, <1>4 DEF Next, Work, Fault

(* TwoRunsMeanOverridden: whatever retries, redeliveries, re-creations and   *)
(* faults do, two runs are at the site for one job only if some request      *)
(* wrote over the APPLYING of one of them.                                   *)
THEOREM TwoRunsNeedAnOverride == Spec => []TwoRunsMeanOverridden
<1>1. Init => Marked
  BY DEF Init, Marked
<1>2. UniqueActive /\ Marked => TwoRunsMeanOverridden
  BY DEF UniqueActive, Unique, Marked, TwoRunsMeanOverridden, Submitting, Active, Terminal
<1>3. PipelineInv => TypeOK /\ UniqueActive
  BY DEF PipelineInv
<1>4. QED
  BY <1>1, <1>2, <1>3, MarkedStep, PipelineInvariant, PTL DEF Spec

(* An approval holds the staged rows it read. *)
StagedInv == \A c \in Clients : op[c] = "approve" =>
                 \A a \in todo[c] : seen[c][a] \in Staged

LEMMA StagedStep == TypeOK /\ StagedInv /\ [Next]_vars => StagedInv'
<1> SUFFICES ASSUME TypeOK, StagedInv, [Next]_vars PROVE StagedInv'
  OBVIOUS
<1> USE DEF TypeOK, StagedInv
<1>1. ASSUME NEW c \in Clients, NEW S \in SUBSET Apps, ApproveRead(c, S) PROVE StagedInv'
  BY <1>1 DEF ApproveRead, Begin, Snapshot
<1>2. ASSUME NEW c \in Clients, Request(c) PROVE StagedInv'
  <2>1. ASSUME NEW S \in SUBSET Apps, Insert(c, S) PROVE StagedInv'
    BY <2>1 DEF Insert, Begin
  <2>2. ASSUME NEW a \in Apps, CreateExisting(c, a) \/ UpdateRead(c, a) PROVE StagedInv'
    BY <2>2 DEF CreateExisting, UpdateRead, Begin
  <2>3. QED
    BY <1>1, <1>2, <2>1, <2>2 DEF Request
<1>3. ASSUME NEW c \in Clients, Respond(c) PROVE StagedInv'
  BY <1>3 DEF Respond
<1>4. ASSUME NEW c \in Clients, NEW S, NEW E, S \subseteq todo[c], Proceed(c, S, E)
      PROVE  StagedInv'
  BY <1>3, <1>4 DEF Proceed
<1>5. ASSUME NEW c \in Clients, Handle(c) \/ ApiFails(c) PROVE StagedInv'
  <2>1. ASSUME NEW a \in Apps, Refresh(c, a) PROVE StagedInv'
    BY <2>1 DEF Refresh
  <2>2. ASSUME NEW a \in Apps, Dispatch(c, a) PROVE StagedInv'
    BY <2>2, <1>3, <1>4 DEF Dispatch
  <2>3. ASSUME NEW a \in Apps, Enqueue(c, a) \/ EnqueueUnavailable(c, a) PROVE StagedInv'
    BY <2>3, <1>4 DEF Enqueue, EnqueueUnavailable
  <2>4. ASSUME ApproveCommit(c) \/ UpdateCommit(c) \/ ApiFails(c) PROVE StagedInv'
    BY <2>4, <1>3, <1>4 DEF ApproveCommit, UpdateCommit, ApiFails
  <2>5. QED
    BY <1>5, <2>1, <2>2, <2>3, <2>4 DEF Handle
<1>6. ASSUME NEW a \in Apps, Work(a) \/ Expire(a) \/ Fault(a) PROVE StagedInv'
  <2>1. UNCHANGED <<op, todo, seen>>
    BY <1>6 DEF Work, Fault, Start, GiveUp, Finish, Expire, Load, GateBlocks, Mark, Announce,
                AnnounceRaises, Send, Reported, Transient, Permanent, Confirm, MarkFailed,
                Timeout, Shutdown, Crash, requests
  <2>2. QED
    BY <2>1
<1>7. CASE UNCHANGED vars
  BY <1>7 DEF vars
<1>8. QED
  BY <1>2, <1>5, <1>6, <1>7 DEF Next

(* RefusedIsNotQueued: no request goes on to the queue with a row whose      *)
(* commit the index refused, however many rows and requests race for a job.  *)
THEOREM RefusalsAreNotQueued == Spec => RefusedIsNotQueued
<1>1. TypeOK /\ StagedInv /\ [Next]_vars =>
        [\A c \in Clients : \A a \in enq'[c] \ enq[c] :
           Active(status'[a]) \/ (op[c] = "dispatch" /\ seen[c][a] = "queued")]_vars
  <2> SUFFICES ASSUME TypeOK, StagedInv, Next, NEW d \in Clients,
                      NEW b \in enq'[d] \ enq[d]
               PROVE  Active(status'[b]) \/ (op[d] = "dispatch" /\ seen[d][b] = "queued")
    OBVIOUS
  <2> USE DEF TypeOK
  <2>1. ASSUME NEW c \in Clients, NEW a \in Apps, Dispatch(c, a)
        PROVE  Active(status'[b]) \/ (op[d] = "dispatch" /\ seen[d][b] = "queued")
    <3>1. \/ enq' = [enq EXCEPT ![c] = {}]
          \/ /\ a \in Autonomous /\ enq' = [enq EXCEPT ![c] = {a}]
             /\ status' = Written({a}, seen[c], "queued")
      BY <2>1, ProceedEnq DEF Dispatch, Respond
    <3>2. /\ d = c /\ b = a /\ op[c] = "dispatch"
          /\ status' = Written({a}, seen[c], "queued")
      BY <2>1, <3>1 DEF Dispatch
    <3>3. QED
      BY <3>2 DEF Written, Active, Terminal
  <2>2. ASSUME NEW c \in Clients, ApproveCommit(c)
        PROVE  Active(status'[b]) \/ (op[d] = "dispatch" /\ seen[d][b] = "queued")
    <3>1. \/ enq' = [enq EXCEPT ![c] = {}]
          \/ /\ enq' = [enq EXCEPT ![c] = todo[c]]
             /\ status' = Written(todo[c], seen[c], "approved")
      BY <2>2, ProceedEnq DEF ApproveCommit, Respond
    <3>2. d = c /\ b \in todo[c] /\ status' = Written(todo[c], seen[c], "approved")
      BY <3>1
    <3>3. seen[c][b] # "approved"
      BY <2>2, <3>2 DEF ApproveCommit, StagedInv, Staged
    <3>4. QED
      BY <3>2, <3>3 DEF Written, Active, Terminal
  <2>3. ASSUME NEW c \in Clients, NEW a \in Apps, Enqueue(c, a) \/ EnqueueUnavailable(c, a)
        PROVE  FALSE
    <3>1. enq' = [enq EXCEPT ![c] = enq[c] \ {a}]
      BY <2>3, ProceedEnq DEF Enqueue, EnqueueUnavailable
    <3>2. QED
      BY <3>1
  <2>4. ASSUME NEW c \in Clients,
               \/ Request(c) \/ ApiFails(c) \/ UpdateCommit(c)
               \/ \E a \in Apps : Refresh(c, a)
        PROVE  FALSE
    <3>1. enq' = enq \/ enq' = [enq EXCEPT ![c] = {}]
      BY <2>4 DEF Request, Insert, ApproveRead, CreateExisting, UpdateRead, Begin, ApiFails,
                  UpdateCommit, Refresh, Respond
    <3>2. QED
      BY <3>1
  <2>5. ASSUME NEW a \in Apps, Work(a) \/ Expire(a) \/ Fault(a) PROVE FALSE
    <3>1. enq' = enq
      BY <2>5 DEF Work, Fault, Start, GiveUp, Finish, Expire, Load, GateBlocks, Mark, Announce,
                  AnnounceRaises, Send, Reported, Transient, Permanent, Confirm, MarkFailed,
                  Timeout, Shutdown, Crash, requests
    <3>2. QED
      BY <3>1
  <2>6. QED
    BY <2>1, <2>2, <2>3, <2>4, <2>5 DEF Next, Handle
<1>2. Init => StagedInv
  BY DEF Init, StagedInv
<1>3. QED
  BY <1>1, <1>2, StagedStep, TypeCorrect, PTL DEF Spec, RefusedIsNotQueued

-----------------------------------------------------------------------------
(* An APPLIED row is not submitted again by a redelivered job. *)

Untouched(a) == stage[a] \in {"gate", "announce", "submit", "sent"} => status[a] # "applied"

(* NeverSubmitsCompleted: whatever crashes, shutdowns and retries redeliver, *)
(* as long as no user writes "applied" by hand.                              *)
THEOREM CompletedIsSafe ==
    ASSUME "applied" \notin UserStatuses
    PROVE  Spec => []NeverSubmitsCompleted
<1>1. Init => NeverSubmitsCompleted
  BY DEF Init, NeverSubmitsCompleted
<1>2. TypeOK /\ NeverSubmitsCompleted /\ [Next]_vars => NeverSubmitsCompleted'
  <2> SUFFICES ASSUME TypeOK, NeverSubmitsCompleted, [Next]_vars, NEW b \in Apps
               PROVE  Untouched(b)'
    BY DEF NeverSubmitsCompleted, Untouched
  <2>0. Untouched(b)
    BY DEF NeverSubmitsCompleted, Untouched
  <2> USE DEF TypeOK, Untouched, Written
  <2>1. ASSUME NEW c \in Clients, Request(c) \/ Handle(c) \/ ApiFails(c) PROVE Untouched(b)'
    <3>1. stage' = stage /\ (status'[b] = "applied" => status[b] = "applied")
      BY <2>1, RequestWrites
    <3>2. QED
      BY <2>0, <3>1
  <2>2. ASSUME NEW a \in Apps, Load(a) PROVE Untouched(b)'
    BY <2>0, <2>2 DEF Load, GoTo, rows
  <2>3. ASSUME NEW a \in Apps, Mark(a) PROVE Untouched(b)'
    BY <2>0, <2>3 DEF Mark, WorkerCommits, GoTo
  <2>4. ASSUME NEW a \in Apps, Confirm(a) \/ MarkFailed(a) PROVE Untouched(b)'
    BY <2>0, <2>4 DEF Confirm, MarkFailed, WorkerCommits, GoTo
  <2>5. ASSUME NEW a \in Apps,
               \/ Start(a) \/ GiveUp(a) \/ Finish(a) \/ Expire(a) \/ GateBlocks(a)
               \/ Announce(a) \/ AnnounceRaises(a) \/ Send(a) \/ Reported(a)
               \/ Transient(a) \/ Permanent(a) \/ Crash(a)
        PROVE  Untouched(b)'
    BY <2>0, <2>5 DEF Start, GiveUp, Finish, Expire, GateBlocks, Announce, AnnounceRaises,
                      Send, Reported, Transient, Permanent, Crash, GoTo, RunsNothing,
                      Submitting, rows, runs
  <2>6. ASSUME NEW a \in Apps, Timeout(a) \/ Shutdown(a) PROVE Untouched(b)'
    BY <2>0, <2>6 DEF Timeout, Shutdown, Cancelled, GoTo, RunsNothing
  <2>7. CASE UNCHANGED vars
    BY <2>0, <2>7 DEF vars
  <2>8. QED
    BY <2>1, <2>2, <2>3, <2>4, <2>5, <2>6, <2>7 DEF Next, Work, Fault
<1>3. QED
  BY <1>1, <1>2, TypeCorrect, PTL DEF Spec

-----------------------------------------------------------------------------
(* No row is left in APPLYING while the worker and its Redis stay up. *)

Resolvable(a) ==
    /\ arq[a] = "queued" => tries[a] < MaxTries
    /\ status[a] = "applying" =>
         /\ Pending(a)
         /\ stage[a] # "exit"
         /\ stage[a] \notin {"none", "load"} => copy[a] = "applying"

(* A commit of the run over its own APPLYING row meets no other active row. *)
LEMMA OwnRowFits ==
    ASSUME UniqueActive, NEW a \in Apps, status \in [Apps -> Statuses \cup {"absent"}],
           status[a] = "applying", NEW v \in {"applied", "failed"}
    PROVE  Unique(Written({a}, copy, v))
  BY DEF UniqueActive, Unique, Written, Active, Terminal

LEMMA StuckStep ==
    ASSUME Faults \subseteq {"api", "pool"}, "applying" \notin UserStatuses
    PROVE  TypeOK /\ UniqueActive /\ RunInv /\ StuckInv /\ [Next]_vars => StuckInv'
<1> SUFFICES ASSUME TypeOK, UniqueActive, RunInv, StuckInv, [Next]_vars, NEW b \in Apps
             PROVE  Resolvable(b)'
  BY DEF StuckInv, Resolvable, Pending
<1>0. Resolvable(b)
  BY DEF StuckInv, Resolvable
<1> USE DEF TypeOK, Resolvable, Pending
<1>1. ASSUME NEW c \in Clients, \/ Request(c) \/ ApiFails(c) \/ ApproveCommit(c)
                               \/ UpdateCommit(c)
                               \/ \E a \in Apps : \/ Refresh(c, a) \/ Dispatch(c, a)
                                                 \/ EnqueueUnavailable(c, a)
      PROVE  Resolvable(b)'
  <2>1. UNCHANGED <<queue, runs>>
    BY <1>1 DEF Request, Insert, ApproveRead, CreateExisting, UpdateRead, ApiFails,
                ApproveCommit, UpdateCommit, Refresh, Dispatch, EnqueueUnavailable
  <2>2. status'[b] = "applying" => status[b] = "applying"
    <3>1. Request(c) \/ Handle(c) \/ ApiFails(c)
      BY <1>1 DEF Handle
    <3> QED BY <3>1, RequestWrites
  <2>3. QED
    BY <1>0, <2>1, <2>2 DEF queue, runs
<1>2. ASSUME NEW c \in Clients, NEW a \in Apps, Enqueue(c, a) PROVE Resolvable(b)'
  <2>1. CASE arq[a] = "none"
    <3>1. /\ arq' = [arq EXCEPT ![a] = "queued"]
          /\ tries' = [tries EXCEPT ![a] = 0]
          /\ UNCHANGED <<status, stage, copy>>
      BY <1>2, <2>1 DEF Enqueue, rows
    <3>2. QED
      BY <1>0, <2>1, <3>1
  <2>2. CASE arq[a] # "none"
    BY <1>0, <1>2, <2>2 DEF Enqueue, rows
  <2>3. QED
    BY <2>1, <2>2
<1>3. ASSUME NEW a \in Apps, Start(a) \/ Finish(a) \/ Load(a) PROVE Resolvable(b)'
  BY <1>0, <1>3 DEF Start, Finish, Load, RunsNothing, GoTo, RunInv, rows, queue
<1>4. ASSUME NEW a \in Apps, GiveUp(a) \/ Expire(a) PROVE Resolvable(b)'
  <2>1. arq[a] # "queued" \/ tries[a] < MaxTries
    BY DEF StuckInv
  <2>2. QED
    BY <1>0, <1>4, <2>1 DEF GiveUp, Expire, rows, runs
<1>5. ASSUME NEW a \in Apps, Mark(a) PROVE Resolvable(b)'
  <2> DEFINE table == Written({a}, copy, "applying")
  <2>1. arq[a] = "running" /\ arq' = arq /\ tries' = tries /\ stage[a] = "gate"
    BY <1>5 DEF Mark, RunInv, queue
  <2>2. CASE Unique(table)
    <3>1. /\ status' = table
          /\ copy' = [copy EXCEPT ![a] = "applying"]
          /\ stage' = [stage EXCEPT ![a] = "announce"]
      BY <1>5, <2>2 DEF Mark, WorkerCommits, GoTo
    <3>2. b # a => status'[b] = status[b]
      BY <3>1 DEF Written
    <3>3. QED
      BY <1>0, <2>1, <3>1, <3>2
  <2>3. CASE ~Unique(table)
    <3>1. UNCHANGED <<status, copy>> /\ stage' = [stage EXCEPT ![a] = "exit"]
      BY <1>5, <2>3 DEF Mark, WorkerCommits, GoTo
    <3>2. status[a] # "applying"
      <4>1. SUFFICES ASSUME status[a] = "applying" PROVE FALSE
        OBVIOUS
      <4>2. copy[a] = "applying"
        BY <2>1, <4>1 DEF StuckInv
      <4>3. table = status
        BY <4>2 DEF Written
      <4>4. QED
        BY <2>3, <4>3 DEF UniqueActive
    <3>3. QED
      BY <1>0, <2>1, <3>1, <3>2
  <2>4. QED
    BY <2>2, <2>3
<1>6. ASSUME NEW a \in Apps, NEW v \in {"applied", "failed"},
             stage[a] \in {"confirm", "fail"}, WorkerCommits(a, v, "exit"),
             arq' = arq, tries' = tries
      PROVE  Resolvable(b)'
  <2> DEFINE table == Written({a}, copy, v)
  <2>1. status[a] = "applying" => Unique(table)
    BY OwnRowFits
  <2>2. CASE Unique(table)
    <3>1. status' = table /\ copy' = [copy EXCEPT ![a] = v] /\ stage' = [stage EXCEPT ![a] = "exit"]
      BY <1>6, <2>2 DEF WorkerCommits, GoTo
    <3>2. status[a] = "applying" => copy[a] = "applying"
      BY <1>6 DEF StuckInv
    <3>3. status'[a] # "applying" /\ (b # a => status'[b] = status[b])
      BY <3>1, <3>2 DEF Written
    <3>4. QED
      BY <1>0, <1>6, <3>1, <3>3
  <2>3. CASE ~Unique(table)
    <3>1. UNCHANGED <<status, copy>> /\ stage' = [stage EXCEPT ![a] = "exit"]
      BY <1>6, <2>3 DEF WorkerCommits, GoTo
    <3>2. QED
      BY <1>0, <1>6, <2>1, <2>3, <3>1
  <2>4. QED
    BY <2>2, <2>3
<1>7. ASSUME NEW a \in Apps, Confirm(a) \/ MarkFailed(a) PROVE Resolvable(b)'
  BY <1>6, <1>7 DEF Confirm, MarkFailed, queue
<1>8. ASSUME NEW a \in Apps, Transient(a) PROVE Resolvable(b)'
  BY <1>0, <1>8 DEF Transient, Submitting, GoTo, RunsNothing, rows
<1>9. ASSUME NEW a \in Apps,
             GateBlocks(a) \/ Announce(a) \/ Send(a) \/ Reported(a) \/ Permanent(a)
      PROVE  Resolvable(b)'
  BY <1>0, <1>9 DEF GateBlocks, Announce, Send, Reported, Permanent, Submitting, GoTo,
                    rows, queue
<1>10. ASSUME NEW a \in Apps PROVE ~Fault(a)
  BY DEF Fault, AnnounceRaises, Timeout, Shutdown, Crash
<1>11. CASE UNCHANGED vars
  BY <1>0, <1>11 DEF vars
<1>12. QED
  BY <1>1, <1>2, <1>3, <1>4, <1>5, <1>7, <1>8, <1>9, <1>10, <1>11
     DEF Next, Handle, Work

(* While a row is APPLYING its job is queued with a try left, or running and *)
(* past its loading with the row's status in hand: what requests write       *)
(* meanwhile, and how its steps end, takes neither away, as long as no       *)
(* worker process and no Redis call fails.                                   *)
THEOREM ApplyingHasAJob ==
    ASSUME Faults \subseteq {"api", "pool"}, "applying" \notin UserStatuses
    PROVE  Spec => []StuckInv
<1>1. Init => StuckInv
  BY DEF Init, StuckInv, Nothing
<1>2. PipelineInv /\ StuckInv /\ [Next]_vars => StuckInv'
  BY StuckStep, PipelineInvParts
<1>3. QED
  BY <1>1, <1>2, PipelineInvariant, PTL DEF Spec

(* NoStuckApplying: under the same conditions no ending of a run leaves a    *)
(* row in APPLYING without a job, however requests rewrite that row          *)
(* meanwhile (none writes APPLYING itself).                                  *)
THEOREM NothingStaysApplying ==
    ASSUME Faults \subseteq {"api", "pool"}, "applying" \notin UserStatuses
    PROVE  Spec => []NoStuckApplying
<1>1. StuckInv => NoStuckApplying
  BY DEF StuckInv, NoStuckApplying
<1>2. QED
  BY <1>1, ApplyingHasAJob, PTL

(* ApplyingResolves, from JobsDrain: what TLC shows of the queue on an       *)
(* instance is all that is left to show, since no row stays in APPLYING      *)
(* after its job.                                                            *)
THEOREM DrainedIsResolved ==
    ASSUME Faults \subseteq {"api", "pool"}, "applying" \notin UserStatuses
    PROVE  Spec /\ JobsDrain => ApplyingResolves
<1>1. ASSUME NEW a \in Apps
      PROVE  Spec /\ (Pending(a) ~> ~Pending(a))
                => (status[a] = "applying" ~> status[a] # "applying")
  <2>1. NoStuckApplying => (status[a] = "applying" => Pending(a))
    BY DEF NoStuckApplying
  <2>2. status[a] # "applying" <=> ~(status[a] = "applying")
    OBVIOUS
  <2>3. Spec => []NoStuckApplying
    BY NothingStaysApplying
  <2>4. QED
    BY <2>1, <2>2, <2>3, PTL
<1>2. QED
  BY <1>1 DEF JobsDrain, ApplyingResolves

-----------------------------------------------------------------------------
(* The pipeline implements its contract. *)

Open == {a \in Apps : Pending(a)}

LEMMA ContractStep ==
    PipelineInv /\ [Next]_vars => [Contract!Next]_(Contract!vars)
<1> SUFFICES ASSUME PipelineInv, [Next]_vars
             PROVE  [Contract!Next]_(Contract!vars)
  OBVIOUS
<1>0. TypeOK /\ ConsentInv /\ RunInv
  BY PipelineInvParts
<1> USE <1>0 DEF TypeOK, RunInv, Pending
<1>1. ASSUME NEW c \in Clients, \/ Request(c) \/ ApiFails(c)
                               \/ UpdateCommit(c)
                               \/ \E a \in Apps : \/ Refresh(c, a) \/ Dispatch(c, a)
                                                 \/ EnqueueUnavailable(c, a)
      PROVE  UNCHANGED Contract!vars
  <2>1. UNCHANGED <<approved, arq, tries, sends>>
    <3>1. ASSUME Request(c) PROVE UNCHANGED <<approved, arq, tries, sends>>
      BY <3>1 DEF Request, Insert, ApproveRead, CreateExisting, UpdateRead, rows, history, queue, runs
    <3>2. ASSUME NEW a \in Apps, Refresh(c, a) \/ Dispatch(c, a) \/ EnqueueUnavailable(c, a)
          PROVE  UNCHANGED <<approved, arq, tries, sends>>
      BY <3>2 DEF Refresh, Dispatch, EnqueueUnavailable, rows, history, queue, runs
    <3>3. ASSUME ApiFails(c) \/ UpdateCommit(c) PROVE UNCHANGED <<approved, arq, tries, sends>>
      BY <3>3 DEF ApiFails, UpdateCommit, rows, history, queue, runs
    <3> QED BY <1>1, <3>1, <3>2, <3>3
  <2> QED BY <2>1 DEF Contract!vars
<1>2. ASSUME NEW c \in Clients, ApproveCommit(c)
      PROVE  Contract!Next \/ UNCHANGED Contract!vars
  <2>1. UNCHANGED <<arq, tries, sends>>
    BY <1>2 DEF ApproveCommit, queue, runs
  <2>2. approved' = approved \/ approved' = approved \cup todo[c]
    BY <1>2 DEF ApproveCommit
  <2>3. todo[c] \in SUBSET Apps
    OBVIOUS
  <2>4. UNCHANGED Contract!vars \/ Contract!Consent(todo[c])
    BY <2>1, <2>2 DEF Contract!Consent, Contract!vars
  <2>5. QED
    BY <2>3, <2>4 DEF Contract!Next
<1>3. ASSUME NEW c \in Clients, NEW a \in Apps, Enqueue(c, a)
      PROVE  Contract!Next \/ UNCHANGED Contract!vars
  <2>1. CASE arq[a] = "none"
    <3>1. /\ arq' = [arq EXCEPT ![a] = "queued"]
          /\ tries' = [tries EXCEPT ![a] = 0]
          /\ sends' = [sends EXCEPT ![a] = 0]
          /\ approved' = approved
      BY <1>3, <2>1 DEF Enqueue, rows
    <3>2. a \in Autonomous \cup approved
      BY <1>3 DEF Enqueue, ConsentInv
    <3>3. a \notin Open /\ Open' = Open \cup {a}
      BY <2>1, <3>1 DEF Open
    <3>4. Contract!Dispatch(a)
      BY <3>1, <3>2, <3>3 DEF Contract!Dispatch, Open
    <3>5. QED
      BY <3>4 DEF Contract!Next
  <2>2. CASE arq[a] # "none"
    BY <1>3, <2>2 DEF Enqueue, rows, Contract!vars
  <2>3. QED
    BY <2>1, <2>2
<1>4. ASSUME NEW a \in Apps, Start(a) PROVE Contract!Next
  <2>1. a \in Open /\ Open' = Open
    BY <1>4 DEF Start, Open
  <2>2. Contract!Attempt(a)
    BY <1>4, <2>1 DEF Start, Contract!Attempt, Open, rows
  <2>3. QED
    BY <2>2 DEF Contract!Next
<1>5. ASSUME NEW a \in Apps, GiveUp(a) \/ Finish(a) PROVE Contract!Next
  <2>1. a \in Open /\ arq' = [arq EXCEPT ![a] = "result"]
    BY <1>5 DEF GiveUp, Finish, Open
  <2>2. Open' = Open \ {a}
    BY <2>1 DEF Open
  <2>3. Contract!Close(a)
    BY <1>5, <2>1, <2>2 DEF GiveUp, Finish, Contract!Close, Open, rows, runs
  <2>4. QED
    BY <2>3 DEF Contract!Next
<1>6. ASSUME NEW a \in Apps, Send(a) PROVE Contract!Next
  <2>1. a \in Open /\ sends[a] < tries[a]
    BY <1>6 DEF Send, Open
  <2>2. Contract!Send(a)
    BY <1>6, <2>1 DEF Send, Contract!Send, Open, rows, queue
  <2>3. QED
    BY <2>2 DEF Contract!Next
<1>7. ASSUME NEW a \in Apps, Transient(a) \/ Shutdown(a) \/ Crash(a)
      PROVE  UNCHANGED Contract!vars
  <2>1. arq[a] = "running" /\ UNCHANGED <<approved, tries, sends>>
    BY <1>7 DEF Transient, Shutdown, Crash, Submitting, rows, history
  <2>2. arq' = arq \/ arq' = [arq EXCEPT ![a] = "queued"]
    BY <1>7 DEF Transient, Shutdown, Crash
  <2>3. Open' = Open
    BY <2>1, <2>2 DEF Open
  <2>4. QED
    BY <2>1, <2>3 DEF Contract!vars, Open
<1>8. ASSUME NEW a \in Apps, Expire(a) PROVE UNCHANGED Contract!vars
  <2>1. Open' = Open
    BY <1>8 DEF Expire, Open
  <2>2. QED
    BY <1>8, <2>1 DEF Expire, Contract!vars, Open, rows, runs
<1>9. ASSUME NEW a \in Apps,
             \/ Load(a) \/ GateBlocks(a) \/ Mark(a) \/ Announce(a) \/ AnnounceRaises(a)
             \/ Reported(a) \/ Permanent(a) \/ Confirm(a) \/ MarkFailed(a) \/ Timeout(a)
      PROVE  UNCHANGED Contract!vars
  BY <1>9 DEF Load, GateBlocks, Mark, Announce, AnnounceRaises, Reported, Permanent, Confirm,
              MarkFailed, Timeout, rows, history, queue, Contract!vars
<1>10. CASE UNCHANGED vars
  BY <1>10 DEF vars, Contract!vars
<1>11. QED
  BY <1>1, <1>2, <1>3, <1>4, <1>5, <1>6, <1>7, <1>8, <1>9, <1>10
     DEF Next, Handle, Work, Fault

(* Implements: every behaviour of the pipeline is a behaviour of the         *)
(* contract: consent before each dispatch, one open dispatch per row, at     *)
(* most MaxTries attempts each, and no attempt that submits twice.           *)
THEOREM PipelineImplementsContract == Spec => Implements
<1>1. Init => Contract!Init
  BY DEF Init, Contract!Init, Pending
<1>2. QED
  BY <1>1, ContractStep, PipelineInvariant, PTL DEF Spec, Implements, Contract!Spec
=============================================================================
