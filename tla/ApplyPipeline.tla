--------------------------- MODULE ApplyPipeline ---------------------------
(***************************************************************************)
(* The apply pipeline: the HTTP handlers that create, stage, approve and   *)
(* update application rows, the arq queue they feed, and the worker that   *)
(* drives a row through the browser.                                       *)
(*                                                                         *)
(* One user's rows are modelled; rows of two users never meet (every       *)
(* statement is tenant-scoped and the unique index starts with user_id).   *)
(* A database session is what it is in the code: a statement reads a row   *)
(* into the session's copy, a later commit writes back the attributes that *)
(* differ from the copy, in an UPDATE by primary key.  Nothing locks the   *)
(* row in between, so every read and every commit is a step of its own.    *)
(* Notes, applied_at, metrics, progress payloads and pages of rows are     *)
(* data no property here tells apart, and are left out.                    *)
(***************************************************************************)
EXTENDS Naturals, FiniteSets

CONSTANTS Apps,          \* application rows, allocated or still absent
          JobOf,         \* the job_id of each row
          Autonomous,    \* rows with apply_mode "autonomous"; the others wait for approval
          Clients,       \* HTTP requests that may be in flight together
          MaxTries,      \* MAX_TRIES, shared with WorkerSettings.max_tries
          Faults,        \* which faults of FaultKinds may happen
          UserStatuses   \* statuses the clients send to PUT /status

FaultKinds == {"api",       \* an API process dies, or enqueue_job raises
               "pool",      \* an API process started without Redis: it has no arq pool
               "redis",     \* publishing a progress event raises
               "timeout",   \* the run reaches job_timeout
               "shutdown",  \* the worker process gets SIGTERM
               "crash"}     \* the worker process dies

Terminal == {"rejected", "withdrawn", "failed"}
Staged   == {"pending_review", "queued"}
Statuses == Terminal \cup Staged
              \cup {"approved", "applying", "applied", "interview", "offer"}

ASSUME PipelineAssumption ==
    /\ Autonomous \subseteq Apps
    /\ MaxTries \in Nat \ {0}
    /\ Faults \subseteq FaultKinds
    /\ UserStatuses \subseteq Statuses

VARIABLES
    status,    \* the status column of each row, "absent" before the INSERT
    op,        \* what the request of a client is doing
    todo,      \* rows that request has yet to write
    enq,       \* rows that request has written and has yet to enqueue
    seen,      \* the statuses that request's session holds
    approved,  \* history: rows some approval has been committed for
    completed, \* history: rows some run has confirmed as APPLIED
    arq,       \* the arq job "apply:<id>" of each row
    tries,     \* arq's job_try for that job
    stage,     \* where the run of that job stands
    copy,      \* the status the worker's session holds
    sends      \* history: submissions made since the job was enqueued

history == <<approved, completed>>
rows == <<status, approved, completed>>
requests == <<op, todo, enq, seen>>
queue == <<arq, tries>>
runs == <<stage, copy, sends>>
vars == <<status, approved, completed, op, todo, enq, seen, arq, tries, stage, copy, sends>>

Nothing == [a \in Apps |-> "absent"]

Init == /\ status = Nothing
        /\ op = [c \in Clients |-> "idle"]
        /\ todo = [c \in Clients |-> {}]
        /\ enq = [c \in Clients |-> {}]
        /\ seen = [c \in Clients |-> Nothing]
        /\ approved = {}
        /\ completed = {}
        /\ arq = [a \in Apps |-> "none"]
        /\ tries = [a \in Apps |-> 0]
        /\ stage = [a \in Apps |-> "none"]
        /\ copy = Nothing
        /\ sends = [a \in Apps |-> 0]

-----------------------------------------------------------------------------
(* The table. *)

(* The partial index uq_app_active_job covers the rows in these states. *)
Active(v) == v \notin Terminal \cup {"absent"}

(* What the index accepts. *)
Unique(table) ==
    \A a, b \in Apps : (a # b /\ JobOf[a] = JobOf[b] /\ Active(table[a]))
                            => ~Active(table[b])

(* The table once a session holding `held` commits value v for the rows S:   *)
(* SQLAlchemy emits no UPDATE for an attribute that already has the value.   *)
Written(S, held, v) ==
    [a \in Apps |-> IF a \in S /\ held[a] # v THEN v ELSE status[a]]

Snapshot(S, table) == [a \in Apps |-> IF a \in S THEN table[a] ELSE "absent"]

-----------------------------------------------------------------------------
(* Requests. *)

Begin(c, kind, S, table) ==
    /\ op' = [op EXCEPT ![c] = kind]
    /\ todo' = [todo EXCEPT ![c] = S]
    /\ seen' = [seen EXCEPT ![c] = Snapshot(S, table)]
    /\ UNCHANGED enq

Respond(c) ==
    /\ op' = [op EXCEPT ![c] = "idle"]
    /\ todo' = [todo EXCEPT ![c] = {}]
    /\ enq' = [enq EXCEPT ![c] = {}]
    /\ seen' = [seen EXCEPT ![c] = Nothing]

(* Continue with rows S to write and E to enqueue, or respond. *)
Proceed(c, S, E) ==
    IF S \cup E = {}
    THEN Respond(c)
    ELSE /\ todo' = [todo EXCEPT ![c] = S]
         /\ enq' = [enq EXCEPT ![c] = E]
         /\ UNCHANGED <<op, seen>>

(* POST /applications (one row) and POST /applications/batch (the rows of    *)
(* the jobs its first SELECT found no active row for): all the INSERTs are   *)
(* committed together, or the index refuses one and none is.                 *)
Insert(c, S) ==
    LET table == [a \in Apps |-> IF a \in S THEN "queued" ELSE status[a]]
    IN  /\ op[c] = "idle"
        /\ S # {} /\ \A a \in S : status[a] = "absent"
        /\ Unique(table)
        /\ status' = table
        /\ Begin(c, "dispatch", S, Nothing)
        /\ UNCHANGED <<history, queue, runs>>

(* POST /applications for a job with an active row: the savepoint rolls back *)
(* and the request goes on with the row it finds.                            *)
CreateExisting(c, a) ==
    /\ op[c] = "idle"
    /\ Active(status[a])
    /\ Begin(c, "dispatch", {a}, status)
    /\ UNCHANGED <<rows, queue, runs>>

(* The request re-reads each row it has inserted. *)
Refresh(c, a) ==
    /\ op[c] = "dispatch" /\ a \in todo[c] /\ seen[c][a] = "absent"
    /\ seen' = [seen EXCEPT ![c][a] = status[a]]
    /\ UNCHANGED <<rows, op, todo, enq, queue, runs>>

Refreshed(c) == \A a \in todo[c] : seen[c][a] # "absent"

(* Mutant: rows that wait for approval are enqueued as well. *)
DispatchWithoutGate(c, a) ==
    LET table == Written({a}, seen[c], IF a \in Autonomous THEN "queued" ELSE "pending_review")
    IN  /\ op[c] = "dispatch" /\ Refreshed(c) /\ a \in todo[c] /\ enq[c] = {}
        /\ Unique(table)
        /\ status' = table
        /\ Proceed(c, todo[c] \ {a}, {a})
        /\ UNCHANGED <<history, queue, runs>>

(* Mutant: the IntegrityError is swallowed and the request goes on. *)
DispatchRegardless(c, a) ==
    LET auto == a \in Autonomous
        table == Written({a}, seen[c], IF auto THEN "queued" ELSE "pending_review")
    IN  /\ op[c] = "dispatch" /\ Refreshed(c) /\ a \in todo[c] /\ enq[c] = {}
        /\ status' = IF Unique(table) THEN table ELSE status
        /\ Proceed(c, todo[c] \ {a}, IF auto THEN {a} ELSE {})
        /\ UNCHANGED <<history, queue, runs>>

(* dispatch_for_mode, up to its commit. *)
Dispatch(c, a) ==
    LET auto == a \in Autonomous
        table == Written({a}, seen[c], IF auto THEN "queued" ELSE "pending_review")
    IN  /\ op[c] = "dispatch" /\ Refreshed(c) /\ a \in todo[c] /\ enq[c] = {}
        /\ IF Unique(table)
           THEN /\ status' = table
                /\ Proceed(c, todo[c] \ {a}, IF auto THEN {a} ELSE {})
           ELSE /\ UNCHANGED status
                /\ Respond(c)
        /\ UNCHANGED <<history, queue, runs>>

(* approve_application (one row) and bulk_approve (the ids it was given): *)
(* only the rows found in a staged state are kept.                        *)
ApproveRead(c, S) ==
    /\ op[c] = "idle"
    /\ S # {} /\ \A a \in S : status[a] \in Staged
    /\ Begin(c, "approve", S, status)
    /\ UNCHANGED <<rows, queue, runs>>

ApproveCommit(c) ==
    LET table == Written(todo[c], seen[c], "approved")
    IN  /\ op[c] = "approve" /\ todo[c] # {}
        /\ IF Unique(table)
           THEN /\ status' = table
                /\ approved' = approved \cup todo[c]
                /\ Proceed(c, {}, todo[c])
           ELSE /\ UNCHANGED <<status, approved>>
                /\ Respond(c)
        /\ UNCHANGED <<completed, queue, runs>>

(* Mutant: the job has no id of its own, so no enqueue is refused. *)
EnqueueWithoutId(c, a) ==
    /\ a \in enq[c]
    /\ arq' = [arq EXCEPT ![a] = "queued"]
    /\ tries' = [tries EXCEPT ![a] = 0]
    /\ sends' = [sends EXCEPT ![a] = 0]
    /\ Proceed(c, todo[c], enq[c] \ {a})
    /\ UNCHANGED <<rows, stage, copy>>

(* enqueue_apply: arq refuses a job id that is pending or whose result it   *)
(* still keeps.                                                             *)
Enqueue(c, a) ==
    /\ a \in enq[c]
    /\ IF arq[a] = "none"
       THEN /\ arq' = [arq EXCEPT ![a] = "queued"]
            /\ tries' = [tries EXCEPT ![a] = 0]
            /\ sends' = [sends EXCEPT ![a] = 0]
       ELSE UNCHANGED <<arq, tries, sends>>
    /\ Proceed(c, todo[c], enq[c] \ {a})
    /\ UNCHANGED <<rows, stage, copy>>

(* enqueue_apply without a pool logs a warning and goes on. *)
EnqueueUnavailable(c, a) ==
    /\ "pool" \in Faults
    /\ a \in enq[c]
    /\ Proceed(c, todo[c], enq[c] \ {a})
    /\ UNCHANGED <<rows, queue, runs>>

(* PUT /applications/{id}/status: no condition on the current status. *)
UpdateRead(c, a) ==
    /\ op[c] = "idle"
    /\ UserStatuses # {}
    /\ status[a] # "absent"
    /\ Begin(c, "update", {a}, status)
    /\ UNCHANGED <<rows, queue, runs>>

UpdateCommit(c) ==
    /\ op[c] = "update"
    /\ \E v \in UserStatuses :
         LET table == Written(todo[c], seen[c], v)
         IN  status' = IF Unique(table) THEN table ELSE status
    /\ Respond(c)
    /\ UNCHANGED <<history, queue, runs>>

(* The request dies with its process or raises out of enqueue_job; what it *)
(* committed stays.                                                        *)
ApiFails(c) ==
    /\ "api" \in Faults
    /\ op[c] # "idle"
    /\ Respond(c)
    /\ UNCHANGED <<rows, queue, runs>>

-----------------------------------------------------------------------------
(* arq.  A job is "queued" while it waits for a worker, for the delay of a   *)
(* Retry, or for the in-progress key of a dead worker to expire; "result"    *)
(* while arq keeps the result of a finished job.                             *)

RunsNothing(a) == /\ stage' = [stage EXCEPT ![a] = "none"]
                  /\ copy' = [copy EXCEPT ![a] = "absent"]

(* Mutant: the try is counted only when a run ends in a Retry. *)
StartUncounted(a) ==
    /\ arq[a] = "queued" /\ tries[a] < MaxTries
    /\ arq' = [arq EXCEPT ![a] = "running"]
    /\ stage' = [stage EXCEPT ![a] = "load"]
    /\ UNCHANGED <<rows, requests, tries, copy, sends>>

Start(a) ==
    /\ arq[a] = "queued" /\ tries[a] < MaxTries
    /\ arq' = [arq EXCEPT ![a] = "running"]
    /\ tries' = [tries EXCEPT ![a] = @ + 1]
    /\ stage' = [stage EXCEPT ![a] = "load"]
    /\ UNCHANGED <<rows, requests, copy, sends>>

(* max_tries reached before the call: arq fails the job without calling. *)
GiveUp(a) ==
    /\ arq[a] = "queued" /\ tries[a] = MaxTries
    /\ arq' = [arq EXCEPT ![a] = "result"]
    /\ UNCHANGED <<rows, requests, tries, runs>>

(* The coroutine has returned or raised: arq finishes the job. *)
Finish(a) ==
    /\ stage[a] = "exit"
    /\ arq' = [arq EXCEPT ![a] = "result"]
    /\ RunsNothing(a)
    /\ UNCHANGED <<rows, requests, tries, sends>>

(* The kept result expires, an hour after the job finished (keep_result); a  *)
(* request is answered long before that.                                     *)
Expire(a) ==
    /\ arq[a] = "result"
    /\ \A c \in Clients : a \notin todo[c] \cup enq[c]
    /\ arq' = [arq EXCEPT ![a] = "none"]
    /\ UNCHANGED <<rows, requests, tries, runs>>

-----------------------------------------------------------------------------
(* _apply, one action per stretch of code between two awaits that matter. *)

GoTo(a, s) == stage' = [stage EXCEPT ![a] = s]

(* Mutant: the guard on APPLIED is dropped. *)
LoadUnguarded(a) ==
    /\ stage[a] = "load"
    /\ GoTo(a, "gate") /\ copy' = [copy EXCEPT ![a] = status[a]]
    /\ UNCHANGED <<rows, requests, queue, sends>>

(* The row is read; one that is gone or APPLIED is left alone.  No deletion  *)
(* of a job, which takes its rows along, is modelled here.                   *)
Load(a) ==
    /\ stage[a] = "load"
    /\ IF status[a] \in {"absent", "applied"}
       THEN GoTo(a, "exit") /\ UNCHANGED copy
       ELSE GoTo(a, "gate") /\ copy' = [copy EXCEPT ![a] = status[a]]
    /\ UNCHANGED <<rows, requests, queue, sends>>

(* The ATS gate blocks a low-match resume. *)
GateBlocks(a) ==
    /\ stage[a] = "gate"
    /\ GoTo(a, "fail")
    /\ UNCHANGED <<rows, requests, queue, copy, sends>>

(* Mutant: the IntegrityError is rolled back and the run goes on. *)
WorkerGoesOn(a, v, next) ==
    LET table == Written({a}, copy, v)
    IN  /\ IF Unique(table)
           THEN status' = table /\ copy' = [copy EXCEPT ![a] = v]
           ELSE UNCHANGED <<status, copy>>
        /\ GoTo(a, next)

(* The worker's session commits status v; an IntegrityError fails the job. *)
WorkerCommits(a, v, next) ==
    LET table == Written({a}, copy, v)
    IN  IF Unique(table)
        THEN /\ status' = table
             /\ copy' = [copy EXCEPT ![a] = v]
             /\ GoTo(a, next)
        ELSE /\ UNCHANGED <<status, copy>>
             /\ GoTo(a, "exit")

(* The gate passes and the in-flight marker is committed. *)
Mark(a) ==
    /\ stage[a] = "gate"
    /\ WorkerCommits(a, "applying", "announce")
    /\ UNCHANGED <<history, requests, queue, sends>>

Announce(a) ==
    /\ stage[a] = "announce"
    /\ GoTo(a, "submit")
    /\ UNCHANGED <<rows, requests, queue, copy, sends>>

(* _publish raises, outside the try block of _apply. *)
AnnounceRaises(a) ==
    /\ "redis" \in Faults
    /\ stage[a] = "announce"
    /\ GoTo(a, "exit")
    /\ UNCHANGED <<rows, requests, queue, copy, sends>>

(* run_apply: the browser agent submits the form at the job site. *)
Send(a) ==
    /\ stage[a] = "submit"
    /\ sends' = [sends EXCEPT ![a] = @ + 1]
    /\ GoTo(a, "sent")
    /\ UNCHANGED <<rows, requests, queue, copy>>

Submitting(a) == stage[a] \in {"submit", "sent"}

(* _submit_application returns: the agent reports a submission (it may be *)
(* wrong), or live_apply is off.                                          *)
Reported(a) ==
    /\ Submitting(a)
    /\ GoTo(a, "confirm")
    /\ UNCHANGED <<rows, requests, queue, copy, sends>>

(* Mutant: Retry is raised on the last try too. *)
TransientOffByOne(a) ==
    /\ Submitting(a)
    /\ IF tries[a] > MaxTries
       THEN GoTo(a, "fail") /\ UNCHANGED <<arq, copy>>
       ELSE arq' = [arq EXCEPT ![a] = "queued"] /\ RunsNothing(a)
    /\ UNCHANGED <<rows, requests, tries, sends>>

(* TransientApplyError: Retry, or _mark_failed on the last try. *)
Transient(a) ==
    /\ Submitting(a)
    /\ IF tries[a] >= MaxTries
       THEN GoTo(a, "fail") /\ UNCHANGED <<arq, copy>>
       ELSE arq' = [arq EXCEPT ![a] = "queued"] /\ RunsNothing(a)
    /\ UNCHANGED <<rows, requests, tries, sends>>

(* ApplyPrerequisiteError, an unconfirmed submission, any other exception. *)
Permanent(a) ==
    /\ Submitting(a)
    /\ GoTo(a, "fail")
    /\ UNCHANGED <<rows, requests, queue, copy, sends>>

Confirm(a) ==
    /\ stage[a] = "confirm"
    /\ WorkerCommits(a, "applied", "exit")
    /\ completed' = IF status'[a] = "applied" THEN completed \cup {a} ELSE completed
    /\ UNCHANGED <<approved, requests, queue, sends>>

(* _mark_failed, outside a cancellation. *)
MarkFailed(a) ==
    /\ stage[a] = "fail"
    /\ WorkerCommits(a, "failed", "exit")
    /\ UNCHANGED <<history, requests, queue, sends>>

-----------------------------------------------------------------------------
(* Faults of a run. *)

(* CancelledError: recorded as FAILED when it strikes inside the try block. *)
Cancelled(a) ==
    status' = IF Submitting(a) THEN Written({a}, copy, "failed") ELSE status

(* job_timeout: arq cancels the coroutine and finishes the job. *)
Timeout(a) ==
    /\ "timeout" \in Faults
    /\ stage[a] \notin {"none", "exit"}
    /\ Cancelled(a)
    /\ GoTo(a, "exit")
    /\ UNCHANGED <<history, requests, queue, copy, sends>>

(* SIGTERM: arq cancels the coroutine and leaves the job to another worker. *)
Shutdown(a) ==
    /\ "shutdown" \in Faults
    /\ stage[a] # "none"
    /\ Cancelled(a)
    /\ arq' = [arq EXCEPT ![a] = "queued"]
    /\ RunsNothing(a)
    /\ UNCHANGED <<history, requests, tries, sends>>

(* The process dies; the job is delivered again. *)
Crash(a) ==
    /\ "crash" \in Faults
    /\ stage[a] # "none"
    /\ arq' = [arq EXCEPT ![a] = "queued"]
    /\ RunsNothing(a)
    /\ UNCHANGED <<rows, requests, tries, sends>>

-----------------------------------------------------------------------------
Request(c) == \/ \E S \in SUBSET Apps : Insert(c, S) \/ ApproveRead(c, S)
              \/ \E a \in Apps : \/ CreateExisting(c, a)
                                 \/ UpdateRead(c, a)

Handle(c) == \/ \E a \in Apps : \/ Refresh(c, a) \/ Dispatch(c, a)
                                \/ Enqueue(c, a) \/ EnqueueUnavailable(c, a)
             \/ ApproveCommit(c)
             \/ UpdateCommit(c)

Work(a) == \/ Start(a) \/ GiveUp(a) \/ Finish(a)
           \/ Load(a) \/ GateBlocks(a) \/ Mark(a) \/ Announce(a)
           \/ Send(a) \/ Reported(a) \/ Transient(a) \/ Permanent(a)
           \/ Confirm(a) \/ MarkFailed(a)

Fault(a) == AnnounceRaises(a) \/ Timeout(a) \/ Shutdown(a) \/ Crash(a)

Next == \/ \E c \in Clients : Request(c) \/ Handle(c) \/ ApiFails(c)
        \/ \E a \in Apps : Work(a) \/ Expire(a) \/ Fault(a)

Spec == Init /\ [][Next]_vars

(* Users may stop, and faults need not happen; a request that has begun is   *)
(* run to its end by its event loop, and a worker polls the queue, so what   *)
(* either of them can do is eventually done.                                 *)
Fairness == /\ \A c \in Clients : WF_vars(Handle(c))
            /\ \A a \in Apps : WF_vars(Work(a))

FairSpec == Spec /\ Fairness

-----------------------------------------------------------------------------
(* Properties. *)

TypeOK ==
    /\ status \in [Apps -> Statuses \cup {"absent"}]
    /\ approved \in SUBSET Apps
    /\ completed \in SUBSET Apps
    /\ op \in [Clients -> {"idle", "dispatch", "approve", "update"}]
    /\ todo \in [Clients -> SUBSET Apps]
    /\ enq \in [Clients -> SUBSET Apps]
    /\ seen \in [Clients -> [Apps -> Statuses \cup {"absent"}]]
    /\ arq \in [Apps -> {"none", "queued", "running", "result"}]
    /\ tries \in [Apps -> 0 .. MaxTries]
    /\ stage \in [Apps -> {"none", "load", "gate", "announce", "submit", "sent",
                           "confirm", "fail", "exit"}]
    /\ copy \in [Apps -> Statuses \cup {"absent"}]
    /\ sends \in [Apps -> Nat]

Pending(a) == arq[a] \in {"queued", "running"}

(* What the index enforces: one active row for a job.                        *)
UniqueActive == Unique(status)

(* A run whose job went to another row meanwhile ends at the refused commit  *)
(* and does not go on to the browser: of two runs that are at the site for   *)
(* one job, one no longer has its row as its session knows it, which takes a *)
(* client that wrote over APPLYING.  Retries, redeliveries and re-creations  *)
(* alone never send two runs to the site (tasks.py:185-191).                 *)
TwoRunsMeanOverridden ==
    \A a, b \in Apps : (a # b /\ JobOf[a] = JobOf[b] /\ Submitting(a) /\ Submitting(b))
                            => (status[a] # copy[a] \/ status[b] # copy[b])

(* A request whose commit the index refuses enqueues nothing: a row that     *)
(* goes on to the queue is active after the commit, unless the request had   *)
(* read it as QUEUED, so that no UPDATE was sent and none could be refused   *)
(* (dispatch.py:60-64, 90-94).                                               *)
RefusedIsNotQueued ==
    [][\A c \in Clients : \A a \in enq'[c] \ enq[c] :
           Active(status'[a]) \/ (op[c] = "dispatch" /\ seen[c][a] = "queued")]_vars

(* A row that is not autonomous reaches the worker only after some approval  *)
(* of it was committed, whatever requests race, repeat or die                *)
(* (dispatch_for_mode never enqueues such a row).                            *)
HumanGate == \A a \in Apps : Pending(a) => a \in Autonomous \cup approved

(* The worker's guard on APPLIED: although a job is delivered again after a  *)
(* crash or a shutdown that struck once APPLIED was committed, no run is on  *)
(* its way to the browser while its row says APPLIED.                        *)
NeverSubmitsCompleted ==
    \A a \in Apps : stage[a] \in {"gate", "announce", "submit", "sent"}
                        => status[a] # "applied"

(* A row in APPLYING has a job that will still move it: no ending of a run   *)
(* (a late withdrawal, a blocked gate on a retry, a refused commit, the last *)
(* try) leaves it behind.  It needs Redis and the worker to stay up.         *)
NoStuckApplying == \A a \in Apps : status[a] = "applying" => Pending(a)

(* Every accepted job leaves the queue: tries are counted when a run starts, *)
(* so even endless crashes, shutdowns and retries exhaust max_tries.         *)
JobsDrain == \A a \in Apps : Pending(a) ~> ~Pending(a)

(* An application shown as APPLYING is eventually resolved: with             *)
(* NoStuckApplying a consequence of JobsDrain.                               *)
ApplyingResolves == \A a \in Apps : status[a] = "applying" ~> status[a] # "applying"

(* The inductive invariant behind HumanGate, UniqueActive and the contract:  *)
(* a run exists exactly while its job is "running", rows are enqueued only   *)
(* with consent, and a run that has yet to submit has a try to spare.        *)
PipelineInv ==
    /\ TypeOK
    /\ UniqueActive
    /\ HumanGate
    /\ \A c \in Clients : enq[c] \subseteq Autonomous \cup approved
    /\ \A a \in Apps :
         /\ stage[a] # "none" <=> arq[a] = "running"
         /\ sends[a] <= tries[a]
         /\ stage[a] \in {"load", "gate", "announce", "submit"} => sends[a] < tries[a]

(* The inductive invariant behind NoStuckApplying, where the worker and its  *)
(* Redis stay up: only the run that marked a row leaves it in APPLYING, with *)
(* a session that will write over it, and a waiting job has a try left.      *)
StuckInv ==
    \A a \in Apps :
      /\ arq[a] = "queued" => tries[a] < MaxTries
      /\ status[a] = "applying" =>
           /\ Pending(a)
           /\ stage[a] # "exit"
           /\ stage[a] \notin {"none", "load"} => copy[a] = "applying"

(* The pipeline implements its contract. *)
Contract == INSTANCE ApplyContract
              WITH consent <- approved,
                   open <- {a \in Apps : Pending(a)},
                   attempts <- tries

Implements == Contract!Spec

-----------------------------------------------------------------------------
(* What a comment of the repository says and the code does not do: the run   *)
(* that checks it finds a counterexample.                                    *)

(* models/application.py: one active row per job "prevents duplicate         *)
(* auto-applies".                                                            *)
OneSubmitterPerJob ==
    \A a, b \in Apps : (a # b /\ JobOf[a] = JobOf[b] /\ Submitting(a))
                            => ~Submitting(b)
=============================================================================
