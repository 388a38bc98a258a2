------------------------------- MODULE Harness -------------------------------
(***************************************************************************)
(* The self-evolving loop of one job site: a browser run takes the site's  *)
(* active skills along, its trajectory is recorded, and a review job       *)
(* judges it, diagnoses a failure, distils a new skill and scores the      *)
(* skills the run used.  Runs and reviews of different users meet in the   *)
(* rows of domain_skills, which are shared.  A session reads a row and     *)
(* writes its changed attributes back later; no row is locked in between.  *)
(* Versions of a site's skills are 1, 2, ... without gaps (a row is never  *)
(* deleted, the next version is the highest plus one), so the rows are a   *)
(* sequence and a skill is its version.                                    *)
(***************************************************************************)
EXTENDS Integers, Sequences, SequencesExt

CONSTANTS Runs,            \* attempts of apply jobs on this site
          Contents,        \* guidance the distiller may write
          Personal,        \* the guidance that holds personal data
          Known,           \* the skills the site has at first
          SkillLimit,      \* load_skills(limit)
          VersionRetries,  \* _VERSION_RETRIES
          MaxTries,        \* arq's max_tries
          None

RETIRE_THRESHOLD == -3

ASSUME HarnessAssumption ==
    /\ None \notin Contents
    /\ SkillLimit \in Nat /\ VersionRetries \in Nat /\ MaxTries \in Nat
    /\ Known \in Seq([content : Contents \ Personal, score : Int])
    /\ \A v \in DOMAIN Known : Known[v].score > RETIRE_THRESHOLD

VARIABLES
    skills,    \* domain_skills: content, score and status of each version
    signals,   \* skill_feedback: up and down signals of each version
    stage,     \* how far each run or its review has got
    used,      \* skills_used of its trajectory
    temp,      \* runs whose materialized resume file still exists
    verdict,   \* what the judge said
    content,   \* what the distiller wrote
    todo,      \* the skills the review has still to score
    seen,      \* the highest version, or the score, the review has read
    left,      \* attempts at inserting a version that remain
    expired,   \* reviews whose session was rolled back
    tries      \* times the review job was started

review == <<verdict, content, todo, seen, left, expired>>
vars == <<skills, signals, stage, used, temp, verdict, content, todo, seen, left, expired, tries>>

Verdicts == {"success", "other"}   \* "partial" and "failed" are treated alike
Ended == {"over", "leaked", "done", "failed", "transient"}
InReview == {"judge", "diagnose", "distil", "dedup", "version", "insert", "close", "score", "write"}

Skill(c, s) == [content |-> c, score |-> s, status |-> "active"]
NoSignals == [up |-> 0, down |-> 0]

Init == /\ skills = [v \in DOMAIN Known |-> Skill(Known[v].content, Known[v].score)]
        /\ signals = [v \in DOMAIN Known |-> NoSignals]
        /\ stage = [r \in Runs |-> "idle"]
        /\ used = [r \in Runs |-> << >>]
        /\ temp = {}
        /\ verdict = [r \in Runs |-> None]
        /\ content = [r \in Runs |-> None]
        /\ todo = [r \in Runs |-> << >>]
        /\ seen = [r \in Runs |-> 0]
        /\ left = [r \in Runs |-> 0]
        /\ expired = {}
        /\ tries = [r \in Runs |-> 0]

GoTo(r, s) == stage' = [stage EXCEPT ![r] = s]

-----------------------------------------------------------------------------
(* The browser run: run_apply. *)

Active == {v \in DOMAIN skills : skills[v].status = "active"}

Better(v, w) == \/ skills[v].score > skills[w].score
                \/ skills[v].score = skills[w].score /\ v > w

(* What load_skills may return: active rows, the best score first, then the  *)
(* newest version, and no better row left out.                               *)
LoadSkills == {load \in UNION {[1..n -> Active] : n \in 0..SkillLimit} :
                 /\ \A i, j \in DOMAIN load : i < j => Better(load[i], load[j])
                 /\ \A v \in Active \ Range(load) :
                        Len(load) = SkillLimit /\ \A i \in DOMAIN load : Better(load[i], v)}

(* No job, resume, file name, site session or key, or the file cannot be     *)
(* read: the run is over before there is anything to undo.                   *)
Refuse(r) == /\ stage[r] = "idle" /\ GoTo(r, "over")
             /\ UNCHANGED <<skills, signals, used, temp, review, tries>>

(* The skills are loaded and the resume is materialized; then the agent is   *)
(* built.  If that raises, the block that removes the file is not entered.   *)
Prepare(r) == /\ stage[r] = "idle"
              /\ \E s \in {"driving", "leaked"} : GoTo(r, s)
              /\ \E load \in LoadSkills : used' = [used EXCEPT ![r] = load]
              /\ temp' = temp \cup {r}
              /\ UNCHANGED <<skills, signals, review, tries>>

(* Mutant: the removal of the file is not in a finally block. *)
RemovedOnReturn(r, s) == IF s = "record" THEN temp \ {r} ELSE temp

Removed(r, s) == temp \ {r}

(* agent.run returns or raises: the file is removed and the run recorded. A  *)
(* cancellation (job_timeout, SIGTERM) is no Exception: nothing is recorded. *)
AgentEnds(r) == /\ stage[r] = "driving"
                /\ \E s \in {"record", "over"} : GoTo(r, s) /\ temp' = Removed(r, s)
                /\ UNCHANGED <<skills, signals, used, review, tries>>

WorkerDies(r) == /\ stage[r] = "driving" /\ GoTo(r, "leaked")
                 /\ UNCHANGED <<skills, signals, used, temp, review, tries>>

(* The trajectory is committed in a session of its own; a failure is         *)
(* swallowed, the run has its result all the same.                           *)
Record(r) == /\ stage[r] = "record"
             /\ \E s \in {"recorded", "over"} : GoTo(r, s)
             /\ UNCHANGED <<skills, signals, used, temp, review, tries>>

(* Then the review job is enqueued, if there is a pool and Redis accepts it. *)
RecordAndReview(r) == /\ stage[r] = "recorded"
                      /\ \E s \in {"queued", "over"} : GoTo(r, s)
                      /\ UNCHANGED <<skills, signals, used, temp, review, tries>>

-----------------------------------------------------------------------------
(* The review job: review_application_run.  It always begins at the judge.   *)

(* What a job has in its hands is gone when it ends or is put back. *)
Leave(r, s) == /\ GoTo(r, s)
               /\ verdict' = [verdict EXCEPT ![r] = None]
               /\ content' = [content EXCEPT ![r] = None]
               /\ todo' = [todo EXCEPT ![r] = << >>]
               /\ seen' = [seen EXCEPT ![r] = 0]
               /\ left' = [left EXCEPT ![r] = 0]
               /\ expired' = expired \ {r}

(* Mutant: an interrupted try is not counted. *)
NotCounted(r) == tries[r]

NextTry(r) == tries[r] + 1

(* arq takes the job up, at most max_tries times. *)
Start(r) ==
    /\ stage[r] = "queued"
    /\ IF tries[r] = MaxTries
       THEN GoTo(r, "over") /\ UNCHANGED tries
       ELSE GoTo(r, "judge") /\ tries' = [tries EXCEPT ![r] = NextTry(r)]
    /\ UNCHANGED <<skills, signals, used, temp, review>>

(* judge_run answers and record_verdict commits. *)
Judge(r) ==
    /\ stage[r] = "judge"
    /\ \E v \in Verdicts :
         /\ verdict' = [verdict EXCEPT ![r] = v]
         /\ GoTo(r, IF v = "success" THEN "distil" ELSE "diagnose")
    /\ UNCHANGED <<skills, signals, used, temp, content, todo, seen, left, expired, tries>>

(* record_diagnosis commits. *)
Diagnose(r) == /\ stage[r] = "diagnose" /\ GoTo(r, "distil")
               /\ UNCHANGED <<skills, signals, used, temp, review, tries>>

(* Mutant: the gate is skipped. *)
Anything == Contents

PiiClean == Contents \ Personal

(* distil_skill finds nothing durable, or something the PII gate of          *)
(* record_skill rejects, or guidance to store.                               *)
Distil(r) ==
    /\ stage[r] = "distil"
    /\ \E c \in Contents \cup {None} :
         IF c \in PiiClean
         THEN /\ GoTo(r, "dedup")
              /\ content' = [content EXCEPT ![r] = c]
              /\ left' = [left EXCEPT ![r] = VersionRetries]
         ELSE GoTo(r, "close") /\ UNCHANGED <<content, left>>
    /\ UNCHANGED <<skills, signals, used, temp, verdict, todo, seen, expired, tries>>

Twins(c) == {v \in Active : skills[v].content = c}

(* No active row has the guidance, or one has: it is returned.               *)
Dedup(r) ==
    /\ stage[r] = "dedup" /\ Cardinality(Twins(content[r])) <= 1
    /\ GoTo(r, IF Twins(content[r]) = {} THEN "version" ELSE "close")
    /\ UNCHANGED <<skills, signals, used, temp, review, tries>>

(* Two equal active rows are more than scalar_one_or_none accepts.           *)
DedupRaises(r) ==
    /\ stage[r] = "dedup" /\ Cardinality(Twins(content[r])) > 1
    /\ Leave(r, "failed")
    /\ UNCHANGED <<skills, signals, used, temp, tries>>

(* Mutant: the highest version is read once, before the loop. *)
ReadOnce(r) == IF left[r] = VersionRetries THEN Len(skills) ELSE seen[r]

MaxVersion(r) == Len(skills)

(* The highest version is read, or the attempts are over. *)
ReadVersion(r) ==
    /\ stage[r] = "version"
    /\ IF left[r] = 0
       THEN GoTo(r, "close") /\ UNCHANGED <<seen, left>>
       ELSE /\ GoTo(r, "insert")
            /\ seen' = [seen EXCEPT ![r] = MaxVersion(r)]
            /\ left' = [left EXCEPT ![r] = @ - 1]
    /\ UNCHANGED <<skills, signals, used, temp, verdict, content, todo, expired, tries>>

(* INSERT and commit; uq_domain_skill_version refuses a version that exists, *)
(* and the rollback expires every object of the session.                     *)
Insert(r) ==
    /\ stage[r] = "insert"
    /\ IF Len(skills) = seen[r]
       THEN /\ skills' = Append(skills, Skill(content[r], 0))
            /\ signals' = Append(signals, NoSignals)
            /\ GoTo(r, "close") /\ UNCHANGED expired
       ELSE /\ GoTo(r, "version") /\ expired' = expired \cup {r}
            /\ UNCHANGED <<skills, signals>>
    /\ UNCHANGED <<used, temp, verdict, content, todo, seen, left, tries>>

(* Mutant: the site's active skills are scored instead. *)
ScoreActive(r) == SetToSeq(Active)

SkillsUsed(r) == used[r]

(* review_run is over; the skills its run used are to be scored.             *)
Close(r) ==
    /\ stage[r] = "close" /\ r \notin expired
    /\ GoTo(r, "score")
    /\ todo' = [todo EXCEPT ![r] = SkillsUsed(r)]
    /\ content' = [content EXCEPT ![r] = None]
    /\ seen' = [seen EXCEPT ![r] = 0]
    /\ left' = [left EXCEPT ![r] = 0]
    /\ UNCHANGED <<skills, signals, used, temp, verdict, expired, tries>>

(* It logs traj.id first: reading an attribute of an expired object outside  *)
(* a query raises, and the scoring is never reached.                         *)
CloseRaises(r) ==
    /\ stage[r] = "close" /\ r \in expired
    /\ Leave(r, "failed")
    /\ UNCHANGED <<skills, signals, used, temp, tries>>

(* add_feedback, skill by skill: the row is read ...                         *)
ReadScore(r) ==
    /\ stage[r] = "score" /\ todo[r] # << >>
    /\ GoTo(r, "write")
    /\ seen' = [seen EXCEPT ![r] = skills[Head(todo[r])].score]
    /\ UNCHANGED <<skills, signals, used, temp, verdict, content, todo, left, expired, tries>>

(* Mutant: a failure weighs twice. *)
DoubleDelta(r) == IF verdict[r] = "success" THEN 1 ELSE -2

Delta(r) == IF verdict[r] = "success" THEN 1 ELSE -1

Retires(score) == score <= RETIRE_THRESHOLD

(* Mutant: the status follows the score written, back to active as well. *)
StatusFollows(v, score) == IF Retires(score) THEN "retired" ELSE "active"

StatusAfter(v, score) == IF Retires(score) THEN "retired" ELSE skills[v].status

(* ... and the feedback row, the new score and perhaps the status committed. *)
WriteScore(r) ==
    /\ stage[r] = "write"
    /\ LET v == Head(todo[r])
           score == seen[r] + Delta(r)
       IN /\ skills' = [skills EXCEPT ![v].score = score,
                                      ![v].status = StatusAfter(v, score)]
          /\ signals' = IF Delta(r) = 1 THEN [signals EXCEPT ![v].up = @ + 1]
                                        ELSE [signals EXCEPT ![v].down = @ + 1]
    /\ todo' = [todo EXCEPT ![r] = Tail(@)]
    /\ seen' = [seen EXCEPT ![r] = 0]
    /\ GoTo(r, "score")
    /\ UNCHANGED <<used, temp, verdict, content, left, expired, tries>>

Reviewed(r) == /\ stage[r] = "score" /\ todo[r] = << >>
               /\ Leave(r, "done")
               /\ UNCHANGED <<skills, signals, used, temp, tries>>

(* A review ends early: a transient provider error is raised again, which    *)
(* arq does not take for a Retry; any other exception is logged; the job may *)
(* outlast job_timeout.                                                      *)
ReviewRaises(r) ==
    /\ stage[r] \in InReview
    /\ \/ stage[r] \in {"judge", "distil"} /\ Leave(r, "transient")
       \/ Leave(r, "failed")
    /\ UNCHANGED <<skills, signals, used, temp, tries>>

(* SIGTERM cancels it, or the worker dies: arq runs it again from the start, *)
(* in a session of its own.                                                  *)
Interrupt(r) ==
    /\ stage[r] \in InReview /\ Leave(r, "queued")
    /\ UNCHANGED <<skills, signals, used, temp, tries>>

-----------------------------------------------------------------------------
RunStep(r) == \/ Refuse(r) \/ Prepare(r) \/ AgentEnds(r) \/ WorkerDies(r) \/ Record(r) \/ RecordAndReview(r)
ReviewStep(r) == \/ Start(r) \/ Judge(r) \/ Diagnose(r)
                 \/ Distil(r) \/ Dedup(r) \/ DedupRaises(r) \/ ReadVersion(r) \/ Insert(r)
                 \/ Close(r) \/ CloseRaises(r) \/ ReadScore(r) \/ WriteScore(r) \/ Reviewed(r)

Next == \E r \in Runs : RunStep(r) \/ ReviewStep(r) \/ ReviewRaises(r) \/ Interrupt(r)

Spec == Init /\ [][Next]_vars

(* The worker keeps polling its queue and a job is not suspended for ever. *)
FairSpec == Spec /\ \A r \in Runs : WF_vars(ReviewStep(r))

-----------------------------------------------------------------------------
(* Properties. *)

TypeOK ==
    /\ skills \in Seq([content : Contents \ Personal, score : Int, status : {"active", "retired"}])
    /\ signals \in [DOMAIN skills -> [up : Nat, down : Nat]]
    /\ stage \in [Runs -> Ended \cup InReview \cup
                          {"idle", "driving", "record", "recorded", "queued"}]
    /\ used \in [Runs -> Seq(DOMAIN skills)]
    /\ temp \subseteq Runs /\ expired \subseteq Runs
    /\ verdict \in [Runs -> Verdicts \cup {None}]
    /\ content \in [Runs -> Contents \cup {None}]
    /\ todo \in [Runs -> Seq(DOMAIN skills)]
    /\ seen \in [Runs -> Int] /\ left \in [Runs -> Nat] /\ tries \in [Runs -> 0..MaxTries]

(* Scores are lost but never invented: however the writes of several reviews *)
(* overlap, a score has moved down by no more than the skill's down signals  *)
(* and up by no more than its up signals, so a skill is never retired on     *)
(* fewer bad verdicts than the threshold asks for.                           *)
Initial(v) == IF v \in DOMAIN Known THEN Known[v].score ELSE 0
ScoreWithinSignals ==
    \A v \in DOMAIN skills : /\ skills[v].score >= Initial(v) - signals[v].down
                             /\ skills[v].score <= Initial(v) + signals[v].up
                             /\ skills[v].status = "retired" =>
                                    signals[v].down >= Initial(v) - RETIRE_THRESHOLD

(* A retired skill stays retired, and no run that begins later is given it,  *)
(* although a review that read its row before goes on to write a score that  *)
(* may lift it over the threshold again (skills.py:131-136, 141-149).        *)
Retired == {v \in DOMAIN skills : skills[v].status = "retired"}
RetiredForGood ==
    [][\A v \in Retired :
          /\ v \in Retired'
          /\ \A r \in Runs : v \in Range(used'[r]) => v \in Range(used[r])]_vars

(* A review scores each skill of its run once per try and no other, whatever *)
(* was lost or repeated: a skill never has more signals than there were tries *)
(* of reviews whose run used it.                                             *)
Tries(v) == {x \in Runs \X (1..MaxTries) : x[2] <= tries[x[1]] /\ v \in Range(used[x[1]])}
SignalsPerTry ==
    \A v \in DOMAIN skills : signals[v].up + signals[v].down <= Cardinality(Tries(v))

(* An apply run leaves the applicant's file behind only where no handler can *)
(* run: the agent could not be built, or the worker died.                    *)
FileRemoved == \A r \in temp : stage[r] \in {"driving", "leaked"}

(* A review gives up storing a skill only where others have stored at least  *)
(* _VERSION_RETRIES: each of its reads missed a commit.                      *)
GivesUpOnlyWhenBeaten ==
    [][\A r \in Runs : (stage[r] = "version" /\ stage'[r] = "close")
         => Len(skills) >= Len(Known) + VersionRetries]_vars

(* Every recorded run whose review was queued is reviewed or given up: no    *)
(* interruption and no exception leaves a review half done for ever.         *)
ReviewEnds == \A r \in Runs : (stage[r] = "queued") ~> (stage[r] \in Ended)
=============================================================================
