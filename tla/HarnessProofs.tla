--------------------------- MODULE HarnessProofs ---------------------------
(***************************************************************************)
(* Proofs about Harness for any number of runs, any guidance and any       *)
(* limits: the shared skills and their scores stay sound under every       *)
(* interleaving of reviews, although nothing is locked between the reading *)
(* of a row and the writing, and a skill has one signal per try at most.   *)
(***************************************************************************)
EXTENDS Harness, SequenceTheorems, FiniteSetTheorems, TLAPS

USE DEF RETIRE_THRESHOLD

-----------------------------------------------------------------------------
(* The type invariant in three parts: the shared rows, what each run or      *)
(* review has at its stage, and the skills it has loaded or has to score.    *)

Skills == [content : Contents \ Personal, score : Int, status : {"active", "retired"}]
Stages == Ended \cup InReview \cup {"idle", "driving", "record", "recorded", "queued"}

(* A skill that may still be loaded is above the threshold: this rests on    *)
(* the status alone being final, for a late write may lift the score of a    *)
(* retired skill.                                                            *)
ActiveAboveThreshold ==
    \A v \in DOMAIN skills : skills[v].status = "active" => skills[v].score > RETIRE_THRESHOLD

SharedInv == /\ skills \in Seq(Skills)
             /\ signals \in [DOMAIN skills -> [up : Nat, down : Nat]]
             /\ ActiveAboveThreshold

StageInv ==
    /\ stage \in [Runs -> Stages] /\ temp \subseteq Runs /\ expired \subseteq Runs
    /\ verdict \in [Runs -> Verdicts \cup {None}]
    /\ content \in [Runs -> Contents \cup {None}]
    /\ seen \in [Runs -> Int] /\ left \in [Runs -> Nat] /\ tries \in [Runs -> 0..MaxTries]
    /\ \A r \in Runs : stage[r] \in {"dedup", "version", "insert"} => content[r] \in PiiClean
    /\ FileRemoved

ListsInv == /\ used \in [Runs -> Seq(DOMAIN skills)] /\ todo \in [Runs -> Seq(DOMAIN skills)]
            /\ \A r \in Runs : stage[r] = "write" => todo[r] # << >>

HarnessInv == SharedInv /\ StageInv /\ ListsInv

(* The parts hold at first. *)
LEMMA HarnessInvInit == Init => HarnessInv
<1> SUFFICES ASSUME Init PROVE HarnessInv
  OBVIOUS
<1>1. /\ Len(Known) \in Nat /\ DOMAIN Known = 1..Len(Known)
      /\ \A v \in DOMAIN Known : Skill(Known[v].content, Known[v].score) \in Skills
  <2>1. Len(Known) \in Nat /\ DOMAIN Known = 1..Len(Known)
    BY HarnessAssumption, LenProperties
  <2>2. \A v \in DOMAIN Known : Known[v] \in [content : Contents \ Personal, score : Int]
    BY <2>1, HarnessAssumption, ElementOfSeq
  <2> QED BY <2>1, <2>2 DEF Skill, Skills
<1>2. skills \in [1..Len(Known) -> Skills]
  BY <1>1 DEF Init
<1>3. skills \in Seq(Skills) /\ DOMAIN skills = DOMAIN Known
  BY <1>1, <1>2
<1>4. SharedInv
  BY <1>3, HarnessAssumption DEF Init, SharedInv, NoSignals, Skill, ActiveAboveThreshold
<1>5. StageInv
  BY HarnessAssumption DEF Init, StageInv, Stages, Ended, InReview, FileRemoved
<1> QED BY <1>4, <1>5 DEF Init, HarnessInv, ListsInv

(* Versions have no gaps, so the signals are a sequence beside the skills.   *)
LEMMA SignalsAreSeq ==
  ASSUME SharedInv
  PROVE  signals \in Seq([up : Nat, down : Nat]) /\ Len(signals) = Len(skills)
<1>1. Len(skills) \in Nat /\ DOMAIN skills = 1..Len(skills)
  BY LenProperties DEF SharedInv
<1>2. signals \in Seq([up : Nat, down : Nat])
  <2> DEFINE R == [up : Nat, down : Nat]
  <2>1. signals \in [1..Len(skills) -> R]
    BY <1>1 DEF SharedInv
  <2> HIDE DEF R
  <2>2. signals \in Seq(R)
    BY <1>1, <2>1, SeqDef
  <2> QED BY <2>2 DEF R
<1>3. Len(signals) \in Nat /\ 1..Len(signals) = 1..Len(skills)
  BY <1>1, <1>2, LenProperties DEF SharedInv
<1> QED BY <1>1, <1>2, <1>3

(* Every step keeps them; one step of the proof per action.                  *)
LEMMA HarnessInvNext == HarnessInv /\ [Next]_vars => HarnessInv'
<1> SUFFICES ASSUME HarnessInv, [Next]_vars PROVE HarnessInv'
  OBVIOUS
<1>a. SharedInv /\ StageInv /\ ListsInv
  BY DEF HarnessInv
<1> USE DEF Stages, InReview, Ended
<1>c. MaxTries \in Nat /\ VersionRetries \in Nat /\ SkillLimit \in Nat /\ None \notin Contents
  BY HarnessAssumption
(* What the shared rows owe to a step that leaves them alone. *)
<1>b. UNCHANGED <<skills, signals>> => SharedInv'
  BY <1>a DEF SharedInv, ActiveAboveThreshold
<1>1. ASSUME NEW r \in Runs, Refuse(r) PROVE HarnessInv'
  <2>1. SharedInv'
    BY <1>b, <1>1 DEF Refuse
  <2>2. StageInv'
    BY <1>a, <1>1 DEF Refuse, GoTo, StageInv, FileRemoved, review
  <2>3. ListsInv'
    BY <1>a, <1>1 DEF Refuse, GoTo, StageInv, ListsInv, review
  <2> QED BY <2>1, <2>2, <2>3 DEF HarnessInv
<1>2. ASSUME NEW r \in Runs, Prepare(r) PROVE HarnessInv'
  <2>1. \A load \in LoadSkills : load \in Seq(DOMAIN skills)
    BY <1>c DEF LoadSkills, Active
  <2>2. SharedInv'
    BY <1>b, <1>2 DEF Prepare
  <2>3. StageInv'
    BY <1>a, <1>2 DEF Prepare, GoTo, StageInv, FileRemoved, review
  <2>4. ListsInv'
    BY <1>a, <1>2, <2>1 DEF Prepare, GoTo, StageInv, ListsInv, review
  <2> QED BY <2>2, <2>3, <2>4 DEF HarnessInv
<1>3. ASSUME NEW r \in Runs, AgentEnds(r) PROVE HarnessInv'
  <2>1. SharedInv'
    BY <1>b, <1>3 DEF AgentEnds
  <2>2. StageInv'
    BY <1>a, <1>3 DEF AgentEnds, Removed, GoTo, StageInv, FileRemoved, review
  <2>3. ListsInv'
    BY <1>a, <1>3 DEF AgentEnds, Removed, GoTo, StageInv, ListsInv, review
  <2> QED BY <2>1, <2>2, <2>3 DEF HarnessInv
<1>4. ASSUME NEW r \in Runs, WorkerDies(r) PROVE HarnessInv'
  <2>1. SharedInv'
    BY <1>b, <1>4 DEF WorkerDies
  <2>2. StageInv'
    BY <1>a, <1>4 DEF WorkerDies, GoTo, StageInv, FileRemoved, review
  <2>3. ListsInv'
    BY <1>a, <1>4 DEF WorkerDies, GoTo, StageInv, ListsInv, review
  <2> QED BY <2>1, <2>2, <2>3 DEF HarnessInv
<1>5. ASSUME NEW r \in Runs, Record(r) PROVE HarnessInv'
  <2>1. SharedInv'
    BY <1>b, <1>5 DEF Record
  <2>2. StageInv'
    BY <1>a, <1>5 DEF Record, GoTo, StageInv, FileRemoved, review
  <2>3. ListsInv'
    BY <1>a, <1>5 DEF Record, GoTo, StageInv, ListsInv, review
  <2> QED BY <2>1, <2>2, <2>3 DEF HarnessInv
<1>6. ASSUME NEW r \in Runs, RecordAndReview(r) PROVE HarnessInv'
  <2>1. SharedInv'
    BY <1>b, <1>6 DEF RecordAndReview
  <2>2. StageInv'
    BY <1>a, <1>6 DEF RecordAndReview, GoTo, StageInv, FileRemoved, review
  <2>3. ListsInv'
    BY <1>a, <1>6 DEF RecordAndReview, GoTo, StageInv, ListsInv, review
  <2> QED BY <2>1, <2>2, <2>3 DEF HarnessInv
<1>7. ASSUME NEW r \in Runs, Start(r) PROVE HarnessInv'
  <2>1. SharedInv'
    BY <1>b, <1>7 DEF Start
  <2>2. StageInv'
    <3>1. tries' \in [Runs -> 0..MaxTries]
      BY <1>a, <1>c, <1>7 DEF Start, NextTry, StageInv
    <3> QED BY <1>a, <1>7, <3>1 DEF Start, GoTo, StageInv, FileRemoved, review
  <2>3. ListsInv'
    BY <1>a, <1>7 DEF Start, GoTo, StageInv, ListsInv, review
  <2> QED BY <2>1, <2>2, <2>3 DEF HarnessInv
<1>8. ASSUME NEW r \in Runs, Judge(r) PROVE HarnessInv'
  <2>1. SharedInv'
    BY <1>b, <1>8 DEF Judge
  <2>2. StageInv'
    BY <1>a, <1>8 DEF Judge, GoTo, StageInv, FileRemoved, review
  <2>3. ListsInv'
    BY <1>a, <1>8 DEF Judge, GoTo, StageInv, ListsInv, review
  <2> QED BY <2>1, <2>2, <2>3 DEF HarnessInv
<1>9. ASSUME NEW r \in Runs, Diagnose(r) PROVE HarnessInv'
  <2>1. SharedInv'
    BY <1>b, <1>9 DEF Diagnose
  <2>2. StageInv'
    BY <1>a, <1>9 DEF Diagnose, GoTo, StageInv, FileRemoved, review
  <2>3. ListsInv'
    BY <1>a, <1>9 DEF Diagnose, GoTo, StageInv, ListsInv, review
  <2> QED BY <2>1, <2>2, <2>3 DEF HarnessInv
<1>10. ASSUME NEW r \in Runs, Distil(r) PROVE HarnessInv'
  <2>1. SharedInv'
    BY <1>b, <1>10 DEF Distil
  <2>2. StageInv'
    <3>1. /\ left' \in [Runs -> Nat] /\ content' \in [Runs -> Contents \cup {None}]
          /\ content'[r] \in PiiClean \/ stage'[r] = "close"
          /\ \A q \in Runs : q # r => content'[q] = content[q]
          /\ \A q \in Runs : stage'[q] = IF q = r THEN stage'[r] ELSE stage[q]
          /\ stage'[r] \in {"dedup", "close"}
      BY <1>a, <1>c, <1>10 DEF Distil, PiiClean, GoTo, StageInv
    <3> QED BY <1>a, <1>10, <3>1 DEF Distil, PiiClean, GoTo, StageInv, FileRemoved, review
  <2>3. ListsInv'
    BY <1>a, <1>10 DEF Distil, PiiClean, GoTo, StageInv, ListsInv, review
  <2> QED BY <2>1, <2>2, <2>3 DEF HarnessInv
<1>11. ASSUME NEW r \in Runs, Dedup(r) PROVE HarnessInv'
  <2>1. SharedInv'
    BY <1>b, <1>11 DEF Dedup
  <2>2. StageInv'
    BY <1>a, <1>11 DEF Dedup, GoTo, StageInv, FileRemoved, review
  <2>3. ListsInv'
    BY <1>a, <1>11 DEF Dedup, GoTo, StageInv, ListsInv, review
  <2> QED BY <2>1, <2>2, <2>3 DEF HarnessInv
<1>12. ASSUME NEW r \in Runs, DedupRaises(r) PROVE HarnessInv'
  <2>1. SharedInv'
    BY <1>b, <1>12 DEF DedupRaises
  <2>2. StageInv'
    BY <1>a, <1>12 DEF DedupRaises, Leave, GoTo, StageInv, FileRemoved, review
  <2>3. ListsInv'
    BY <1>a, <1>12 DEF DedupRaises, Leave, GoTo, StageInv, ListsInv, review
  <2> QED BY <2>1, <2>2, <2>3 DEF HarnessInv
<1>13. ASSUME NEW r \in Runs, ReadVersion(r) PROVE HarnessInv'
  <2>1. SharedInv'
    BY <1>b, <1>13 DEF ReadVersion
  <2>2. StageInv'
    <3>1. Len(skills) \in Nat /\ left[r] \in Nat
      BY <1>a, LenProperties DEF SharedInv, StageInv
    <3>2. CASE left[r] = 0
      BY <1>a, <1>13, <3>2 DEF ReadVersion, GoTo, StageInv, FileRemoved
    <3>3. CASE left[r] # 0
      <4>1. /\ seen' = [seen EXCEPT ![r] = Len(skills)] /\ left' = [left EXCEPT ![r] = left[r] - 1]
            /\ left[r] - 1 \in Nat
        BY <1>13, <3>1, <3>3 DEF ReadVersion, MaxVersion
      <4>2. seen' \in [Runs -> Int] /\ left' \in [Runs -> Nat]
        BY <1>a, <3>1, <4>1 DEF StageInv
      <4> QED BY <1>a, <1>13, <3>3, <4>2 DEF ReadVersion, GoTo, StageInv, FileRemoved
    <3> QED BY <3>2, <3>3
  <2>3. ListsInv'
    BY <1>a, <1>13 DEF ReadVersion, MaxVersion, GoTo, StageInv, ListsInv, review
  <2> QED BY <2>1, <2>2, <2>3 DEF HarnessInv
<1>14. ASSUME NEW r \in Runs, Insert(r) PROVE HarnessInv'
  <2>1. CASE Len(skills) = seen[r]
    <3>1. Skill(content[r], 0) \in Skills
      BY <1>a, <1>14 DEF Insert, StageInv, Skill, Skills, PiiClean
    <3>2. /\ skills' = Append(skills, Skill(content[r], 0))
          /\ signals' = Append(signals, NoSignals)
      BY <1>14, <2>1 DEF Insert
    <3>3. /\ skills' \in Seq(Skills) /\ Len(skills') = Len(skills) + 1
          /\ DOMAIN skills' = 1..(Len(skills) + 1) /\ DOMAIN skills \subseteq DOMAIN skills'
          /\ \A v \in DOMAIN skills : skills'[v] = skills[v]
          /\ skills'[Len(skills) + 1] = Skill(content[r], 0)
      BY <1>a, <3>1, <3>2 DEF SharedInv
    <3>4. signals' \in [DOMAIN skills' -> [up : Nat, down : Nat]]
      <4>1. signals \in Seq([up : Nat, down : Nat]) /\ Len(signals) = Len(skills)
        BY <1>a, SignalsAreSeq
      <4>2. signals' \in Seq([up : Nat, down : Nat]) /\ Len(signals') = Len(skills) + 1
        BY <3>2, <4>1 DEF NoSignals
      <4> QED BY <3>3, <4>2, LenProperties
    <3>5. SharedInv'
      <4>1. ActiveAboveThreshold'
        <5> SUFFICES ASSUME NEW v \in DOMAIN skills', skills'[v].status = "active"
                     PROVE  skills'[v].score > RETIRE_THRESHOLD
          BY DEF ActiveAboveThreshold
        <5>1. CASE v \in DOMAIN skills
          BY <1>a, <3>3, <5>1 DEF SharedInv, ActiveAboveThreshold
        <5>2. CASE v \notin DOMAIN skills
          <6>1. v = Len(skills) + 1
            BY <1>a, <3>3, <5>2, LenProperties DEF SharedInv
          <6> QED BY <3>3, <6>1 DEF Skill
        <5> QED BY <5>1, <5>2
      <4> QED BY <3>3, <3>4, <4>1 DEF SharedInv
    <3>6. StageInv'
      <4>1. /\ stage[r] = "insert" /\ stage' = [stage EXCEPT ![r] = "close"]
            /\ UNCHANGED <<temp, expired, verdict, content, seen, left, tries>>
        BY <1>14, <2>1 DEF Insert, GoTo
      <4> QED BY <1>a, <4>1 DEF StageInv, FileRemoved
    <3>7. ListsInv'
      <4>1. /\ stage' = [stage EXCEPT ![r] = "close"] /\ UNCHANGED <<used, todo>>
            /\ DOMAIN skills \subseteq DOMAIN skills'
        BY <1>14, <2>1, <3>3 DEF Insert, GoTo
      <4>2. used \in [Runs -> Seq(DOMAIN skills')] /\ todo \in [Runs -> Seq(DOMAIN skills')]
        BY <1>a, <4>1 DEF ListsInv
      <4> QED BY <1>a, <4>1, <4>2 DEF StageInv, ListsInv
    <3> QED BY <3>5, <3>6, <3>7 DEF HarnessInv
  <2>2. CASE Len(skills) # seen[r]
    <3>1. SharedInv'
      BY <1>b, <1>14, <2>2 DEF Insert
    <3>2. StageInv'
      BY <1>a, <1>14 DEF Insert, GoTo, StageInv, FileRemoved
    <3>3. ListsInv'
      BY <1>a, <1>14, <2>2 DEF Insert, GoTo, StageInv, ListsInv
    <3> QED BY <3>1, <3>2, <3>3 DEF HarnessInv
  <2> QED BY <2>1, <2>2
<1>15. ASSUME NEW r \in Runs, Close(r) PROVE HarnessInv'
  <2>1. SharedInv'
    BY <1>b, <1>15 DEF Close
  <2>2. StageInv'
    BY <1>a, <1>15 DEF Close, SkillsUsed, GoTo, StageInv, FileRemoved, review
  <2>3. ListsInv'
    BY <1>a, <1>15 DEF Close, SkillsUsed, GoTo, StageInv, ListsInv, review
  <2> QED BY <2>1, <2>2, <2>3 DEF HarnessInv
<1>16. ASSUME NEW r \in Runs, CloseRaises(r) PROVE HarnessInv'
  <2>1. SharedInv'
    BY <1>b, <1>16 DEF CloseRaises
  <2>2. StageInv'
    BY <1>a, <1>16 DEF CloseRaises, Leave, GoTo, StageInv, FileRemoved, review
  <2>3. ListsInv'
    BY <1>a, <1>16 DEF CloseRaises, Leave, GoTo, StageInv, ListsInv, review
  <2> QED BY <2>1, <2>2, <2>3 DEF HarnessInv
<1>17. ASSUME NEW r \in Runs, ReadScore(r) PROVE HarnessInv'
  <2>1. SharedInv'
    BY <1>b, <1>17 DEF ReadScore
  <2>2. StageInv'
    <3>1. todo[r] \in Seq(DOMAIN skills) /\ todo[r] # << >>
      BY <1>a, <1>17 DEF ReadScore, ListsInv
    <3>2. Head(todo[r]) \in DOMAIN skills
      BY <3>1, HeadTailProperties
    <3>3. skills[Head(todo[r])] \in Skills
      BY <1>a, <3>2, ElementOfSeq, LenProperties DEF SharedInv
    <3>4. seen' \in [Runs -> Int]
      BY <1>a, <1>17, <3>3 DEF ReadScore, StageInv, Skills
    <3> QED BY <1>a, <1>17, <3>4 DEF ReadScore, GoTo, StageInv, FileRemoved
  <2>3. ListsInv'
    BY <1>a, <1>17 DEF ReadScore, GoTo, StageInv, ListsInv, review
  <2> QED BY <2>1, <2>2, <2>3 DEF HarnessInv
<1>18. ASSUME NEW r \in Runs, WriteScore(r) PROVE HarnessInv'
  <2> DEFINE v == Head(todo[r])
             score == seen[r] + Delta(r)
  <2>1. /\ v \in DOMAIN skills /\ score \in Int /\ skills[v] \in Skills
        /\ Tail(todo[r]) \in Seq(DOMAIN skills)
    <3>1. todo[r] \in Seq(DOMAIN skills) /\ todo[r] # << >> /\ seen[r] \in Int
      BY <1>a, <1>18 DEF WriteScore, StageInv, ListsInv
    <3>2. v \in DOMAIN skills /\ Tail(todo[r]) \in Seq(DOMAIN skills)
      BY <3>1, HeadTailProperties
    <3>3. skills[v] \in Skills
      BY <1>a, <3>2, ElementOfSeq, LenProperties DEF SharedInv
    <3> QED BY <3>1, <3>2, <3>3 DEF Delta
  <2>2. /\ DOMAIN skills' = DOMAIN skills /\ \A w \in DOMAIN skills : w # v => skills'[w] = skills[w]
        /\ skills'[v] = [skills[v] EXCEPT !.score = score,
                                          !.status = IF Retires(score) THEN "retired" ELSE @]
    BY <1>18, <2>1 DEF WriteScore, StatusAfter
  <2> HIDE DEF v, score
  <2>3. /\ skills'[v] \in Skills
        /\ skills'[v].status = "active" => skills'[v].score > RETIRE_THRESHOLD
    <3>1. CASE Retires(score)
      BY <2>1, <2>2, <3>1 DEF Skills
    <3>2. CASE ~ Retires(score)
      <4>1. skills'[v].score = score /\ skills'[v].status = skills[v].status
              /\ skills'[v].content = skills[v].content /\ skills'[v] \in Skills
        BY <2>1, <2>2, <3>2 DEF Skills
      <4>2. score > RETIRE_THRESHOLD
        BY <2>1, <3>2 DEF Retires
      <4> QED BY <4>1, <4>2
    <3> QED BY <3>1, <3>2
  <2>4. skills' \in Seq(Skills)
    <3>1. skills \in Seq(Skills) /\ v \in 1..Len(skills) /\ skills'[v] \in Skills
      BY <1>a, <2>1, <2>3, LenProperties DEF SharedInv
    <3>2. [skills EXCEPT ![v] = skills'[v]] \in Seq(Skills)
      BY <3>1, ExceptSeq
    <3>3. skills' = [skills EXCEPT ![v] = skills'[v]]
      BY <1>18, <2>1 DEF WriteScore, v
    <3> QED BY <3>2, <3>3
  <2>5. signals' \in [DOMAIN skills' -> [up : Nat, down : Nat]]
    <3>1. signals[v] \in [up : Nat, down : Nat]
      BY <1>a, <2>1 DEF SharedInv
    <3>2. \/ signals' = [signals EXCEPT ![v] = [signals[v] EXCEPT !.up = @ + 1]]
          \/ signals' = [signals EXCEPT ![v] = [signals[v] EXCEPT !.down = @ + 1]]
      BY <1>18 DEF WriteScore, v
    <3>3. /\ [signals[v] EXCEPT !.up = @ + 1] \in [up : Nat, down : Nat]
          /\ [signals[v] EXCEPT !.down = @ + 1] \in [up : Nat, down : Nat]
      BY <3>1
    <3> QED BY <1>a, <2>2, <3>2, <3>3 DEF SharedInv
  <2>6. SharedInv'
    BY <1>a, <2>2, <2>3, <2>4, <2>5 DEF SharedInv, ActiveAboveThreshold
  <2>7. StageInv'
    BY <1>a, <1>18 DEF WriteScore, GoTo, StageInv, FileRemoved
  <2>8. ListsInv'
    BY <1>a, <1>18, <2>1, <2>2 DEF WriteScore, GoTo, StageInv, ListsInv
  <2> QED BY <2>6, <2>7, <2>8 DEF HarnessInv
<1>19. ASSUME NEW r \in Runs, Reviewed(r) PROVE HarnessInv'
  <2>1. SharedInv'
    BY <1>b, <1>19 DEF Reviewed
  <2>2. StageInv'
    BY <1>a, <1>19 DEF Reviewed, Leave, GoTo, StageInv, FileRemoved, review
  <2>3. ListsInv'
    BY <1>a, <1>19 DEF Reviewed, Leave, GoTo, StageInv, ListsInv, review
  <2> QED BY <2>1, <2>2, <2>3 DEF HarnessInv
<1>20. ASSUME NEW r \in Runs, ReviewRaises(r) PROVE HarnessInv'
  <2>0. \E s \in {"transient", "failed"} : Leave(r, s)
    BY <1>20 DEF ReviewRaises
  <2>1. SharedInv'
    BY <1>b, <1>20 DEF ReviewRaises
  <2>2. StageInv'
    BY <1>a, <1>20, <2>0 DEF ReviewRaises, Leave, GoTo, StageInv, FileRemoved
  <2>3. ListsInv'
    BY <1>a, <1>20, <2>0 DEF ReviewRaises, Leave, GoTo, StageInv, ListsInv
  <2> QED BY <2>1, <2>2, <2>3 DEF HarnessInv
<1>21. ASSUME NEW r \in Runs, Interrupt(r) PROVE HarnessInv'
  <2>1. SharedInv'
    BY <1>b, <1>21 DEF Interrupt
  <2>2. StageInv'
    BY <1>a, <1>21 DEF Interrupt, Leave, GoTo, StageInv, FileRemoved, review
  <2>3. ListsInv'
    BY <1>a, <1>21 DEF Interrupt, Leave, GoTo, StageInv, ListsInv, review
  <2> QED BY <2>1, <2>2, <2>3 DEF HarnessInv
<1>22. CASE UNCHANGED vars
  BY <1>a, <1>b, <1>22 DEF vars, StageInv, ListsInv, FileRemoved, HarnessInv
<1> QED BY <1>1, <1>2, <1>3, <1>4, <1>5, <1>6, <1>7, <1>8, <1>9, <1>10, <1>11,
           <1>12, <1>13, <1>14, <1>15, <1>16, <1>17, <1>18, <1>19, <1>20, <1>21, <1>22 DEF Next, RunStep, ReviewStep

LEMMA HarnessInvariant == Spec => []HarnessInv
BY HarnessInvInit, HarnessInvNext, PTL DEF Spec

-----------------------------------------------------------------------------
(* Every skill is free of personal data, whatever the distiller writes, and  *)
(* every run names skills there are (skills.py:62-70).                       *)
THEOREM TypeCorrect == Spec => []TypeOK
<1>1. HarnessInv => TypeOK
  BY DEF HarnessInv, SharedInv, StageInv, ListsInv, TypeOK, Skills, Stages
<1> QED BY <1>1, HarnessInvariant, PTL

(* The applicant's file outlives its run only where no handler could remove  *)
(* it (apply.py:149-161).                                                    *)
THEOREM ResumeFileIsRemoved == Spec => []FileRemoved
<1>1. HarnessInv => FileRemoved
  BY DEF HarnessInv, StageInv
<1> QED BY <1>1, HarnessInvariant, PTL
-----------------------------------------------------------------------------
(* Scores and signals.  A review that has read a score and not yet written   *)
(* it back holds a value some earlier row had: signals only grow, so it is   *)
(* within the signals of the row it will overwrite.                          *)

Within(v, score) == /\ score >= Initial(v) - signals[v].down
                    /\ score <= Initial(v) + signals[v].up

PendingInv == \A r \in Runs : stage[r] = "write" => Within(Head(todo[r]), seen[r])

ScoreInv == Len(Known) <= Len(skills) /\ ScoreWithinSignals /\ PendingInv

LEMMA ScoreInvInit == Init => ScoreInv
<1> SUFFICES ASSUME Init PROVE ScoreInv
  OBVIOUS
<1>1. /\ Len(Known) \in Nat /\ DOMAIN Known = 1..Len(Known)
      /\ \A v \in DOMAIN Known : Known[v].score \in Int
  <2>1. Len(Known) \in Nat /\ DOMAIN Known = 1..Len(Known)
    BY HarnessAssumption, LenProperties
  <2>2. \A v \in DOMAIN Known : Known[v] \in [content : Contents \ Personal, score : Int]
    BY <2>1, HarnessAssumption, ElementOfSeq
  <2> QED BY <2>1, <2>2
<1>2. skills \in Seq(Skills) /\ DOMAIN skills = DOMAIN Known
  BY HarnessInvInit, <1>1 DEF Init, HarnessInv, SharedInv
<1>3. Len(skills) = Len(Known)
  BY <1>1, <1>2, LenProperties
<1>4. ScoreWithinSignals
  BY <1>1, <1>2 DEF Init, ScoreWithinSignals, Initial, Skill, NoSignals
<1> QED BY <1>1, <1>3, <1>4 DEF Init, ScoreInv, PendingInv

(* A step that leaves the rows alone, and no review newly at its write. *)
LEMMA ScoreQuiet ==
  ASSUME ScoreInv, UNCHANGED <<skills, signals>>,
         \A r \in Runs : stage'[r] = "write" =>
             stage[r] = "write" /\ todo'[r] = todo[r] /\ seen'[r] = seen[r]
  PROVE  ScoreInv'
BY DEF ScoreInv, ScoreWithinSignals, PendingInv, Within

LEMMA ScoreInvNext == HarnessInv /\ ScoreInv /\ [Next]_vars => ScoreInv'
<1> SUFFICES ASSUME HarnessInv, ScoreInv, [Next]_vars PROVE ScoreInv'
  OBVIOUS
<1>a. SharedInv /\ StageInv /\ ListsInv
  BY DEF HarnessInv
<1>b. Len(skills) \in Nat /\ Len(Known) \in Nat /\ DOMAIN Known = 1..Len(Known)
      /\ DOMAIN skills = 1..Len(skills) /\ DOMAIN Known \subseteq DOMAIN skills
  <2>1. Len(skills) \in Nat /\ DOMAIN skills = 1..Len(skills)
    BY <1>a, LenProperties DEF SharedInv
  <2>2. Len(Known) \in Nat /\ DOMAIN Known = 1..Len(Known)
    BY HarnessAssumption, LenProperties
  <2> QED BY <2>1, <2>2 DEF ScoreInv
<1>c. \A v \in DOMAIN skills : Initial(v) \in Int
  <2>1. \A v \in DOMAIN Known : Known[v] \in [content : Contents \ Personal, score : Int]
    BY <1>b, HarnessAssumption, ElementOfSeq
  <2> QED BY <2>1 DEF Initial
<1>d. /\ \A v \in DOMAIN skills : skills[v] \in Skills
      /\ \A v \in DOMAIN skills : signals[v] \in [up : Nat, down : Nat]
  BY <1>a, <1>b, ElementOfSeq DEF SharedInv
<1>e. \A r \in Runs : stage[r] = "write" => Head(todo[r]) \in DOMAIN skills
  BY <1>a, HeadTailProperties DEF ListsInv
<1>1. CASE UNCHANGED vars
  BY <1>1, ScoreQuiet DEF vars, review
<1>2. ASSUME NEW r \in Runs, Refuse(r) PROVE ScoreInv'
  BY <1>a, <1>2, ScoreQuiet DEF Refuse, GoTo, review, StageInv
<1>3. ASSUME NEW r \in Runs, Prepare(r) PROVE ScoreInv'
  BY <1>a, <1>3, ScoreQuiet DEF Prepare, GoTo, review, StageInv
<1>4. ASSUME NEW r \in Runs, AgentEnds(r) PROVE ScoreInv'
  BY <1>a, <1>4, ScoreQuiet DEF AgentEnds, GoTo, review, StageInv
<1>5. ASSUME NEW r \in Runs, WorkerDies(r) PROVE ScoreInv'
  BY <1>a, <1>5, ScoreQuiet DEF WorkerDies, GoTo, review, StageInv
<1>6. ASSUME NEW r \in Runs, Record(r) PROVE ScoreInv'
  BY <1>a, <1>6, ScoreQuiet DEF Record, GoTo, review, StageInv
<1>7. ASSUME NEW r \in Runs, RecordAndReview(r) PROVE ScoreInv'
  BY <1>a, <1>7, ScoreQuiet DEF RecordAndReview, GoTo, review, StageInv
<1>8. ASSUME NEW r \in Runs, Start(r) PROVE ScoreInv'
  BY <1>a, <1>8, ScoreQuiet DEF Start, GoTo, review, StageInv
<1>9. ASSUME NEW r \in Runs, Judge(r) PROVE ScoreInv'
  BY <1>a, <1>9, ScoreQuiet DEF Judge, GoTo, review, StageInv
<1>10. ASSUME NEW r \in Runs, Diagnose(r) PROVE ScoreInv'
  BY <1>a, <1>10, ScoreQuiet DEF Diagnose, GoTo, review, StageInv
<1>11. ASSUME NEW r \in Runs, Distil(r) PROVE ScoreInv'
  BY <1>a, <1>11, ScoreQuiet DEF Distil, GoTo, review, StageInv
<1>12. ASSUME NEW r \in Runs, Dedup(r) PROVE ScoreInv'
  BY <1>a, <1>12, ScoreQuiet DEF Dedup, GoTo, review, StageInv
<1>13. ASSUME NEW r \in Runs, DedupRaises(r) PROVE ScoreInv'
  BY <1>a, <1>13, ScoreQuiet DEF DedupRaises, Leave, GoTo, review, StageInv
<1>14. ASSUME NEW r \in Runs, ReadVersion(r) PROVE ScoreInv'
  BY <1>a, <1>14, ScoreQuiet DEF ReadVersion, GoTo, review, StageInv
<1>15. ASSUME NEW r \in Runs, Close(r) PROVE ScoreInv'
  BY <1>a, <1>15, ScoreQuiet DEF Close, GoTo, review, StageInv
<1>16. ASSUME NEW r \in Runs, CloseRaises(r) PROVE ScoreInv'
  BY <1>a, <1>16, ScoreQuiet DEF CloseRaises, Leave, GoTo, review, StageInv
<1>17. ASSUME NEW r \in Runs, Reviewed(r) PROVE ScoreInv'
  BY <1>a, <1>17, ScoreQuiet DEF Reviewed, Leave, GoTo, review, StageInv
<1>18. ASSUME NEW r \in Runs, ReviewRaises(r) PROVE ScoreInv'
  <2>1. \E x \in {"transient", "failed"} : Leave(r, x)
    BY <1>18 DEF ReviewRaises
  <2> QED BY <1>a, <1>18, <2>1, ScoreQuiet DEF ReviewRaises, Leave, GoTo, StageInv
<1>19. ASSUME NEW r \in Runs, Interrupt(r) PROVE ScoreInv'
  BY <1>a, <1>19, ScoreQuiet DEF Interrupt, Leave, GoTo, review, StageInv
<1>20. ASSUME NEW r \in Runs, Insert(r) PROVE ScoreInv'
  <2>1. CASE Len(skills) # seen[r]
    BY <1>a, <1>20, <2>1, ScoreQuiet DEF Insert, GoTo, StageInv
  <2>2. CASE Len(skills) = seen[r]
    <3>1. /\ skills' = Append(skills, Skill(content[r], 0))
          /\ signals' = Append(signals, NoSignals)
          /\ stage' = [stage EXCEPT ![r] = "close"] /\ UNCHANGED <<todo, seen>>
      BY <1>20, <2>2 DEF Insert, GoTo
    <3>2. signals \in Seq([up : Nat, down : Nat]) /\ Len(signals) = Len(skills)
      BY <1>a, SignalsAreSeq
    <3>3. /\ Len(skills') = Len(skills) + 1 /\ DOMAIN skills' = 1..(Len(skills) + 1)
          /\ \A v \in DOMAIN skills : skills'[v] = skills[v] /\ signals'[v] = signals[v]
          /\ skills'[Len(skills) + 1] = Skill(content[r], 0)
          /\ signals'[Len(skills) + 1] = NoSignals
      <4>1. /\ Len(skills') = Len(skills) + 1 /\ DOMAIN skills' = 1..(Len(skills) + 1)
            /\ \A v \in DOMAIN skills : skills'[v] = skills[v]
            /\ skills'[Len(skills) + 1] = Skill(content[r], 0)
        BY <1>a, <1>b, <3>1 DEF SharedInv
      <4>2. /\ \A v \in DOMAIN skills : signals'[v] = signals[v]
            /\ signals'[Len(skills) + 1] = NoSignals
        BY <1>b, <3>1, <3>2
      <4> QED BY <4>1, <4>2
    <3>4. Initial(Len(skills) + 1) = 0
      BY <1>b DEF Initial
    <3>5. ScoreWithinSignals'
      <4> SUFFICES ASSUME NEW v \in DOMAIN skills'
                   PROVE  /\ skills'[v].score >= Initial(v) - signals'[v].down
                          /\ skills'[v].score <= Initial(v) + signals'[v].up
                          /\ skills'[v].status = "retired" =>
                                 signals'[v].down >= Initial(v) - RETIRE_THRESHOLD
        BY DEF ScoreWithinSignals, Initial
      <4>1. CASE v \in DOMAIN skills
        BY <3>3, <4>1 DEF ScoreInv, ScoreWithinSignals
      <4>2. CASE v = Len(skills) + 1
        BY <3>3, <3>4, <4>2 DEF Skill, NoSignals
      <4> QED BY <1>b, <3>3, <4>1, <4>2
    <3>6. PendingInv'
      BY <1>a, <1>e, <3>1, <3>3 DEF ScoreInv, PendingInv, Within, Initial, StageInv
    <3> QED BY <1>b, <3>3, <3>5, <3>6 DEF ScoreInv
  <2> QED BY <2>1, <2>2
<1>21. ASSUME NEW r \in Runs, ReadScore(r) PROVE ScoreInv'
  <2> DEFINE v == Head(todo[r])
  <2>1. v \in DOMAIN skills
    BY <1>a, <1>21, HeadTailProperties DEF ReadScore, ListsInv
  <2>2. seen'[r] = skills[v].score /\ \A q \in Runs : q # r => seen'[q] = seen[q]
    BY <1>a, <1>21 DEF ReadScore, StageInv
  <2>3. UNCHANGED <<skills, signals, todo>> /\ \A q \in Runs : q # r => stage'[q] = stage[q]
    BY <1>a, <1>21 DEF ReadScore, GoTo, StageInv
  <2>4. Within(v, skills[v].score)
    BY <2>1 DEF ScoreInv, ScoreWithinSignals, Within
  <2> HIDE DEF v
  <2>5. PendingInv'
    <3> SUFFICES ASSUME NEW q \in Runs, stage'[q] = "write"
                 PROVE  Within(Head(todo[q]), seen'[q])
      BY <2>3 DEF PendingInv, Within, Initial
    <3>1. CASE q = r
      BY <2>2, <2>4, <3>1 DEF v
    <3>2. CASE q # r
      BY <2>2, <2>3, <3>2 DEF ScoreInv, PendingInv
    <3> QED BY <3>1, <3>2
  <2> QED BY <2>3, <2>5 DEF ScoreInv, ScoreWithinSignals
<1>22. ASSUME NEW r \in Runs, WriteScore(r) PROVE ScoreInv'
  <2> DEFINE v == Head(todo[r])
             score == seen[r] + Delta(r)
  <2>1. v \in DOMAIN skills /\ seen[r] \in Int /\ Within(v, seen[r])
    BY <1>a, <1>e, <1>22 DEF WriteScore, ScoreInv, PendingInv, StageInv
  <2>2. /\ DOMAIN skills' = DOMAIN skills /\ Len(skills') = Len(skills)
        /\ \A w \in DOMAIN skills : w # v => skills'[w] = skills[w]
        /\ skills'[v].score = score
        /\ skills'[v].status = "retired" => score <= RETIRE_THRESHOLD \/ skills[v].status = "retired"
    <3>1. skills' = [skills EXCEPT ![v].score = score,
                                   ![v].status = StatusAfter(v, score)]
      BY <1>22 DEF WriteScore
    <3>2. skills' \in Seq(Skills)
      BY <1>a, <1>22, HarnessInvNext DEF HarnessInv, SharedInv, Next, ReviewStep
    <3>3. DOMAIN skills' = DOMAIN skills
      BY <3>1
    <3>4. Len(skills') = Len(skills)
      BY <1>b, <3>2, <3>3, LenProperties
    <3> QED BY <1>d, <2>1, <3>1, <3>3, <3>4 DEF StatusAfter, Retires, Skills
  <2>3. \/ /\ Delta(r) = 1 /\ signals'[v].up = signals[v].up + 1 /\ signals'[v].down = signals[v].down
        \/ /\ Delta(r) = -1 /\ signals'[v].up = signals[v].up /\ signals'[v].down = signals[v].down + 1
    BY <1>a, <1>d, <1>22, <2>1 DEF WriteScore, SharedInv, Delta
  <2>4. \A w \in DOMAIN skills : w # v => signals'[w] = signals[w]
    BY <1>a, <1>22, <2>1 DEF WriteScore, SharedInv
  <2>5. \A q \in Runs : q # r => stage'[q] = stage[q] /\ todo'[q] = todo[q] /\ seen'[q] = seen[q]
    BY <1>a, <1>22 DEF WriteScore, GoTo, StageInv, ListsInv
  <2>6. stage'[r] = "score"
    BY <1>a, <1>22 DEF WriteScore, GoTo, StageInv
  <2> HIDE DEF v, score
  <2>7. ScoreWithinSignals'
    <3> SUFFICES ASSUME NEW w \in DOMAIN skills
                 PROVE  /\ skills'[w].score >= Initial(w) - signals'[w].down
                        /\ skills'[w].score <= Initial(w) + signals'[w].up
                        /\ skills'[w].status = "retired" =>
                               signals'[w].down >= Initial(w) - RETIRE_THRESHOLD
      BY <2>2 DEF ScoreWithinSignals, Initial
    <3>1. CASE w # v
      BY <2>2, <2>4, <3>1 DEF ScoreInv, ScoreWithinSignals
    <3>2. CASE w = v
      <4>1. signals[v].up \in Nat /\ signals[v].down \in Nat /\ Initial(v) \in Int
        BY <1>c, <1>d, <2>1
      <4>2. score >= Initial(v) - signals'[v].down /\ score <= Initial(v) + signals'[v].up
        BY <2>1, <2>3, <4>1 DEF Within, score
      <4>3. skills[v].status = "retired" => signals[v].down >= Initial(v) - RETIRE_THRESHOLD
        BY <2>1 DEF ScoreInv, ScoreWithinSignals
      <4>4. score \in Int /\ signals'[v].down \in Int /\ signals'[v].down >= signals[v].down
        BY <2>1, <2>3, <4>1 DEF score
      <4>5. skills'[v].status = "retired" => signals'[v].down >= Initial(v) - RETIRE_THRESHOLD
        BY <2>2, <4>1, <4>2, <4>3, <4>4
      <4> QED BY <2>2, <3>2, <4>2, <4>5
    <3> QED BY <3>1, <3>2
  <2>8. PendingInv'
    <3> SUFFICES ASSUME NEW q \in Runs, stage'[q] = "write"
                 PROVE  Within(Head(todo[q]), seen[q])'
      BY DEF PendingInv
    <3>1. q # r /\ stage[q] = "write" /\ todo'[q] = todo[q] /\ seen'[q] = seen[q]
      BY <2>5, <2>6
    <3> DEFINE w == Head(todo[q])
    <3>2. w \in DOMAIN skills /\ Within(w, seen[q]) /\ seen[q] \in Int
      BY <1>a, <1>e, <3>1 DEF ScoreInv, PendingInv, StageInv
    <3>3. signals[w].up \in Nat /\ signals[w].down \in Nat /\ Initial(w) \in Int
      BY <1>c, <1>d, <3>2
    <3>4. signals'[w].up >= signals[w].up /\ signals'[w].down >= signals[w].down
      <4>1. CASE w = v
        BY <2>3, <3>3, <4>1
      <4>2. CASE w # v
        BY <2>4, <3>2, <3>3, <4>2
      <4> QED BY <4>1, <4>2
    <3>5. signals'[w].up \in Int /\ signals'[w].down \in Int
      BY <2>3, <2>4, <3>2, <3>3
    <3> HIDE DEF w
    <3>6. seen[q] >= Initial(w) - signals'[w].down /\ seen[q] <= Initial(w) + signals'[w].up
      BY <3>2, <3>3, <3>4, <3>5 DEF Within
    <3> QED BY <3>1, <3>6 DEF Within, Initial, w
  <2> QED BY <2>2, <2>7, <2>8 DEF ScoreInv
<1> QED BY <1>1, <1>2, <1>3, <1>4, <1>5, <1>6, <1>7, <1>8, <1>9, <1>10, <1>11, <1>12, <1>13, <1>14, <1>15, <1>16, <1>17, <1>18, <1>19, <1>20, <1>21, <1>22
        DEF Next, RunStep, ReviewStep

(* Scores are lost but never invented (skills.py:128-136): however reviews   *)
(* overlap, are interrupted and repeated, a score is within the skill's      *)
(* signals, and a skill is retired only on enough bad ones.                  *)
THEOREM ScoresAreEarned == Spec => []ScoreWithinSignals
<1>1. ScoreInv => ScoreWithinSignals
  BY DEF ScoreInv
<1> QED BY <1>1, ScoreInvInit, ScoreInvNext, HarnessInvariant, PTL DEF Spec
-----------------------------------------------------------------------------
(* Storing a skill.  Every attempt a review has used up was lost to a        *)
(* version committed after it had read the highest one.                      *)

BeatenInv ==
    \A r \in Runs :
        /\ stage[r] = "dedup" => left[r] = VersionRetries
        /\ stage[r] = "version" => Len(skills) >= Len(Known) + VersionRetries - left[r]
        /\ stage[r] = "insert" => /\ seen[r] <= Len(skills)
                                  /\ seen[r] >= Len(Known) + VersionRetries - left[r] - 1

(* Rows are only added, and what a review has in its hands stays there while *)
(* it stores a skill; so a step of another review, or of a run, does no harm. *)
LEMMA BeatenQuiet ==
  ASSUME HarnessInv, BeatenInv, Len(Known) <= Len(skills),
         Len(skills') \in Nat, Len(skills') >= Len(skills),
         NEW r \in Runs, stage'[r] \notin {"dedup", "version", "insert"},
         \A q \in Runs : q # r => stage'[q] = stage[q] /\ left'[q] = left[q] /\ seen'[q] = seen[q]
  PROVE  BeatenInv'
<1>1. Len(skills) \in Nat /\ Len(Known) \in Nat /\ VersionRetries \in Nat
  BY HarnessAssumption, LenProperties DEF HarnessInv, SharedInv
<1>2. \A q \in Runs : left[q] \in Nat /\ seen[q] \in Int
  BY DEF HarnessInv, StageInv
<1> SUFFICES ASSUME NEW q \in Runs
             PROVE  /\ stage'[q] = "dedup" => left'[q] = VersionRetries
                    /\ stage'[q] = "version" => Len(skills') >= Len(Known) + VersionRetries - left'[q]
                    /\ stage'[q] = "insert" => /\ seen'[q] <= Len(skills')
                                               /\ seen'[q] >= Len(Known) + VersionRetries - left'[q] - 1
  BY DEF BeatenInv
<1>3. CASE q = r
  BY <1>3
<1>4. CASE q # r
  BY <1>1, <1>2, <1>4 DEF BeatenInv
<1> QED BY <1>3, <1>4

LEMMA BeatenInvNext == HarnessInv /\ ScoreInv /\ BeatenInv /\ [Next]_vars => BeatenInv'
<1> SUFFICES ASSUME HarnessInv, ScoreInv, BeatenInv, [Next]_vars PROVE BeatenInv'
  OBVIOUS
<1>a. SharedInv /\ StageInv /\ ListsInv /\ Len(Known) <= Len(skills)
  BY DEF HarnessInv, ScoreInv
<1>b. Len(skills) \in Nat /\ Len(Known) \in Nat /\ VersionRetries \in Nat
  BY <1>a, HarnessAssumption, LenProperties DEF SharedInv
<1>c. \A q \in Runs : left[q] \in Nat /\ seen[q] \in Int /\ stage[q] \in Stages
  BY <1>a DEF StageInv
<1>1. CASE UNCHANGED vars
  BY <1>1 DEF vars, review, BeatenInv
<1>2. ASSUME NEW r \in Runs, Refuse(r) PROVE BeatenInv'
  BY <1>a, <1>b, <1>2, BeatenQuiet DEF Refuse, GoTo, review, StageInv
<1>3. ASSUME NEW r \in Runs, Prepare(r) PROVE BeatenInv'
  BY <1>a, <1>b, <1>3, BeatenQuiet DEF Prepare, GoTo, review, StageInv
<1>4. ASSUME NEW r \in Runs, AgentEnds(r) PROVE BeatenInv'
  BY <1>a, <1>b, <1>4, BeatenQuiet DEF AgentEnds, GoTo, review, StageInv
<1>5. ASSUME NEW r \in Runs, WorkerDies(r) PROVE BeatenInv'
  BY <1>a, <1>b, <1>5, BeatenQuiet DEF WorkerDies, GoTo, review, StageInv
<1>6. ASSUME NEW r \in Runs, Record(r) PROVE BeatenInv'
  <2>1. \E x \in {"recorded", "over"} : stage' = [stage EXCEPT ![r] = x]
    BY <1>6 DEF Record, GoTo
  <2> QED BY <1>a, <1>b, <1>6, <2>1, BeatenQuiet DEF Record, review, StageInv
<1>7. ASSUME NEW r \in Runs, RecordAndReview(r) PROVE BeatenInv'
  BY <1>a, <1>b, <1>7, BeatenQuiet DEF RecordAndReview, GoTo, review, StageInv
<1>8. ASSUME NEW r \in Runs, Start(r) PROVE BeatenInv'
  <2>1. \E x \in {"over", "judge"} : stage' = [stage EXCEPT ![r] = x]
    BY <1>8 DEF Start, GoTo
  <2> QED BY <1>a, <1>b, <1>8, <2>1, BeatenQuiet DEF Start, review, StageInv
<1>9. ASSUME NEW r \in Runs, Judge(r) PROVE BeatenInv'
  BY <1>a, <1>b, <1>9, BeatenQuiet DEF Judge, GoTo, review, StageInv
<1>10. ASSUME NEW r \in Runs, Diagnose(r) PROVE BeatenInv'
  BY <1>a, <1>b, <1>10, BeatenQuiet DEF Diagnose, GoTo, review, StageInv
<1>11. ASSUME NEW r \in Runs, DedupRaises(r) PROVE BeatenInv'
  BY <1>a, <1>b, <1>11, BeatenQuiet DEF DedupRaises, Leave, GoTo, review, StageInv
<1>12. ASSUME NEW r \in Runs, Close(r) PROVE BeatenInv'
  BY <1>a, <1>b, <1>12, BeatenQuiet DEF Close, GoTo, review, StageInv
<1>13. ASSUME NEW r \in Runs, CloseRaises(r) PROVE BeatenInv'
  BY <1>a, <1>b, <1>13, BeatenQuiet DEF CloseRaises, Leave, GoTo, review, StageInv
<1>14. ASSUME NEW r \in Runs, ReadScore(r) PROVE BeatenInv'
  BY <1>a, <1>b, <1>14, BeatenQuiet DEF ReadScore, GoTo, review, StageInv
<1>15. ASSUME NEW r \in Runs, WriteScore(r) PROVE BeatenInv'
  <2>1. skills' \in Seq(Skills)
    BY <1>15, HarnessInvNext DEF HarnessInv, SharedInv, Next, ReviewStep
  <2>2. DOMAIN skills' = DOMAIN skills
    BY <1>15 DEF WriteScore
  <2>3. Len(skills') = Len(skills)
    BY <1>a, <1>b, <2>1, <2>2, LenProperties DEF SharedInv
  <2>4. /\ stage' = [stage EXCEPT ![r] = "score"] /\ left' = left
        /\ seen' = [seen EXCEPT ![r] = 0]
    BY <1>15 DEF WriteScore, GoTo
  <2> QED BY <1>a, <1>b, <2>3, <2>4, BeatenQuiet DEF StageInv
<1>16. ASSUME NEW r \in Runs, Reviewed(r) PROVE BeatenInv'
  BY <1>a, <1>b, <1>16, BeatenQuiet DEF Reviewed, Leave, GoTo, review, StageInv
<1>17. ASSUME NEW r \in Runs, Interrupt(r) PROVE BeatenInv'
  BY <1>a, <1>b, <1>17, BeatenQuiet DEF Interrupt, Leave, GoTo, review, StageInv
<1>18. ASSUME NEW r \in Runs, ReviewRaises(r) PROVE BeatenInv'
  <2>1. \E x \in {"transient", "failed"} : Leave(r, x)
    BY <1>18 DEF ReviewRaises
  <2> QED BY <1>a, <1>b, <1>18, <2>1, BeatenQuiet DEF ReviewRaises, Leave, GoTo, StageInv
<1>19. ASSUME NEW r \in Runs, Distil(r) PROVE BeatenInv'
  <2>1. /\ UNCHANGED <<skills, seen>>
        /\ \A q \in Runs : q # r => stage'[q] = stage[q] /\ left'[q] = left[q]
        /\ \/ stage'[r] = "dedup" /\ left'[r] = VersionRetries
           \/ stage'[r] = "close"
    BY <1>a, <1>19 DEF Distil, GoTo, StageInv
  <2> QED BY <2>1 DEF BeatenInv
<1>20. ASSUME NEW r \in Runs, Dedup(r) PROVE BeatenInv'
  <2>1. /\ UNCHANGED <<skills, seen, left>> /\ stage[r] = "dedup"
        /\ \A q \in Runs : q # r => stage'[q] = stage[q]
        /\ stage'[r] \in {"version", "close"}
    BY <1>a, <1>20 DEF Dedup, GoTo, StageInv, review
  <2>2. left[r] = VersionRetries
    BY <2>1 DEF BeatenInv
  <2>3. stage'[r] = "version" => Len(skills') >= Len(Known) + VersionRetries - left'[r]
    BY <1>a, <1>b, <2>1, <2>2
  <2>4. /\ skills' = skills /\ seen' = seen /\ left' = left
        /\ stage'[r] # "dedup" /\ stage'[r] # "insert"
    BY <2>1
  <2> QED BY <2>1, <2>3, <2>4 DEF BeatenInv
<1>21. ASSUME NEW r \in Runs, ReadVersion(r) PROVE BeatenInv'
  <2>1. CASE left[r] = 0
    <3>1. stage' = [stage EXCEPT ![r] = "close"] /\ UNCHANGED <<skills, seen, left>>
      BY <1>21, <2>1 DEF ReadVersion, GoTo
    <3> QED BY <1>a, <1>b, <3>1, BeatenQuiet DEF StageInv
  <2>2. CASE left[r] # 0
    <3>1. /\ skills' = skills /\ stage[r] = "version" /\ stage'[r] = "insert"
          /\ seen'[r] = Len(skills) /\ left'[r] = left[r] - 1
          /\ \A q \in Runs : q # r => stage'[q] = stage[q] /\ left'[q] = left[q] /\ seen'[q] = seen[q]
      BY <1>a, <1>21, <2>2 DEF ReadVersion, MaxVersion, GoTo, StageInv
    <3>2. /\ seen'[r] <= Len(skills')
          /\ seen'[r] >= Len(Known) + VersionRetries - left'[r] - 1
      <4>1. Len(skills) >= Len(Known) + VersionRetries - left[r]
        BY <3>1 DEF BeatenInv
      <4> QED BY <1>b, <1>c, <3>1, <4>1
    <3> QED BY <3>1, <3>2 DEF BeatenInv
  <2> QED BY <2>1, <2>2
<1>22. ASSUME NEW r \in Runs, Insert(r) PROVE BeatenInv'
  <2>1. CASE Len(skills) = seen[r]
    <3>1. skills' = Append(skills, Skill(content[r], 0)) /\ left' = left /\ seen' = seen
          /\ stage' = [stage EXCEPT ![r] = "close"]
      BY <1>22, <2>1 DEF Insert, GoTo
    <3>2. Len(skills') = Len(skills) + 1
      BY <1>a, <3>1 DEF SharedInv
    <3> QED BY <1>a, <1>b, <3>1, <3>2, BeatenQuiet DEF StageInv
  <2>2. CASE Len(skills) # seen[r]
    <3>1. /\ skills' = skills /\ left' = left /\ seen' = seen
          /\ stage[r] = "insert" /\ stage'[r] = "version"
          /\ \A q \in Runs : q # r => stage'[q] = stage[q]
      BY <1>a, <1>22, <2>2 DEF Insert, GoTo, StageInv
    <3>2. Len(skills') >= Len(Known) + VersionRetries - left'[r]
      <4>1. seen[r] <= Len(skills) /\ seen[r] >= Len(Known) + VersionRetries - left[r] - 1
        BY <3>1 DEF BeatenInv
      <4> QED BY <1>b, <1>c, <2>2, <3>1, <4>1
    <3> QED BY <3>1, <3>2 DEF BeatenInv
  <2> QED BY <2>1, <2>2
<1> QED BY <1>1, <1>2, <1>3, <1>4, <1>5, <1>6, <1>7, <1>8, <1>9, <1>10, <1>11, <1>12, <1>13, <1>14, <1>15, <1>16, <1>17, <1>18, <1>19, <1>20, <1>21, <1>22
        DEF Next, RunStep, ReviewStep

(* A review that gives up storing a skill was beaten _VERSION_RETRIES times: *)
(* the site has at least that many new versions (skills.py:91-116).          *)
THEOREM GivingUpNeedsRivals == Spec => GivesUpOnlyWhenBeaten
<1>1. Init => BeatenInv
  BY DEF Init, BeatenInv
<1>2. HarnessInv /\ BeatenInv /\ [Next]_vars =>
        [\A r \in Runs : (stage[r] = "version" /\ stage'[r] = "close")
            => Len(skills) >= Len(Known) + VersionRetries]_vars
  <2> SUFFICES ASSUME HarnessInv, BeatenInv, Next, NEW r \in Runs,
                      stage[r] = "version", stage'[r] = "close"
               PROVE  Len(skills) >= Len(Known) + VersionRetries
    OBVIOUS
  <2>1. PICK q \in Runs : RunStep(q) \/ ReviewStep(q) \/ ReviewRaises(q) \/ Interrupt(q)
    BY DEF Next
  <2>2. stage \in [Runs -> Stages] /\ Len(skills) \in Nat /\ Len(Known) \in Nat /\ VersionRetries \in Nat
    BY HarnessAssumption, LenProperties DEF HarnessInv, SharedInv, StageInv
  <2>3. q = r
    BY <2>1, <2>2 DEF RunStep, ReviewStep, Refuse, Prepare, AgentEnds, WorkerDies, Record, RecordAndReview,
          Start, Judge, Diagnose, Distil, Dedup, DedupRaises, ReadVersion, Insert, Close, CloseRaises,
          ReadScore, WriteScore, Reviewed, ReviewRaises, Interrupt, Leave, GoTo
  <2>4. ReadVersion(r)
    BY <2>1, <2>2, <2>3 DEF RunStep, ReviewStep, Refuse, Prepare, AgentEnds, WorkerDies, Record, RecordAndReview,
          Start, Judge, Diagnose, Distil, Dedup, DedupRaises, Insert, Close, CloseRaises,
          ReadScore, WriteScore, Reviewed, ReviewRaises, Interrupt, Leave, GoTo, InReview
  <2>5. left[r] = 0
    BY <2>2, <2>4 DEF ReadVersion, GoTo
  <2> QED BY <2>2, <2>5 DEF BeatenInv
<1> QED BY <1>1, <1>2, BeatenInvNext, ScoreInvInit, ScoreInvNext, HarnessInvariant, PTL DEF Spec, GivesUpOnlyWhenBeaten
-----------------------------------------------------------------------------
(* Signals and tries.  Each signal of a skill is paid for by a try of its    *)
(* own.  A try that is still at work has not spent itself on the skills it   *)
(* has yet to score; one that was interrupted counts as spent.               *)

Owes(r, v) == \/ stage[r] \in InReview \ {"score", "write"}
              \/ stage[r] \in {"score", "write"} /\ v \in Range(todo[r])

Spent(v) == {x \in Tries(v) : x[2] = tries[x[1]] => ~ Owes(x[1], v)}

NoRepeats(list) == \A i, j \in DOMAIN list : list[i] = list[j] => i = j

(* A skill is loaded once for a run, and a review scores those of its run.   *)
UsedInv ==
    \A r \in Runs : /\ NoRepeats(used[r]) /\ NoRepeats(todo[r])
                    /\ Range(todo[r]) \subseteq Range(used[r])
                    /\ stage[r] \notin {"score", "write"} => todo[r] = << >>
                    /\ stage[r] = "idle" => tries[r] = 0
                    /\ stage[r] \in InReview => tries[r] > 0

RoomInv == \A v \in DOMAIN skills : signals[v].up + signals[v].down <= Cardinality(Spent(v))

LEMMA PairsFinite ==
  ASSUME IsFiniteSet(Runs), NEW S, S \subseteq Runs \X (1..MaxTries)
  PROVE  IsFiniteSet(S) /\ Cardinality(S) \in Nat
<1>1. IsFiniteSet(1..MaxTries)
  BY HarnessAssumption, FS_Interval
<1>2. IsFiniteSet(Runs \X (1..MaxTries))
  BY <1>1, FS_Product
<1> QED BY <1>2, FS_Subset, FS_CardinalityType

(* The first skill of a list without repeats is not in the rest of it.       *)
LEMMA TailWithoutRepeats ==
  ASSUME NEW S, NEW list \in Seq(S), list # << >>, NoRepeats(list)
  PROVE  /\ NoRepeats(Tail(list))
         /\ Range(Tail(list)) = Range(list) \ {Head(list)}
         /\ Head(list) \in Range(list)
<1>1. /\ Len(list) \in Nat /\ DOMAIN list = 1..Len(list) /\ Len(list) > 0
      /\ Head(list) = list[1]
  OBVIOUS
<1>2. /\ DOMAIN Tail(list) = 1..(Len(list) - 1)
      /\ \A i \in 1..(Len(list) - 1) : Tail(list)[i] = list[i + 1]
  BY <1>1, HeadTailProperties, LenProperties
<1>3. NoRepeats(Tail(list))
  BY <1>1, <1>2 DEF NoRepeats
<1>4. Head(list) \in Range(list) /\ Head(list) \notin Range(Tail(list))
  BY <1>1, <1>2 DEF NoRepeats, Range
<1>5. Range(Tail(list)) \subseteq Range(list)
  BY <1>1, <1>2 DEF Range
<1>6. ASSUME NEW x \in Range(list), x # Head(list) PROVE x \in Range(Tail(list))
  <2>1. PICK i \in 1..Len(list) : list[i] = x
    BY <1>1 DEF Range
  <2>2. i - 1 \in 1..(Len(list) - 1) /\ Tail(list)[i - 1] = x
    BY <1>1, <1>2, <1>6, <2>1
  <2> QED BY <1>2, <2>2 DEF Range
<1> QED BY <1>3, <1>4, <1>5, <1>6

LEMMA UsedInvNext == HarnessInv /\ UsedInv /\ [Next]_vars => UsedInv'
<1> SUFFICES ASSUME HarnessInv, UsedInv, [Next]_vars PROVE UsedInv'
  OBVIOUS
<1>a. SharedInv /\ StageInv /\ ListsInv
  BY DEF HarnessInv
<1>b. NoRepeats(<< >>) /\ Range(<< >>) = {}
  BY DEF NoRepeats, Range
<1>0. CASE UNCHANGED vars
  BY <1>0 DEF vars, review, UsedInv
<1>1. ASSUME NEW r \in Runs, Refuse(r) PROVE UsedInv'
  BY <1>a, <1>1 DEF Refuse, GoTo, review, UsedInv, StageInv, ListsInv, InReview
<1>2. ASSUME NEW r \in Runs, Prepare(r) PROVE UsedInv'
  <2>1. PICK load \in LoadSkills : used' = [used EXCEPT ![r] = load]
    BY <1>2 DEF Prepare
  <2>2. PICK k \in 0..SkillLimit : load \in [1..k -> Active]
    BY <2>1 DEF LoadSkills
  <2>3. \A i, j \in 1..k : i < j => Better(load[i], load[j])
    BY <2>1, <2>2 DEF LoadSkills
  <2>4. \A v \in Active : ~ Better(v, v)
    <3> SUFFICES ASSUME NEW v \in Active PROVE ~ Better(v, v)
      OBVIOUS
    <3>1. v \in Int /\ skills[v].score \in Int
      <4>1. v \in DOMAIN skills /\ DOMAIN skills = 1..Len(skills) /\ Len(skills) \in Nat
        BY <1>a, LenProperties DEF Active, SharedInv
      <4>2. skills[v] \in Skills
        BY <1>a, <4>1, ElementOfSeq DEF SharedInv
      <4> QED BY <4>1, <4>2 DEF Skills
    <3> QED BY <3>1 DEF Better
  <2>5. NoRepeats(load)
    <3> SUFFICES ASSUME NEW i \in 1..k, NEW j \in 1..k, load[i] = load[j] PROVE i = j
      BY <2>2 DEF NoRepeats
    <3>1. ~ (i < j) /\ ~ (j < i)
      BY <2>2, <2>3, <2>4
    <3> QED BY <3>1
  <2>6. todo[r] = << >>
    BY <1>2 DEF Prepare, UsedInv
  <2> QED BY <1>a, <1>b, <1>2, <2>1, <2>5, <2>6 DEF Prepare, GoTo, review, UsedInv, StageInv, ListsInv, InReview
<1>3. ASSUME NEW r \in Runs, AgentEnds(r) PROVE UsedInv'
  BY <1>a, <1>3 DEF AgentEnds, GoTo, review, UsedInv, StageInv, ListsInv, InReview
<1>4. ASSUME NEW r \in Runs, WorkerDies(r) PROVE UsedInv'
  BY <1>a, <1>4 DEF WorkerDies, GoTo, review, UsedInv, StageInv, ListsInv, InReview
<1>5. ASSUME NEW r \in Runs, Record(r) PROVE UsedInv'
  BY <1>a, <1>5 DEF Record, GoTo, review, UsedInv, StageInv, ListsInv, InReview
<1>6. ASSUME NEW r \in Runs, RecordAndReview(r) PROVE UsedInv'
  BY <1>a, <1>6 DEF RecordAndReview, GoTo, review, UsedInv, StageInv, ListsInv, InReview
<1>7. ASSUME NEW r \in Runs, Start(r) PROVE UsedInv'
  <2>1. \/ stage'[r] = "over" /\ tries'[r] = tries[r]
        \/ stage'[r] = "judge" /\ tries'[r] = tries[r] + 1
    BY <1>a, <1>7 DEF Start, GoTo, NextTry, StageInv
  <2>2. \A q \in Runs : q # r => stage'[q] = stage[q] /\ tries'[q] = tries[q]
    BY <1>a, <1>7 DEF Start, GoTo, StageInv
  <2>3. tries[r] \in Nat /\ stage[r] = "queued" /\ used' = used /\ todo' = todo
    BY <1>a, <1>7, HarnessAssumption DEF Start, review, StageInv
  <2> QED BY <2>1, <2>2, <2>3 DEF UsedInv, InReview
<1>8. ASSUME NEW r \in Runs, Judge(r) PROVE UsedInv'
  BY <1>a, <1>8 DEF Judge, GoTo, UsedInv, StageInv, ListsInv, InReview
<1>9. ASSUME NEW r \in Runs, Diagnose(r) PROVE UsedInv'
  BY <1>a, <1>9 DEF Diagnose, GoTo, review, UsedInv, StageInv, ListsInv, InReview
<1>10. ASSUME NEW r \in Runs, Distil(r) PROVE UsedInv'
  BY <1>a, <1>10 DEF Distil, GoTo, UsedInv, StageInv, ListsInv, InReview
<1>11. ASSUME NEW r \in Runs, Dedup(r) PROVE UsedInv'
  BY <1>a, <1>11 DEF Dedup, GoTo, review, UsedInv, StageInv, ListsInv, InReview
<1>12. ASSUME NEW r \in Runs, DedupRaises(r) PROVE UsedInv'
  BY <1>a, <1>b, <1>12 DEF DedupRaises, Leave, GoTo, UsedInv, StageInv, ListsInv, InReview
<1>13. ASSUME NEW r \in Runs, ReadVersion(r) PROVE UsedInv'
  BY <1>a, <1>13 DEF ReadVersion, GoTo, UsedInv, StageInv, ListsInv, InReview
<1>14. ASSUME NEW r \in Runs, Insert(r) PROVE UsedInv'
  BY <1>a, <1>14 DEF Insert, GoTo, UsedInv, StageInv, ListsInv, InReview
<1>15. ASSUME NEW r \in Runs, Close(r) PROVE UsedInv'
  BY <1>a, <1>15 DEF Close, SkillsUsed, GoTo, UsedInv, StageInv, ListsInv, InReview
<1>16. ASSUME NEW r \in Runs, CloseRaises(r) PROVE UsedInv'
  BY <1>a, <1>b, <1>16 DEF CloseRaises, Leave, GoTo, UsedInv, StageInv, ListsInv, InReview
<1>17. ASSUME NEW r \in Runs, ReadScore(r) PROVE UsedInv'
  BY <1>a, <1>17 DEF ReadScore, GoTo, UsedInv, StageInv, ListsInv, InReview
<1>18. ASSUME NEW r \in Runs, WriteScore(r) PROVE UsedInv'
  <2>1. todo[r] \in Seq(DOMAIN skills) /\ todo[r] # << >> /\ NoRepeats(todo[r])
    <3>1. stage[r] = "write"
      BY <1>18 DEF WriteScore
    <3> QED BY <1>a, <3>1 DEF UsedInv, ListsInv
  <2>2. NoRepeats(Tail(todo[r])) /\ Range(Tail(todo[r])) \subseteq Range(todo[r])
    BY <2>1, TailWithoutRepeats
  <2>3. /\ todo' = [todo EXCEPT ![r] = Tail(todo[r])] /\ stage' = [stage EXCEPT ![r] = "score"]
        /\ stage[r] = "write" /\ used' = used /\ tries' = tries
    BY <1>18 DEF WriteScore, GoTo
  <2> QED BY <1>a, <2>2, <2>3 DEF UsedInv, StageInv, ListsInv, InReview
<1>19. ASSUME NEW r \in Runs, Reviewed(r) PROVE UsedInv'
  BY <1>a, <1>b, <1>19 DEF Reviewed, Leave, GoTo, UsedInv, StageInv, ListsInv, InReview
<1>20. ASSUME NEW r \in Runs, ReviewRaises(r) PROVE UsedInv'
  <2>1. \E x \in {"transient", "failed"} : Leave(r, x)
    BY <1>20 DEF ReviewRaises
  <2> QED BY <1>a, <1>b, <1>20, <2>1 DEF ReviewRaises, Leave, GoTo, UsedInv, StageInv, ListsInv, InReview
<1>21. ASSUME NEW r \in Runs, Interrupt(r) PROVE UsedInv'
  BY <1>a, <1>b, <1>21 DEF Interrupt, Leave, GoTo, UsedInv, StageInv, ListsInv, InReview
<1> QED BY <1>0, <1>1, <1>2, <1>3, <1>4, <1>5, <1>6, <1>7, <1>8, <1>9, <1>10, <1>11, <1>12, <1>13, <1>14, <1>15, <1>16, <1>17, <1>18, <1>19, <1>20, <1>21
        DEF Next, RunStep, ReviewStep

(* What was spent stays spent: a step of r may end a debt of r or begin a     *)
(* new try, and leaves the skills it was given to use alone.                 *)
LEMMA SpentStays ==
  ASSUME HarnessInv, HarnessInv', NEW r \in Runs, NEW v,
         \A q \in Runs : q # r => /\ stage'[q] = stage[q] /\ used'[q] = used[q]
                                 /\ todo'[q] = todo[q] /\ tries'[q] = tries[q],
         used'[r] = used[r] \/ tries[r] = 0,
         \/ tries'[r] = tries[r] /\ (Owes(r, v)' => Owes(r, v))
         \/ tries'[r] = tries[r] + 1
  PROVE  Spent(v) \subseteq Spent(v)'
<1>1. tries \in [Runs -> 0..MaxTries] /\ MaxTries \in Nat
  BY HarnessAssumption DEF HarnessInv, StageInv
<1> SUFFICES ASSUME NEW x \in Spent(v) PROVE x \in Spent(v)'
  OBVIOUS
<1>2. /\ x \in Runs \X (1..MaxTries) /\ x[1] \in Runs /\ x[2] \in 1..MaxTries
      /\ x[2] <= tries[x[1]] /\ v \in Range(used[x[1]])
      /\ x[2] = tries[x[1]] => ~ Owes(x[1], v)
  BY DEF Spent, Tries
<1>3. CASE x[1] # r
  <2>1. Owes(x[1], v)' = Owes(x[1], v)
    BY <1>2, <1>3 DEF Owes
  <2>2. tries'[x[1]] = tries[x[1]] /\ used'[x[1]] = used[x[1]]
    BY <1>2, <1>3
  <2> QED BY <1>2, <2>1, <2>2 DEF Spent, Tries
<1>4. CASE x[1] = r
  <2>1. used'[r] = used[r]
    BY <1>1, <1>2, <1>4
  <2>2. x[2] <= tries'[r] /\ (x[2] = tries'[r] => ~ Owes(r, v)')
    BY <1>1, <1>2, <1>4
  <2> QED BY <1>2, <1>4, <2>1, <2>2 DEF Spent, Tries
<1> QED BY <1>3, <1>4

(* So a step that writes no signal leaves the skills their room.             *)
LEMMA RoomStays ==
  ASSUME IsFiniteSet(Runs), HarnessInv, HarnessInv', RoomInv, UNCHANGED <<skills, signals>>, NEW r \in Runs,
         \A q \in Runs : q # r => /\ stage'[q] = stage[q] /\ used'[q] = used[q]
                                 /\ todo'[q] = todo[q] /\ tries'[q] = tries[q],
         used'[r] = used[r] \/ tries[r] = 0,
         \/ tries'[r] = tries[r] /\ \A v \in DOMAIN skills : Owes(r, v)' => Owes(r, v)
         \/ tries'[r] = tries[r] + 1
  PROVE  RoomInv'
<1> SUFFICES ASSUME NEW v \in DOMAIN skills
             PROVE  signals[v].up + signals[v].down <= Cardinality(Spent(v)')
  BY DEF RoomInv
<1>1. Spent(v) \subseteq Spent(v)'
  BY SpentStays
<1>2. IsFiniteSet(Spent(v)') /\ Cardinality(Spent(v)') \in Nat
  BY PairsFinite DEF Spent, Tries
<1>3. Cardinality(Spent(v)) \in Nat /\ Cardinality(Spent(v)) <= Cardinality(Spent(v)')
  BY <1>1, <1>2, FS_Subset, FS_CardinalityType
<1>4. signals[v].up \in Nat /\ signals[v].down \in Nat
  BY DEF HarnessInv, SharedInv
<1> QED BY <1>2, <1>3, <1>4 DEF RoomInv

LEMMA RoomInvNext ==
  ASSUME IsFiniteSet(Runs)
  PROVE  HarnessInv /\ HarnessInv' /\ UsedInv /\ RoomInv /\ [Next]_vars => RoomInv'
<1> SUFFICES ASSUME HarnessInv, HarnessInv', UsedInv, RoomInv, [Next]_vars PROVE RoomInv'
  OBVIOUS
<1>a. /\ stage \in [Runs -> Stages] /\ tries \in [Runs -> 0..MaxTries]
      /\ used \in [Runs -> Seq(DOMAIN skills)] /\ todo \in [Runs -> Seq(DOMAIN skills)]
  BY DEF HarnessInv, StageInv, ListsInv
<1>b. Range(<< >>) = {}
  BY DEF Range
<1>0. CASE UNCHANGED vars
  BY <1>0 DEF vars, review, RoomInv, Spent, Tries, Owes
<1>1. ASSUME NEW r \in Runs, Refuse(r) PROVE RoomInv'
  BY <1>a, <1>1, RoomStays DEF Refuse, GoTo, review, Owes, InReview
<1>2. ASSUME NEW r \in Runs, Prepare(r) PROVE RoomInv'
  <2>1. tries[r] = 0
    BY <1>2 DEF Prepare, UsedInv
  <2> QED BY <1>a, <1>2, <2>1, RoomStays DEF Prepare, GoTo, review, Owes, InReview
<1>3. ASSUME NEW r \in Runs, AgentEnds(r) PROVE RoomInv'
  BY <1>a, <1>3, RoomStays DEF AgentEnds, GoTo, review, Owes, InReview
<1>4. ASSUME NEW r \in Runs, WorkerDies(r) PROVE RoomInv'
  BY <1>a, <1>4, RoomStays DEF WorkerDies, GoTo, review, Owes, InReview
<1>5. ASSUME NEW r \in Runs, Record(r) PROVE RoomInv'
  BY <1>a, <1>5, RoomStays DEF Record, GoTo, review, Owes, InReview
<1>6. ASSUME NEW r \in Runs, RecordAndReview(r) PROVE RoomInv'
  BY <1>a, <1>6, RoomStays DEF RecordAndReview, GoTo, review, Owes, InReview
<1>7. ASSUME NEW r \in Runs, Start(r) PROVE RoomInv'
  <2>1. CASE tries[r] = MaxTries
    BY <1>a, <1>7, <2>1, RoomStays DEF Start, GoTo, review, Owes, InReview
  <2>2. CASE tries[r] # MaxTries
    BY <1>a, <1>7, <2>2, RoomStays DEF Start, NextTry, GoTo, review
  <2> QED BY <2>1, <2>2
<1>8. ASSUME NEW r \in Runs, Judge(r) PROVE RoomInv'
  BY <1>a, <1>8, RoomStays DEF Judge, GoTo, review, Owes, InReview
<1>9. ASSUME NEW r \in Runs, Diagnose(r) PROVE RoomInv'
  BY <1>a, <1>9, RoomStays DEF Diagnose, GoTo, review, Owes, InReview
<1>10. ASSUME NEW r \in Runs, Distil(r) PROVE RoomInv'
  BY <1>a, <1>10, RoomStays DEF Distil, GoTo, review, Owes, InReview
<1>11. ASSUME NEW r \in Runs, Dedup(r) PROVE RoomInv'
  BY <1>a, <1>11, RoomStays DEF Dedup, GoTo, review, Owes, InReview
<1>12. ASSUME NEW r \in Runs, DedupRaises(r) PROVE RoomInv'
  BY <1>a, <1>12, RoomStays DEF DedupRaises, Leave, GoTo, Owes, InReview
<1>13. ASSUME NEW r \in Runs, ReadVersion(r) PROVE RoomInv'
  BY <1>a, <1>13, RoomStays DEF ReadVersion, GoTo, Owes, InReview
<1>14. ASSUME NEW r \in Runs, Insert(r) PROVE RoomInv'
  <2>1. /\ UNCHANGED <<used, todo, tries>> /\ \A q \in Runs : q # r => stage'[q] = stage[q]
        /\ stage[r] = "insert" /\ stage'[r] \in {"close", "version"}
    BY <1>a, <1>14 DEF Insert, GoTo
  <2>2. CASE UNCHANGED <<skills, signals>>
    BY <2>1, <2>2, RoomStays DEF Owes, InReview
  <2>3. CASE skills' = Append(skills, Skill(content[r], 0)) /\ signals' = Append(signals, NoSignals)
    <3>1. /\ signals \in Seq([up : Nat, down : Nat]) /\ Len(signals) = Len(skills)
          /\ Len(skills) \in Nat /\ DOMAIN skills = 1..Len(skills)
          /\ skills' \in Seq(Skills) /\ Len(skills') = Len(skills) + 1
      BY <2>3, SignalsAreSeq, LenProperties DEF HarnessInv, SharedInv
    <3>2. DOMAIN skills' = 1..(Len(skills) + 1)
      BY <3>1, LenProperties
    <3>3. /\ \A v \in DOMAIN skills : signals'[v] = signals[v]
          /\ signals'[Len(skills) + 1] = NoSignals
      BY <2>3, <3>1
    <3> SUFFICES ASSUME NEW v \in DOMAIN skills'
                 PROVE  signals'[v].up + signals'[v].down <= Cardinality(Spent(v)')
      BY DEF RoomInv
    <3>4. IsFiniteSet(Spent(v)') /\ Cardinality(Spent(v)') \in Nat
      BY PairsFinite DEF Spent, Tries
    <3>5. CASE v \in DOMAIN skills
      <4>1. Spent(v) \subseteq Spent(v)'
        BY <2>1, SpentStays DEF Owes, InReview
      <4>2. Cardinality(Spent(v)) \in Nat /\ Cardinality(Spent(v)) <= Cardinality(Spent(v)')
        BY <3>4, <4>1, FS_Subset, FS_CardinalityType
      <4>3. signals[v].up \in Nat /\ signals[v].down \in Nat
        BY <3>5 DEF HarnessInv, SharedInv
      <4> QED BY <3>3, <3>4, <3>5, <4>2, <4>3 DEF RoomInv
    <3>6. CASE v = Len(skills) + 1
      BY <3>3, <3>4, <3>6 DEF NoSignals
    <3> QED BY <3>1, <3>2, <3>5, <3>6
  <2> QED BY <1>14, <2>2, <2>3 DEF Insert
<1>15. ASSUME NEW r \in Runs, Close(r) PROVE RoomInv'
  BY <1>a, <1>15, RoomStays DEF Close, GoTo, Owes, InReview
<1>16. ASSUME NEW r \in Runs, CloseRaises(r) PROVE RoomInv'
  BY <1>a, <1>16, RoomStays DEF CloseRaises, Leave, GoTo, Owes, InReview
<1>17. ASSUME NEW r \in Runs, ReadScore(r) PROVE RoomInv'
  BY <1>a, <1>17, RoomStays DEF ReadScore, GoTo, review, Owes, InReview
<1>18. ASSUME NEW r \in Runs, WriteScore(r) PROVE RoomInv'
  <2> DEFINE v == Head(todo[r])
  <2>1. /\ stage[r] = "write" /\ stage' = [stage EXCEPT ![r] = "score"]
        /\ todo' = [todo EXCEPT ![r] = Tail(todo[r])] /\ UNCHANGED <<used, tries>>
        /\ DOMAIN skills' = DOMAIN skills
    BY <1>18 DEF WriteScore, GoTo
  <2>2. todo[r] \in Seq(DOMAIN skills) /\ todo[r] # << >> /\ NoRepeats(todo[r])
    BY <1>a, <2>1 DEF HarnessInv, ListsInv, UsedInv
  <2>3. /\ v \in DOMAIN skills /\ v \in Range(todo[r])
        /\ Range(Tail(todo[r])) = Range(todo[r]) \ {v}
    BY <2>2, TailWithoutRepeats, HeadTailProperties
  <2>4. \A w : Owes(r, w)' => Owes(r, w) /\ w # v
    BY <1>a, <2>1, <2>3 DEF Owes, InReview
  <2>5. \A w : Spent(w) \subseteq Spent(w)'
    <3> SUFFICES ASSUME NEW w PROVE Spent(w) \subseteq Spent(w)'
      OBVIOUS
    <3>1. Owes(r, w)' => Owes(r, w)
      BY <2>4
    <3> QED BY <1>a, <2>1, <3>1, SpentStays
  <2>6. \A w : IsFiniteSet(Spent(w)') /\ Cardinality(Spent(w)') \in Nat
    BY PairsFinite DEF Spent, Tries
  <2>7. \A w \in DOMAIN skills : signals[w].up \in Nat /\ signals[w].down \in Nat
    BY DEF HarnessInv, SharedInv
  <2>8. \A w \in DOMAIN skills : w # v => signals'[w] = signals[w]
    BY <1>18, <2>3 DEF WriteScore, HarnessInv, SharedInv
  <2>9. signals'[v].up + signals'[v].down = signals[v].up + signals[v].down + 1
    <3>1. \/ signals' = [signals EXCEPT ![v].up = @ + 1]
          \/ signals' = [signals EXCEPT ![v].down = @ + 1]
      BY <1>18 DEF WriteScore
    <3>2. signals[v] \in [up : Nat, down : Nat] /\ v \in DOMAIN signals
      BY <2>3 DEF HarnessInv, SharedInv
    <3> HIDE DEF v
    <3> QED BY <3>1, <3>2
  <2> HIDE DEF v
  <2> SUFFICES ASSUME NEW w \in DOMAIN skills
               PROVE  signals'[w].up + signals'[w].down <= Cardinality(Spent(w)')
    BY <2>1 DEF RoomInv
  <2>10. signals[w].up + signals[w].down <= Cardinality(Spent(w))
    BY DEF RoomInv
  <2>11. IsFiniteSet(Spent(w)) /\ Cardinality(Spent(w)) \in Nat
    BY <2>5, <2>6, FS_Subset, FS_CardinalityType
  <2>12. CASE w # v
    <3>1. Cardinality(Spent(w)) <= Cardinality(Spent(w)')
      BY <2>5, <2>6, FS_Subset
    <3> QED BY <2>6, <2>7, <2>8, <2>10, <2>11, <2>12, <3>1
  <2>13. CASE w = v
    <3> DEFINE x == <<r, tries[r]>>
    <3>1. x \in Runs \X (1..MaxTries) /\ x[1] = r /\ x[2] = tries[r]
      BY <1>a, <2>1, HarnessAssumption DEF UsedInv, InReview
    <3>2. x \notin Spent(w)
      BY <2>1, <2>3, <2>13, <3>1 DEF Spent, Owes
    <3>3. w \in Range(used[r])
      BY <2>3, <2>13 DEF UsedInv
    <3>4. x \in Spent(w)'
      BY <1>a, <2>1, <2>4, <2>13, <3>1, <3>3, HarnessAssumption DEF Spent, Tries
    <3> HIDE DEF x
    <3>5. Cardinality(Spent(w) \cup {x}) = Cardinality(Spent(w)) + 1
      BY <2>11, <3>2, FS_AddElement
    <3>6. Spent(w) \cup {x} \subseteq Spent(w)'
      BY <2>5, <3>4
    <3>7. Cardinality(Spent(w) \cup {x}) <= Cardinality(Spent(w)')
      BY <2>6, <3>6, FS_Subset
    <3> QED BY <2>6, <2>7, <2>9, <2>10, <2>11, <2>13, <3>5, <3>7
  <2> QED BY <2>12, <2>13
<1>19. ASSUME NEW r \in Runs, Reviewed(r) PROVE RoomInv'
  BY <1>a, <1>19, RoomStays DEF Reviewed, Leave, GoTo, Owes, InReview
<1>20. ASSUME NEW r \in Runs, ReviewRaises(r) PROVE RoomInv'
  <2>1. \E x \in {"transient", "failed"} : Leave(r, x)
    BY <1>20 DEF ReviewRaises
  <2> QED BY <1>a, <1>20, <2>1, RoomStays DEF ReviewRaises, Leave, GoTo, Owes, InReview
<1>21. ASSUME NEW r \in Runs, Interrupt(r) PROVE RoomInv'
  BY <1>a, <1>21, RoomStays DEF Interrupt, Leave, GoTo, Owes, InReview
<1> QED BY <1>0, <1>1, <1>2, <1>3, <1>4, <1>5, <1>6, <1>7, <1>8, <1>9, <1>10, <1>11, <1>12, <1>13, <1>14, <1>15, <1>16, <1>17, <1>18, <1>19, <1>20, <1>21
        DEF Next, RunStep, ReviewStep

(* A review scores each skill of its run once per try and no other: however  *)
(* reviews are interrupted and repeated, a skill has no more signals than    *)
(* there were tries of reviews whose run used it (tasks.py:286-303).         *)
THEOREM OneSignalPerTry ==
  ASSUME IsFiniteSet(Runs)
  PROVE  Spec => []SignalsPerTry
<1>1. Init => UsedInv /\ RoomInv
  <2> SUFFICES ASSUME Init PROVE UsedInv /\ RoomInv
    OBVIOUS
  <2>1. UsedInv
    BY DEF Init, UsedInv, NoRepeats, Range, InReview
  <2>2. \A v : Cardinality(Spent(v)) \in Nat
    BY PairsFinite DEF Spent, Tries
  <2>3. \A v \in DOMAIN skills : signals[v].up = 0 /\ signals[v].down = 0
    BY DEF Init, NoSignals
  <2> QED BY <2>1, <2>2, <2>3 DEF RoomInv
<1>2. HarnessInv /\ RoomInv => SignalsPerTry
  <2> SUFFICES ASSUME HarnessInv, RoomInv, NEW v \in DOMAIN skills
               PROVE  signals[v].up + signals[v].down <= Cardinality(Tries(v))
    BY DEF SignalsPerTry
  <2>1. IsFiniteSet(Tries(v)) /\ Cardinality(Tries(v)) \in Nat /\ Spent(v) \subseteq Tries(v)
    BY PairsFinite DEF Spent, Tries
  <2>2. Cardinality(Spent(v)) \in Nat /\ Cardinality(Spent(v)) <= Cardinality(Tries(v))
    BY <2>1, FS_Subset, FS_CardinalityType
  <2>3. signals[v].up \in Nat /\ signals[v].down \in Nat
    BY DEF HarnessInv, SharedInv
  <2> QED BY <2>1, <2>2, <2>3 DEF RoomInv
<1>3. HarnessInv /\ UsedInv /\ RoomInv /\ [Next]_vars => UsedInv' /\ RoomInv'
  BY UsedInvNext, RoomInvNext, HarnessInvNext
<1> QED BY <1>1, <1>2, <1>3, HarnessInvariant, PTL DEF Spec

-----------------------------------------------------------------------------
(* Retirement. *)

(* RetiredForGood: a retired skill stays retired, and no run that begins     *)
(* later is given it, for any number of reviews that go on writing scores of *)
(* it that they read before (skills.py:131-136, 141-149).                    *)
THEOREM RetirementIsFinal == Spec => RetiredForGood
<1>1. HarnessInv /\ [Next]_vars =>
        [\A v \in Retired : /\ v \in Retired'
                            /\ \A r \in Runs : v \in Range(used'[r]) => v \in Range(used[r])]_vars
  <2> SUFFICES ASSUME HarnessInv, Next, NEW v \in Retired
               PROVE  /\ v \in Retired'
                      /\ \A r \in Runs : v \in Range(used'[r]) => v \in Range(used[r])
    OBVIOUS
  <2>1. PICK q \in Runs : RunStep(q) \/ ReviewStep(q) \/ ReviewRaises(q) \/ Interrupt(q)
    BY DEF Next
  <2>2. TypeOK
    BY DEF HarnessInv, SharedInv, StageInv, ListsInv, TypeOK, Skills, Stages
  <2>3. v \in DOMAIN skills /\ skills[v].status = "retired" /\ v \notin Active
    BY DEF Retired, Active
  <2>4. CASE Prepare(q)
    <3>1. PICK load \in LoadSkills : used' = [used EXCEPT ![q] = load]
      BY <2>4 DEF Prepare
    <3>2. skills' = skills
      BY <2>4 DEF Prepare
    <3>3. Range(load) \subseteq Active
      BY DEF LoadSkills, Range
    <3>4. \A r \in Runs : v \in Range(used'[r]) => v \in Range(used[r])
      BY <2>2, <2>3, <3>1, <3>3 DEF TypeOK
    <3> QED BY <2>3, <3>2, <3>4 DEF Retired
  <2>5. CASE Insert(q)
    <3>1. used' = used
      BY <2>5 DEF Insert
    <3>2. skills' = skills \/ skills' = Append(skills, Skill(content[q], 0))
      BY <2>5 DEF Insert
    <3>3. CASE skills' = skills
      BY <2>3, <3>1, <3>3 DEF Retired
    <3>4. CASE skills' = Append(skills, Skill(content[q], 0))
      <4>1. v \in DOMAIN skills' /\ skills'[v] = skills[v]
        BY <2>2, <2>3, <3>4 DEF TypeOK
      <4> QED BY <2>3, <3>1, <4>1 DEF Retired
    <3> QED BY <3>2, <3>3, <3>4
  <2>6. CASE WriteScore(q)
    <3>1. used' = used
      BY <2>6 DEF WriteScore
    <3> DEFINE w == Head(todo[q])
               score == seen[q] + Delta(q)
    <3>2. skills' = [skills EXCEPT ![w].score = score,
                                   ![w].status = StatusAfter(w, score)]
      BY <2>6 DEF WriteScore
    <3> HIDE DEF w, score
    <3>3. v \in DOMAIN skills' /\ skills'[v].status = "retired"
      BY <2>2, <2>3, <3>2 DEF TypeOK, StatusAfter
    <3> QED BY <3>1, <3>3 DEF Retired
  <2>7. CASE ~ Prepare(q) /\ ~ Insert(q) /\ ~ WriteScore(q)
    <3>1. UNCHANGED <<skills, used>>
      BY <2>1, <2>7 DEF RunStep, ReviewStep, Refuse, AgentEnds, WorkerDies, Record, RecordAndReview,
            Start, Judge, Diagnose, Distil, Dedup, DedupRaises, ReadVersion, Close, CloseRaises,
            ReadScore, Reviewed, ReviewRaises, Interrupt, Leave, review
    <3> QED BY <2>3, <3>1 DEF Retired
  <2> QED BY <2>4, <2>5, <2>6, <2>7
<1> QED BY <1>1, HarnessInvariant, PTL DEF Spec, RetiredForGood
=============================================================================
