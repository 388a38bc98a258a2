---------------------------- MODULE MatchingProofs ----------------------------
(***************************************************************************)
(* Proofs about Matching for all texts, postings, tables and chains of     *)
(* models: what a longer text does to its score, and that the chain of     *)
(* models is used up before a request fails.                               *)
(***************************************************************************)
EXTENDS Matching, FiniteSetTheorems, TLAPS

-----------------------------------------------------------------------------
(* Shares. *)

(* What rounding down gives. *)
LEMMA QuotientBounds ==
    ASSUME NEW a \in Nat, NEW n \in Nat \ {0}
    PROVE  /\ a \div n \in Nat
           /\ (a \div n) * n <= a
           /\ a < (a \div n) * n + n
OBVIOUS

LEMMA QuotientMonotone ==
    ASSUME NEW a \in Nat, NEW b \in Nat, NEW n \in Nat \ {0}, a <= b
    PROVE  a \div n <= b \div n
<1> DEFINE p == a \div n
           q == b \div n
<1>1. /\ p \in Nat /\ q \in Nat /\ p * n <= a /\ b < q * n + n
  BY QuotientBounds
<1> HIDE DEF p, q
<1>2. SUFFICES ASSUME q + 1 <= p PROVE FALSE
  BY <1>1 DEF p, q
<1>3. PICK k \in Nat : p = q + 1 + k
  <2>1. p - (q + 1) \in Nat /\ p = q + 1 + (p - (q + 1))
    BY <1>1, <1>2
  <2> QED BY <2>1
<1>4. p * n = q * n + n + k * n /\ k * n \in Nat /\ q * n \in Nat /\ p * n \in Nat
  BY <1>1, <1>3
<1> QED BY <1>1, <1>4

(* A share lies between nothing and the whole, and grows with what is had.   *)
LEMMA ShareBounds ==
    ASSUME NEW have, NEW want, IsFiniteSet(want)
    PROVE  Share(have, want) \in 0..Scale
<1>1. CASE want = {}
  BY <1>1 DEF Share, Scale
<1>2. CASE want # {}
  <2> DEFINE n == Cardinality(want)
             c == Cardinality(have \cap want)
  <2>1. n \in Nat \ {0} /\ c \in Nat /\ c <= n
    BY <1>2, FS_Subset, FS_CardinalityType, FS_EmptySet
  <2> HIDE DEF n, c
  <2>2. (Scale * n) \div n = Scale /\ Scale * c <= Scale * n /\ Scale * c \in Nat /\ Scale * n \in Nat
    BY <2>1 DEF Scale
  <2> DEFINE s == (Scale * c) \div n
  <2>3. s \in Nat /\ s <= Scale
    <3> DEFINE q == (Scale * n) \div n
    <3>1. s <= q
      BY <2>1, <2>2, QuotientMonotone
    <3>2. s \in Nat
      BY <2>1, <2>2, QuotientBounds
    <3>3. q = Scale
      BY <2>2
    <3> HIDE DEF s, q
    <3> QED BY <3>1, <3>2, <3>3
  <2>4. Share(have, want) = s
    BY <1>2 DEF Share, n, c
  <2> HIDE DEF s
  <2> QED BY <2>3, <2>4 DEF Scale
<1> QED BY <1>1, <1>2

LEMMA ShareMonotone ==
    ASSUME NEW have, NEW more, NEW want, IsFiniteSet(want), have \cap want \subseteq more
    PROVE  Share(have, want) <= Share(more, want)
<1>1. CASE want = {}
  BY <1>1 DEF Share
<1>2. CASE want # {}
  <2> DEFINE n == Cardinality(want)
             c == Cardinality(have \cap want)
             d == Cardinality(more \cap want)
  <2>1. n \in Nat \ {0} /\ c \in Nat /\ d \in Nat /\ c <= d
    <3>1. IsFiniteSet(more \cap want) /\ IsFiniteSet(have \cap want) /\ n \in Nat \ {0}
      BY <1>2, FS_Subset, FS_CardinalityType, FS_EmptySet
    <3>2. have \cap want \subseteq more \cap want
      OBVIOUS
    <3> QED BY <3>1, <3>2, FS_Subset, FS_CardinalityType
  <2> HIDE DEF n, c, d
  <2>2. Scale * c <= Scale * d /\ Scale * c \in Nat /\ Scale * d \in Nat
    BY <2>1 DEF Scale
  <2>3. (Scale * c) \div n <= (Scale * d) \div n
    BY <2>1, <2>2, QuotientMonotone
  <2>4. Share(have, want) = (Scale * c) \div n /\ Share(more, want) = (Scale * d) \div n
    BY <1>2 DEF Share, n, c, d
  <2> QED BY <2>3, <2>4
<1> QED BY <1>1, <1>2

-----------------------------------------------------------------------------
(* The parts of a score, for a posting of the instance.                      *)

LEMMA ScaleFacts ==
    /\ Scale \in Nat /\ 0 < Scale
    /\ Scale \div 2 \in Nat /\ Scale \div 2 <= Scale
    /\ (2 * Scale) \div 10 \in Nat /\ (2 * Scale) \div 10 <= Scale
BY DEF Scale

LEMMA Tenths ==
    ASSUME NEW n \in Nat, NEW x \in Nat, x <= 10 * n
    PROVE  x \div 10 \in Nat /\ 10 * (x \div 10) <= x /\ x \div 10 \in 0..n
<1>1. x \div 10 \in Nat /\ (x \div 10) * 10 <= x
  BY QuotientBounds
<1> QED BY <1>1

Met(skills, want) == {f \in want : HasSkill(skills, f)}

LEMMA SkillScore ==
    ASSUME NEW skills, NEW req, NEW pref, IsFiniteSet(req), IsFiniteSet(pref)
    PROVE  ScoreSkills(skills, req, pref).score \in 0..Scale
<1> DEFINE a == Share(Met(skills, req), req)
           b == Share(Met(skills, pref), pref)
<1>1. a \in 0..Scale /\ b \in 0..Scale
  BY ShareBounds
<1>2. ScoreSkills(skills, req, pref).score \in {Scale \div 2, a, b, (7 * a + 3 * b) \div 10}
  BY DEF ScoreSkills, Met
<1> HIDE DEF a, b
<1>3. 7 * a + 3 * b \in Nat /\ 7 * a + 3 * b <= 10 * Scale
  BY <1>1, ScaleFacts
<1>4. (7 * a + 3 * b) \div 10 \in 0..Scale /\ Scale \div 2 \in 0..Scale
  BY <1>3, Tenths, ScaleFacts
<1> QED BY <1>1, <1>2, <1>4

LEMMA KeywordScore ==
    ASSUME NEW j \in Jobs, NEW t, t.terms \subseteq Terms
    PROVE  AnalyzeKeywords(t, j) \in 0..Scale
<1> DEFINE a == Share(t.terms, j.terms)
           b == Share(t.terms, j.terms \cap Phrases)
           c == Likeness(t.terms, j)
<1>1. a \in 0..Scale /\ b \in 0..Scale /\ c \in 0..Scale
  <2>1. IsFiniteSet(j.terms) /\ IsFiniteSet(j.terms \cap Phrases)
    BY MatchingAssumption, FS_Subset
  <2> QED BY <2>1, MatchingAssumption, ShareBounds
<1>2. AnalyzeKeywords(t, j) \in {0, (4 * a + 3 * c + 3 * b) \div 10}
  BY DEF AnalyzeKeywords
<1> HIDE DEF a, b, c
<1>3. 4 * a + 3 * c + 3 * b \in Nat /\ 4 * a + 3 * c + 3 * b <= 10 * Scale
  BY <1>1, ScaleFacts
<1>4. (4 * a + 3 * c + 3 * b) \div 10 \in 0..Scale /\ 0 \in 0..Scale
  BY <1>3, Tenths, ScaleFacts
<1> QED BY <1>2, <1>4

(* Whatever keys a posting has its skills under, each lists finitely many.   *)
LEMMA ListedSkills ==
    ASSUME NEW j \in Jobs, NEW key
    PROVE  IsFiniteSet(Under(j.skills, key))
BY MatchingAssumption, FS_EmptySet DEF Under

(* Whom no degree is known of has the score of a posting without a level, or *)
(* with one that has no rank, or two tenths.                                 *)
LEMMA EducationScore ==
    ASSUME NEW j \in Jobs
    PROVE  ScoreEducation({}, j) \in {Scale \div 2, Scale, (2 * Scale) \div 10}
<1>1. {EducationRank(d) : d \in {}} \cup {0} = {0}
  OBVIOUS
<1>2. Max({0}) = 0
  BY DEF Max
<1>3. EducationRank(j.education) \in Nat
  BY MatchingAssumption DEF EducationRank
<1> QED BY <1>1, <1>2, <1>3 DEF ScoreEducation

-----------------------------------------------------------------------------
(* More terms in a text. *)

LEMMA MoreSkills ==
    ASSUME NEW terms, NEW more, terms \subseteq more
    PROVE  /\ ExtractSkills(terms) \subseteq ExtractSkills(more)
           /\ \A want : Met(ExtractSkills(terms), want) \subseteq Met(ExtractSkills(more), want)
<1>1. ExtractSkills(terms) \subseteq ExtractSkills(more)
  BY DEF ExtractSkills
<1> QED BY <1>1 DEF Met, HasSkill

LEMMA MoreSkillScore ==
    ASSUME NEW skills, NEW more, NEW req, NEW pref, IsFiniteSet(req), IsFiniteSet(pref),
           \A want : Met(skills, want) \subseteq Met(more, want)
    PROVE  LET old == ScoreSkills(skills, req, pref)
               new == ScoreSkills(more, req, pref)
           IN old.score <= new.score /\ new.missing \subseteq old.missing
<1> DEFINE old == ScoreSkills(skills, req, pref)
           new == ScoreSkills(more, req, pref)
           a == Share(Met(skills, req), req)
           b == Share(Met(skills, pref), pref)
           c == Share(Met(more, req), req)
           d == Share(Met(more, pref), pref)
<1>1. /\ a \in Nat /\ b \in Nat /\ c \in Nat /\ d \in Nat
  BY ShareBounds, ScaleFacts
<1>2. a <= c /\ b <= d
  BY ShareMonotone
<1>3. new.missing \subseteq old.missing
  BY DEF ScoreSkills, Met
<1>4. /\ old.score = IF req = {} /\ pref = {} THEN Scale \div 2
                     ELSE IF pref = {} THEN a
                     ELSE IF req = {} THEN b ELSE (7 * a + 3 * b) \div 10
      /\ new.score = IF req = {} /\ pref = {} THEN Scale \div 2
                     ELSE IF pref = {} THEN c
                     ELSE IF req = {} THEN d ELSE (7 * c + 3 * d) \div 10
  BY DEF ScoreSkills, Met
<1> HIDE DEF a, b, c, d
<1>5. (7 * a + 3 * b) \div 10 <= (7 * c + 3 * d) \div 10
  <2>1. 7 * a + 3 * b \in Nat /\ 7 * c + 3 * d \in Nat /\ 7 * a + 3 * b <= 7 * c + 3 * d
    BY <1>1, <1>2
  <2> QED BY <2>1, QuotientMonotone
<1>6. old.score <= new.score
  <2> HIDE DEF old, new
  <2> QED BY <1>1, <1>2, <1>4, <1>5, ScaleFacts
<1> QED BY <1>3, <1>6

(* Of two texts with words, the second with all terms of the first.          *)
Longer(t, more) ==
    /\ t.terms \subseteq more.terms /\ more.terms \subseteq Terms
    /\ t.chars = "words" /\ more.chars = "words"

LEMMA MoreKeywordScore ==
    ASSUME NEW j \in Jobs, NEW t, NEW more, Longer(t, more),
           Likeness(more.terms, j) >= Likeness(t.terms, j)
    PROVE  AnalyzeKeywords(t, j) <= AnalyzeKeywords(more, j)
<1> DEFINE a == Share(t.terms, j.terms)
           b == Share(t.terms, j.terms \cap Phrases)
           c == Share(more.terms, j.terms)
           d == Share(more.terms, j.terms \cap Phrases)
           m == Likeness(t.terms, j)
           n == Likeness(more.terms, j)
<1>1. /\ IsFiniteSet(j.terms) /\ IsFiniteSet(j.terms \cap Phrases)
      /\ m \in Nat /\ n \in Nat /\ m <= n
  BY MatchingAssumption, FS_Subset, ScaleFacts DEF Longer
<1>2. /\ a \in Nat /\ b \in Nat /\ c \in Nat /\ d \in Nat /\ a <= c /\ b <= d
  BY <1>1, ShareBounds, ShareMonotone, ScaleFacts DEF Longer
<1>3. CASE j.terms = {}
  BY <1>3 DEF AnalyzeKeywords
<1>4. CASE j.terms # {}
  <2>1. /\ AnalyzeKeywords(t, j) = (4 * a + 3 * m + 3 * b) \div 10
        /\ AnalyzeKeywords(more, j) = (4 * c + 3 * n + 3 * d) \div 10
    BY <1>4 DEF AnalyzeKeywords, Longer
  <2> HIDE DEF a, b, c, d, m, n
  <2>2. /\ 4 * a + 3 * m + 3 * b \in Nat /\ 4 * c + 3 * n + 3 * d \in Nat
        /\ 4 * a + 3 * m + 3 * b <= 4 * c + 3 * n + 3 * d
    BY <1>1, <1>2
  <2>3. (4 * a + 3 * m + 3 * b) \div 10 <= (4 * c + 3 * n + 3 * d) \div 10
    BY <2>2, QuotientMonotone
  <2> QED BY <2>1, <2>3
<1> QED BY <1>3, <1>4

(* The engine, for either reading of what a posting requires.  That a longer *)
(* text is no less like the posting is needed for the score only.            *)
LEMMA MoreFullScore ==
    ASSUME NEW j \in Jobs, NEW req, IsFiniteSet(req), NEW t, NEW more, Longer(t, more)
    PROVE  /\ FullScore(more, j, req).missing \subseteq FullScore(t, j, req).missing
           /\ Likeness(more.terms, j) >= Likeness(t.terms, j)
              => FullScore(t, j, req).overall <= FullScore(more, j, req).overall
<1> DEFINE pref == Under(j.skills, "preferred")
           S(x) == ScoreSkills(ExtractSkills(x.terms), req, pref)
           s == S(t).score
           u == S(more).score
           k == AnalyzeKeywords(t, j)
           n == AnalyzeKeywords(more, j)
           e == ScoreEducation({}, j)
<1>0. IsFiniteSet(pref) /\ t.terms \subseteq more.terms /\ t.terms \subseteq Terms /\ more.terms \subseteq Terms
  BY ListedSkills DEF Longer
<1>1. s <= u /\ S(more).missing \subseteq S(t).missing
  <2> HIDE DEF pref
  <2> QED BY <1>0, MoreSkills, MoreSkillScore
<1>2. s \in Nat /\ u \in Nat /\ k \in Nat /\ n \in Nat /\ e \in Nat
  <2>1. s \in Nat /\ u \in Nat
    <3> HIDE DEF pref
    <3> QED BY <1>0, SkillScore, ScaleFacts
  <2> QED BY <1>0, <2>1, KeywordScore, EducationScore, ScaleFacts
<1>3. /\ FullScore(t, j, req).overall = (4 * s + 3 * 0 + 2 * e + k) \div 10
      /\ FullScore(more, j, req).overall = (4 * u + 3 * 0 + 2 * e + n) \div 10
      /\ FullScore(t, j, req).missing = S(t).missing
      /\ FullScore(more, j, req).missing = S(more).missing
  BY DEF FullScore, CandidateProfile, AnalyzeExperience
<1>4. Likeness(more.terms, j) >= Likeness(t.terms, j)
      => (4 * s + 3 * 0 + 2 * e + k) \div 10 <= (4 * u + 3 * 0 + 2 * e + n) \div 10
  <2> HAVE Likeness(more.terms, j) >= Likeness(t.terms, j)
  <2>1. k <= n
    BY MoreKeywordScore
  <2> HIDE DEF s, u, k, n, e
  <2>2. /\ 4 * s + 3 * 0 + 2 * e + k \in Nat /\ 4 * u + 3 * 0 + 2 * e + n \in Nat
        /\ 4 * s + 3 * 0 + 2 * e + k <= 4 * u + 3 * 0 + 2 * e + n
    BY <1>1, <1>2, <2>1
  <2> QED BY <2>2, QuotientMonotone
<1> QED BY <1>1, <1>3, <1>4

LEMMA MoreTextScore ==
    ASSUME NEW j \in Jobs, NEW t, NEW more, t.terms \subseteq more.terms
    PROVE  /\ TextScore(t, j).overall <= TextScore(more, j).overall
           /\ TextScore(more, j).missing \subseteq TextScore(t, j).missing
<1> DEFINE theirs == ExtractSkills(j.terms)
           Skill(x) == IF theirs = {} THEN Scale \div 2 ELSE Share(ExtractSkills(x.terms), theirs)
           s == Skill(t)
           u == Skill(more)
           k == Share(t.terms, j.terms)
           n == Share(more.terms, j.terms)
<1>1. IsFiniteSet(j.terms) /\ IsFiniteSet(theirs)
  <2>1. IsFiniteSet(j.terms)
    BY MatchingAssumption
  <2> DEFINE forms == j.terms \cap DOMAIN Canonical \cap WordBounded
             name == [f \in forms |-> Canonical[f]]
  <2>2. IsFiniteSet(forms)
    BY <2>1, FS_Subset
  <2>3. name \in Surjection(forms, theirs)
    BY DEF Surjection, ExtractSkills
  <2>4. IsFiniteSet(theirs)
    BY <2>2, <2>3, FS_Surjection DEF ExistsSurjection
  <2> QED BY <2>1, <2>4
<1>2. ExtractSkills(t.terms) \subseteq ExtractSkills(more.terms)
  BY MoreSkills
<1>3. s \in Nat /\ u \in Nat /\ k \in Nat /\ n \in Nat /\ s <= u /\ k <= n
  BY <1>1, <1>2, ShareBounds, ShareMonotone, ScaleFacts
<1>4. /\ TextScore(t, j).overall = (s + k) \div 2 /\ TextScore(more, j).overall = (u + n) \div 2
      /\ TextScore(t, j).missing = theirs \ ExtractSkills(t.terms)
      /\ TextScore(more, j).missing = theirs \ ExtractSkills(more.terms)
  BY DEF TextScore
<1>5. (s + k) \div 2 <= (u + n) \div 2
  <2> HIDE DEF s, u, k, n
  <2>1. s + k \in Nat /\ u + n \in Nat /\ s + k <= u + n
    BY <1>3
  <2> QED BY <2>1, QuotientMonotone
<1> QED BY <1>2, <1>4, <1>5

-----------------------------------------------------------------------------
(* The texts of one request. *)

TextsInv == text \in Resumes /\ job \in Jobs

LEMMA TextsInvariant == Spec => []TextsInv
<1>1. Init => TextsInv
  BY DEF Init, TextsInv
<1>2. TextsInv /\ [Next]_vars => TextsInv'
  BY DEF TextsInv, Next, vars, ScoreOriginal, Suggest, AnalyzeJob, ParseFails, SaveOptimized,
         Rescore, Complete
<1> QED BY <1>1, <1>2, PTL DEF Spec

(* One term more in a resume, whichever it is, hides no skill that was found *)
(* and does not lower the fallback's score; nor the engine's, provided spaCy *)
(* finds the longer text no less like the posting.                           *)
THEOREM BetterTextsNeverDoWorse == Spec => []MoreTermsNeverHurt
<1>1. TextsInv => MoreTermsNeverHurt
  <2> SUFFICES ASSUME TextsInv, NEW t \in job.terms \cup DOMAIN Canonical, NEW engine \in BOOLEAN,
                      text.chars = "words"
               PROVE  LET more == [text EXCEPT !.terms = @ \cup {t}]
                      IN /\ Score(more, job, engine).missing \subseteq Score(text, job, engine).missing
                         /\ ~engine \/ Likeness(more.terms, job) >= Likeness(text.terms, job)
                            => Score(more, job, engine).overall >= Score(text, job, engine).overall
    BY DEF MoreTermsNeverHurt
  <2> DEFINE more == [text EXCEPT !.terms = @ \cup {t}]
             req  == Under(job.skills, "required")
  <2>1. text \in Resumes /\ job \in Jobs /\ IsFiniteSet(req)
    BY ListedSkills DEF TextsInv
  <2>2. more.terms = text.terms \cup {t} /\ more.chars = "words" /\ Longer(text, more)
    BY <2>1, MatchingAssumption DEF Longer
  <2>3. /\ Score(text, job, engine) = IF engine THEN FullScore(text, job, req) ELSE TextScore(text, job)
        /\ Score(more, job, engine) = IF engine THEN FullScore(more, job, req) ELSE TextScore(more, job)
    BY <2>2 DEF Score
  <2> HIDE DEF more, req
  <2>4. CASE engine
    <3>1. /\ FullScore(more, job, req).missing \subseteq FullScore(text, job, req).missing
          /\ Likeness(more.terms, job) >= Likeness(text.terms, job)
             => FullScore(text, job, req).overall <= FullScore(more, job, req).overall
      BY <2>1, <2>2, MoreFullScore
    <3>2. /\ Score(text, job, engine) = FullScore(text, job, req)
          /\ Score(more, job, engine) = FullScore(more, job, req)
      BY <2>3, <2>4
    <3> DEFINE old == FullScore(text, job, req)
               new == FullScore(more, job, req)
    <3> HIDE DEF old, new
    <3> QED BY <2>4, <3>1, <3>2 DEF more, old, new
  <2>5. CASE ~engine
    <3>1. /\ TextScore(text, job).overall <= TextScore(more, job).overall
          /\ TextScore(more, job).missing \subseteq TextScore(text, job).missing
      BY <2>1, <2>2, MoreTextScore
    <3> QED BY <2>3, <2>5, <3>1 DEF more
  <2> QED BY <2>4, <2>5
<1> QED BY <1>1, TextsInvariant, PTL

-----------------------------------------------------------------------------
(* The chain of models. *)

Answering == {"json", "prose"}

Searching == {"score", "suggest", "ask"}
Answered == {"parse", "unparsable", "rescore", "done"}
GivenUp == {"rate limited", "timed out", "provider error"}

(* While it searches the chain has a model left; only the last that was      *)
(* asked may have answered.                                                  *)
ChainInv ==
    /\ tried \in Seq(Answers) /\ usage \in {0, 1}
    /\ stage \in Searching \cup Answered \cup GivenUp
    /\ stage \in Searching => Len(tried) < Len(ModelChain)
    /\ stage \in GivenUp => Len(tried) = Len(ModelChain)
    /\ \A i \in 1..(Len(tried) - 1) : tried[i] \notin Answering
    /\ stage \in Answered => tried # << >> /\ tried[Len(tried)] \in Answering
    /\ stage \notin Answered => usage = 0 /\ (tried # << >> => tried[Len(tried)] \notin Answering)

LEMMA ChainIsNotEmpty == Len(ModelChain) \in Nat \ {0}
BY MatchingAssumption DEF ModelChain

LEMMA ChainInvInit == Init => ChainInv
BY ChainIsNotEmpty DEF Init, ChainInv, Searching, Answered, GivenUp

LEMMA ChainInvNext == ChainInv /\ [Next]_vars => ChainInv'
<1> SUFFICES ASSUME ChainInv, [Next]_vars PROVE ChainInv'
  OBVIOUS
<1>0. UNCHANGED own => UNCHANGED ModelChain
  BY DEF ModelChain
<1>1. CASE ScoreOriginal \/ Suggest \/ AnalyzeJob
  BY <1>0, <1>1 DEF ScoreOriginal, Suggest, AnalyzeJob, ChainInv, Searching, Answered, GivenUp
<1>2. ASSUME NEW a \in Answers, Complete(a) PROVE ChainInv'
  <2>1. /\ stage = "ask" /\ tried' = Append(tried, a) /\ UNCHANGED ModelChain
        /\ Len(tried) < Len(ModelChain) /\ usage = 0 /\ tried \in Seq(Answers)
    BY <1>0, <1>2 DEF Complete, ChainInv, Searching, Answered
  <2>2. \A i \in 1..Len(tried) : tried[i] \notin Answering
    BY <2>1 DEF ChainInv, Answered
  <2>3. /\ Len(tried') = Len(tried) + 1 /\ tried'[Len(tried')] = a /\ tried' # << >>
        /\ \A i \in 1..Len(tried) : tried'[i] = tried[i]
        /\ tried' \in Seq(Answers)
    BY <2>1
  <2>4. \A i \in 1..(Len(tried') - 1) : tried'[i] \notin Answering
    BY <2>1, <2>2, <2>3
  <2>5. CASE a \in Answering
    <3>1. stage' = "parse" /\ usage' \in {0, 1}
      BY <1>2, <2>1, <2>5 DEF Complete, Recorded, Answering
    <3> QED BY <2>3, <2>4, <2>5, <3>1 DEF ChainInv, Searching, Answered, GivenUp
  <2>6. CASE a \notin Answering
    <3>1. Caught(a) /\ usage' = 0
      BY <1>2, <2>1, <2>6 DEF Complete, Recorded, Caught, Answering
    <3>2. \/ stage' = "ask" /\ Len(tried') < Len(ModelChain)
          \/ stage' \in GivenUp /\ Len(tried') = Len(ModelChain)
      <4>1. CASE Len(tried) + 1 < Len(ModelChain)
        BY <1>2, <2>3, <2>6, <3>1, <4>1 DEF Complete, Answering
      <4>2. CASE ~ (Len(tried) + 1 < Len(ModelChain))
        <5>1. stage' \in GivenUp
          BY <1>2, <2>6, <3>1, <4>2 DEF Complete, Answering, GivenUp
        <5>2. Len(tried) + 1 = Len(ModelChain)
          BY <2>1, <4>2, ChainIsNotEmpty
        <5> QED BY <2>3, <5>1, <5>2
      <4> QED BY <4>1, <4>2
    <3> QED BY <2>1, <2>3, <2>4, <2>6, <3>1, <3>2 DEF ChainInv, Searching, Answered, GivenUp
  <2> QED BY <2>5, <2>6
<1>3. CASE ParseFails \/ SaveOptimized \/ Rescore
  BY <1>0, <1>3 DEF ParseFails, SaveOptimized, Rescore, ChainInv, Searching, Answered, GivenUp
<1>4. CASE UNCHANGED vars
  BY <1>0, <1>4 DEF vars, ChainInv
<1> QED BY <1>1, <1>2, <1>3, <1>4 DEF Next

(* A request fails only after every model of its chain has, the first answer *)
(* ends the search, and no more than that one is accounted for.              *)
THEOREM WholeChainIsTried == Spec => []EveryModelIsTried
<1>1. ChainInv => EveryModelIsTried
  <2> SUFFICES ASSUME ChainInv PROVE EveryModelIsTried
    OBVIOUS
  <2> DEFINE A == {i \in DOMAIN tried : tried[i] \in Answering}
  <2>1. usage <= Cardinality(A)
    <3>1. CASE stage \in Answered
      <4>1. A = {Len(tried)}
        BY <3>1 DEF ChainInv
      <4>2. Cardinality(A) = 1
        BY <4>1, FS_Singleton
      <4> QED BY <4>2 DEF ChainInv
    <3>2. CASE stage \notin Answered
      <4>1. A = {}
        BY <3>2 DEF ChainInv
      <4>2. Cardinality(A) = 0
        BY <4>1, FS_EmptySet
      <4> QED BY <3>2, <4>2 DEF ChainInv
    <3> QED BY <3>1, <3>2
  <2>2. /\ stage \in {"rate limited", "timed out", "provider error", "raised"} => Len(tried) = Len(ModelChain)
        /\ stage \in {"unparsable", "rescore", "done"} => Last(tried) \in {"json", "prose"}
    BY DEF ChainInv, Searching, Answered, GivenUp, Answering, Last
  <2> QED BY <2>1, <2>2 DEF ChainInv, EveryModelIsTried, Answering
<1> QED BY <1>1, ChainInvInit, ChainInvNext, PTL DEF Spec
=============================================================================
