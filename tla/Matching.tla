------------------------------ MODULE Matching ------------------------------
(***************************************************************************)
(* How a resume is scored against a job and rewritten for it by an LLM.    *)
(* A text is what it is made of and, of the terms of a vocabulary, those a *)
(* substring search finds in it.  Scores are fractions of Scale.           *)
(* One request of optimize_resume is followed from the first score through *)
(* the chain of models to the score of the rewritten resume; analyze_job   *)
(* is asked about the same texts.                                          *)
(***************************************************************************)
EXTENDS Naturals, FiniteSets, Sequences, FiniteSetsExt, SequencesExt

CONSTANTS Terms,       \* the words and phrases that texts may hold
          Canonical,   \* SKILL_VARIATIONS: written form -> name of the skill
          WordBounded, \* forms that begin and end with a letter or digit
          Alike,       \* <<held, wanted>>: names of a ratio of 0.85 or more
          Similar,     \* <<wanted, known>>: names of a ratio of 0.8 or more
          Phrases,     \* terms of several words, or of INDUSTRY_TERMS
          Industry,    \* industry -> keyword -> weight in hundredths
          Levels,      \* _EDUCATION_LEVELS: phrases that name a level -> rank
          Likeness(_, _), \* spaCy's cosine of a text of these terms and a posting
          Resumes,     \* texts of resumes: [chars, terms, roles], and
          Jobs,        \* [terms, skills, years, level, duties, education]
          Models,      \* the default model and those of fallback_providers
          None

Scale == 10000

(* A chain begins with the default model.  What has no words has no terms.   *)
(* skills_required is whatever was posted; the scrapers store the keys       *)
(* required and preferred.  The cosine is cut off below at 0.                *)
ASSUME MatchingAssumption ==
    /\ Models \in Seq(Range(Models)) \ {<< >>}
    /\ \A r \in Resumes :
          /\ r = [chars |-> r.chars, terms |-> r.terms, roles |-> r.roles]
          /\ r.chars \in {"none", "spaces", "words"} /\ r.terms \subseteq Terms
          /\ r.chars # "words" => r.terms = {}
    /\ DOMAIN Canonical \subseteq Terms
    /\ \A j \in Jobs :
          /\ j.terms \subseteq Terms /\ IsFiniteSet(j.terms)
          /\ DOMAIN j.skills \subseteq {"required", "preferred", "skills"}
          /\ \A key \in DOMAIN j.skills : IsFiniteSet(j.skills[key])
          /\ \A S \in SUBSET Terms : Likeness(S, j) \in 0..Scale
    /\ \A p \in DOMAIN Levels : Levels[p] \in Nat

(* Mutant: the share of what the resume has. *)
ShareOfHave(have, want) ==
    IF have = {} THEN 0 ELSE (Scale * Cardinality(have \cap want)) \div Cardinality(have)

Share(have, want) ==
    IF want = {} THEN 0 ELSE (Scale * Cardinality(have \cap want)) \div Cardinality(want)

-----------------------------------------------------------------------------
(* The parts of a score. *)

Normalize(form) == IF form \in DOMAIN Canonical THEN Canonical[form] ELSE form

(* extract_skills, and its twin for when spaCy is not there: \b on both      *)
(* sides of the form.                                                        *)
ExtractSkills(terms) == {Canonical[f] : f \in terms \cap DOMAIN Canonical \cap WordBounded}

HasSkill(skills, form) ==
    \E s \in skills : Normalize(s) = Normalize(form) \/ <<Normalize(s), Normalize(form)>> \in Alike

ScoreSkills(skills, required, preferred) ==
    LET Met(want) == {f \in want : HasSkill(skills, f)}
    IN [missing |-> required \ Met(required), unlisted |-> preferred \ Met(preferred),
        score |-> IF required = {} /\ preferred = {} THEN Scale \div 2
                  ELSE IF preferred = {} THEN Share(Met(required), required)
                  ELSE IF required = {} THEN Share(Met(preferred), preferred)
                  ELSE (7 * Share(Met(required), required)
                        + 3 * Share(Met(preferred), preferred)) \div 10]

(* TF-IDF overlap with weights that hardly differ, the likeness of the two   *)
(* texts, which may fall as a text grows, and phrases.                       *)
AnalyzeKeywords(resume, job) ==
    IF resume.chars # "words" \/ job.terms = {} THEN 0
    ELSE (4 * Share(resume.terms, job.terms) + 3 * Likeness(resume.terms, job)
          + 3 * Share(resume.terms, job.terms \cap Phrases)) \div 10

(* _infer_candidate_seniority: the lowest level a title names, or by years.  *)
(* Levels: 0 entry, 1 mid, 2 senior, 3 staff, 4 management.                  *)
Seniority(roles, years) ==
    LET named == {r.level : r \in roles} \ {None}
    IN CASE named # {} -> Min(named)
         [] named = {} /\ years >= 10 -> 3
         [] named = {} /\ years \in 5..9 -> 2
         [] named = {} /\ years \in 2..4 -> 1
         [] OTHER -> 0

SeniorityAlignment(mine, theirs) ==
    LET diff == Max({mine, theirs}) - Min({mine, theirs})
    IN CASE diff = 0 -> Scale [] diff = 1 -> 7500 [] diff = 2 -> 4000 [] OTHER -> 1500

MatchResponsibilities(roles, duties) ==
    IF duties = {} THEN Scale \div 2 ELSE Share(UNION {r.duties : r \in roles}, duties)

(* No experience, no score.                                                  *)
AnalyzeExperience(roles, job) ==
    LET years == MapThenSumSet(LAMBDA r : r.years, roles)
        asked == IF job.years = 0 THEN 3 ELSE job.years
    IN IF roles = {} THEN 0
       ELSE (35 * Min({(Scale * years) \div asked, Scale})
             + 30 * MatchResponsibilities(roles, job.duties)
             + 35 * SeniorityAlignment(Seniority(roles, years), job.level)) \div 100

EducationRank(phrase) == IF phrase \in DOMAIN Levels THEN Levels[phrase] ELSE 0

(* An abbreviation (bs, ms, diploma) is found as a requirement, but has no   *)
(* rank, so everyone meets it.                                               *)
ScoreEducation(degrees, job) ==
    LET required == EducationRank(job.education)
        best     == Max({EducationRank(d) : d \in degrees} \cup {0})
    IN IF job.education = None THEN Scale \div 2
       ELSE CASE best >= required           -> Scale
              [] best \in 1..(required - 1) -> (Scale * best) \div required
              [] OTHER                      -> (2 * Scale) \div 10

(* candidate_profile: of the text, only the skills.                          *)
CandidateProfile(text) == [skills |-> ExtractSkills(text.terms), roles |-> {}, degrees |-> {}]

Suggestions(skill, exp, edu, key) ==
    LET gaps == {x \in {<<"required", skill.missing # {}>>, <<"preferred", Cardinality(skill.unlisted) > 2>>,
                        <<"keywords", 10 * key < 4 * Scale>>, <<"experience", 2 * exp < Scale>>,
                        <<"education", 2 * edu < Scale>>} : x[2]}
    IN IF gaps = {} /\ 10 * skill.score >= 8 * Scale /\ 10 * key >= 6 * Scale
       THEN {"aligned"} ELSE {x[1] : x \in gaps}

Under(skills, key) == IF key \in DOMAIN skills THEN skills[key] ELSE {}

(* ResumeScorer.score_resume, for the skills its caller takes as required.   *)
FullScore(text, job, required) ==
    LET p   == CandidateProfile(text)
        s   == ScoreSkills(p.skills, required, Under(job.skills, "preferred"))
        k   == AnalyzeKeywords(text, job)
        exp == AnalyzeExperience(p.roles, job)
        edu == ScoreEducation(p.degrees, job)
    IN [by |-> "full", overall |-> (4 * s.score + 3 * exp + 2 * edu + k) \div 10,
        experience |-> exp, education |-> edu, keywords |-> k,
        missing |-> s.missing, tips |-> Suggestions(s, exp, edu, k)]

(* _score_with_text_fallback: every word of the posting counts.              *)
TextScore(text, job) ==
    LET mine   == ExtractSkills(text.terms)
        theirs == ExtractSkills(job.terms)
        skill  == IF theirs = {} THEN Scale \div 2 ELSE Share(mine, theirs)
        k      == Share(text.terms, job.terms)
    IN [by |-> "text", overall |-> (skill + k) \div 2,
        experience |-> 0, education |-> 0, keywords |-> k, missing |-> theirs \ mine,
        tips |-> (IF theirs \subseteq mine THEN {} ELSE {"skills"})
                 \cup IF 10 * k < 4 * Scale THEN {"keywords"} ELSE {}]

Unscored(missing, tip) ==
    [by |-> "none", overall |-> 0, experience |-> 0, education |-> 0, keywords |-> 0,
     missing |-> missing, tips |-> {tip}]

(* score_resume, with the engine or, when anything in it raises, without.    *)
Score(text, job, engine) ==
    IF text.chars # "words" THEN Unscored({"no text"}, "upload")
    ELSE IF engine THEN FullScore(text, job, Under(job.skills, "required"))
    ELSE TextScore(text, job)

(* ATSOptimizer.                                                             *)
Confidence(job, i) == MapThenSumSet(LAMBDA w : Industry[i][w], DOMAIN Industry[i] \cap job.terms)
DetectIndustry(job) ==
    LET best == CHOOSE i \in DOMAIN Industry :
                    \A j \in DOMAIN Industry : Confidence(job, i) >= Confidence(job, j)
    IN IF Confidence(job, best) < 150 THEN None ELSE best
MissingKeywords(text, i) == IF i = None THEN {} ELSE DOMAIN Industry[i] \ text.terms

(* find_similar_skills: known names that are like one that is missing, by a  *)
(* lower ratio than that of has_skill.                                       *)
SimilarTo(form) ==
    {known \in Range(Canonical) \ {Normalize(form)} : <<Normalize(form), known>> \in Similar}

(* Of what preferred skills are missing the optimizer is not told.           *)
SkillGaps(score) ==
    (IF score.missing # {} THEN {"critical"} ELSE {})
    \cup IF \E f \in score.missing : SimilarTo(f) # {} THEN {"equivalent"} ELSE {}

(* Tips on length and headings are left out. *)
SuggestImprovements(score, text, job) ==
    score.tips \cup SkillGaps(score)
               \cup (IF MissingKeywords(text, DetectIndustry(job)) # {} THEN {"industry"} ELSE {})
               \cup (IF 10 * score.keywords < 3 * Scale THEN {"mirror"} ELSE {})
               \cup (IF 2 * score.experience < Scale THEN {"duties"} ELSE {})
               \cup (IF 2 * score.education < Scale THEN {"courses"} ELSE {})

-----------------------------------------------------------------------------
(* One request. *)

VARIABLES
    text,    \* content_text of the resume
    job,
    own,     \* the user has a key of their own, or the model is Bedrock's
    stage,   \* how far optimize_resume is, or its error
    scores,  \* what has been computed for the user: original, analysis, new
    advice,  \* the suggestions the prompt carries
    tried,   \* how each model that was asked answered
    usage,   \* LLMUsage rows
    written  \* content_text of the new resume

vars == <<text, job, own, stage, scores, advice, tried, usage, written>>

Init == /\ text \in Resumes /\ job \in Jobs /\ own \in BOOLEAN
        /\ stage = "score" /\ scores = << >> /\ advice = {} /\ tried = << >>
        /\ usage = 0 /\ written = None

(* _get_model_chain: a user's key, or AWS, is no use to another provider.    *)
ModelChain == IF own THEN SubSeq(Models, 1, 1) ELSE Models

ScoreOriginal ==
    /\ stage = "score" /\ stage' = "suggest"
    /\ \E engine \in BOOLEAN : scores' = Append(scores, Score(text, job, engine))
    /\ UNCHANGED <<text, job, own, advice, tried, usage, written>>

(* The optimizer's, or when it cannot be loaded the scorer's own.            *)
Suggest ==
    /\ stage = "suggest" /\ stage' = "ask"
    /\ advice' \in {SuggestImprovements(Last(scores), text, job), Last(scores).tips}
    /\ UNCHANGED <<text, job, own, scores, tried, usage, written>>

(* How a call of a model may end: an answer, or one without choices, or what *)
(* litellm raises.                                                           *)
Answers == {"json", "prose", "no choices", "rate", "timeout", "api", "other"}

(* Mutant: only litellm's APIError and its kin. *)
CaughtApi(a) == a \in {"rate", "timeout", "api"}

Caught(a) == a \notin {"json", "prose"}

(* An answer is recorded in a session of its own; a failure is swallowed.    *)
Recorded(a) == {usage} \cup IF a \in {"json", "prose"} THEN {usage + 1} ELSE {}

(* complete: the first model of the chain that answers is the last asked,    *)
(* and its call is recorded if the database takes it.                        *)
Complete(a) ==
    /\ stage = "ask"
    /\ tried' = Append(tried, a)
    /\ stage' = IF a \in {"json", "prose"} THEN "parse"
                ELSE IF ~Caught(a) THEN "raised"
                ELSE IF Len(tried) + 1 < Len(ModelChain) THEN "ask"
                ELSE CASE a = "rate" -> "rate limited"
                       [] a = "timeout" -> "timed out"
                       [] OTHER -> "provider error"
    /\ usage' \in Recorded(a)
    /\ UNCHANGED <<text, job, own, scores, advice, written>>

(* The answer is not the JSON that was asked for: the call was paid for.     *)
ParseFails == /\ stage = "parse" /\ Last(tried) = "prose" /\ stage' = "unparsable"
              /\ UNCHANGED <<text, job, own, scores, advice, tried, usage, written>>

(* The new resume is stored with the text it was made from.                  *)
SaveOptimized ==
    /\ stage = "parse" /\ Last(tried) = "json" /\ stage' = "rescore"
    /\ written' = text
    /\ UNCHANGED <<text, job, own, scores, advice, tried, usage>>

Rescore ==
    /\ stage = "rescore" /\ stage' = "done"
    /\ scores' \in {scores} \cup {Append(scores, Score(written, job, e)) : e \in BOOLEAN}
    /\ UNCHANGED <<text, job, own, advice, tried, usage, written>>

RequiredOrSkills(skills) ==
    IF "required" \in DOMAIN skills THEN skills["required"] ELSE Under(skills, "skills")

(* analyze_job with this resume.  It takes blanks for a text and skills for  *)
(* required, and has nothing to fall back on: without spaCy no score, and    *)
(* whatever else is raised ends the request.                                 *)
AnalyzeJob ==
    /\ stage = "suggest" /\ Len(scores) = 1
    /\ \E analysis \in IF text.chars = "none" THEN {Unscored({}, "upload")}
                        ELSE {FullScore(text, job, RequiredOrSkills(job.skills)),
                              Unscored({}, "spaCy")} :
          scores' = Append(scores, analysis)
    /\ UNCHANGED <<text, job, own, stage, advice, tried, usage, written>>

Next == \/ ScoreOriginal \/ Suggest \/ AnalyzeJob \/ ParseFails \/ SaveOptimized \/ Rescore
        \/ \E a \in Answers : Complete(a)

Spec == Init /\ [][Next]_vars

-----------------------------------------------------------------------------
(* Better texts never do worse.  One term more in a resume hides no skill    *)
(* that was found and does not lower the fallback's score, nor the engine's  *)
(* unless spaCy finds the longer text less like the posting                  *)
(* (resume.py:519-567, scorer.py:169-198, keyword_analyzer.py:180-187).      *)
MoreTermsNeverHurt ==
    \A t \in job.terms \cup DOMAIN Canonical : \A engine \in BOOLEAN :
        stage = "score" /\ text.chars = "words" =>
        LET more == [text EXCEPT !.terms = @ \cup {t}]
        IN /\ Score(more, job, engine).missing \subseteq Score(text, job, engine).missing
           /\ ~engine \/ Likeness(more.terms, job) >= Likeness(text.terms, job)
              => Score(more, job, engine).overall >= Score(text, job, engine).overall

(* "Multi-factor analysis (skills, keywords, experience, education)"         *)
(* (README.md:15): a resume that tells of all the years a posting asks for   *)
(* has something for its experience when the engine scores it.               *)
ExperienceCounts ==
    \A i \in DOMAIN scores :
        /\ scores[i].by = "full"
        /\ text.roles # {} /\ MapThenSumSet(LAMBDA r : r.years, text.roles) >= job.years
        => scores[i].experience > 0

(* No provider is passed over and none asked in vain: a request fails only   *)
(* after every model of its chain has, the first answer ends the search and  *)
(* at most that one is accounted for, parsed or not (client.py:149-156).     *)
EveryModelIsTried ==
    /\ \A i \in 1..(Len(tried) - 1) : tried[i] \notin {"json", "prose"}
    /\ stage \in {"rate limited", "timed out", "provider error", "raised"} => Len(tried) = Len(ModelChain)
    /\ stage \in {"unparsable", "rescore", "done"} => Last(tried) \in {"json", "prose"}
    /\ usage <= Cardinality({i \in DOMAIN tried : tried[i] \in {"json", "prose"}})
=============================================================================
