----------------------------- MODULE MCMatching -----------------------------
(* An instance of Matching for TLC: texts without characters, of blanks, of *)
(* words none of which counts, with a skill under another form of its name, *)
(* with a skill \b does not find (cpp), and with phrases; postings with and *)
(* without preferred skills, or with skills under another key, with a       *)
(* degree that has a rank and with an abbreviation (bs) that has none.      *)
(* Likeness falls with every term a posting does not share.                 *)
EXTENDS Matching

MCCanonical == [python |-> "python", py3 |-> "python", cpp |-> "cpp", sql |-> "sql"]
MCIndustry == [software |-> [agile |-> 80, api |-> 90], data |-> [sql |-> 85, etl |-> 75]]
MCTerms == DOMAIN MCCanonical \cup {"agile", "api", "etl", "code review"}
MCAlike == {<<"sql", "sqll">>}
MCSimilar == {<<"sqll", "sql">>, <<"pyton", "python">>}
MCLevels == [bachelor |-> 3, master |-> 4]
MCLikeness(terms, j) ==
    IF j.terms = {} THEN 0
    ELSE (Scale * Cardinality(terms \cap j.terms)) \div Cardinality(terms \cup j.terms)
Roles == {[years |-> 4, level |-> 2, duties |-> {"mentoring"}],
          [years |-> 2, level |-> None, duties |-> {"deploy"}]}
MCResumes == [chars : {"none", "spaces"}, terms : {{}}, roles : {{}}]
    \cup [chars : {"words"}, roles : {Roles},
          terms : {{}, {"py3", "cpp"}, {"sql", "agile"}, {"py3", "cpp", "sql", "code review", "api"}}]
JobOf(terms, skills, education) ==
    [terms |-> terms, skills |-> skills, education |-> education,
     years |-> 5, level |-> 1, duties |-> {"mentoring", "deploy"}]
MCJobs == {JobOf({}, << >>, None),
           JobOf({"python", "sql", "agile", "api"}, [required |-> {"python", "cpp"}, preferred |-> {}], "bachelor"),
           JobOf({"python", "sql"}, [required |-> {}, preferred |-> {"sqll"}], None),
           JobOf({"cpp", "code review", "etl"},
                 [required |-> {"pyton", "cpp"}, preferred |-> {"sql", "sqll", "etl"}], "bs"),
           JobOf({"code review", "api"}, [skills |-> {"python"}], "bs")}
MCModels == <<"gpt", "groq", "openrouter">>
=============================================================================
