----------------------------- MODULE ResumeText -----------------------------
(***************************************************************************)
(* What becomes of the text of a resume.  It is read page by page or       *)
(* paragraph by paragraph from the uploaded file, or decoded from its      *)
(* bytes when that fails, cut to the size of the column and stored.  Later *)
(* it is taken apart by headers twice: by DocumentParser to fill in the    *)
(* profile editor, and by the resume service for the data that is tailored *)
(* and rendered.  A line is a model value; what a regular expression or a  *)
(* test on its first character finds in it is given by the constants.      *)
(***************************************************************************)
EXTENDS Naturals, Sequences, FiniteSets, SequencesExt

CONSTANTS Lines,     \* stripped lines a resume may have
          Headers,   \* header line -> name of its section (_SECTION_HEADERS)
          Bulleted,  \* lines that begin with a bullet
          Long,      \* other lines too long for a title, or behind a middle dot
          Linked,    \* lines with an e-mail address or a link
          Tailored,  \* line -> skills between all of , | and the two dots
          Edited,    \* line -> skills between the first of , | ; and bullets
                     \*  it holds, or what follows its bullet if it has none
          Listed,    \* lines that hold one of those
          Wide,      \* lines of 60 characters or more behind their bullet
          Letters,   \* skills of one character
          Blank,     \* the empty line
          Binary,    \* a line with a NUL in it
          MaxLines,  \* bound: the length of a file
          Room,      \* lines the first 5000 characters hold
          Absent

ASSUME ResumeTextAssumption ==
    /\ Room \in Nat
    /\ DOMAIN Headers \subseteq Lines
    /\ Bulleted \cup Long \cup Linked \subseteq Lines \ DOMAIN Headers
    /\ Blank \notin DOMAIN Headers \cup Bulleted \cup Long \cup Linked
    /\ DOMAIN Tailored = Lines \cup {Binary} /\ DOMAIN Edited = Lines \cup {Binary}
    /\ Absent \notin {Headers[l] : l \in DOMAIN Headers} \cup Seq(Lines \cup {Binary})

VARIABLES
    format,  \* of the uploaded file
    raw,     \* pages or paragraphs read so far
    stage,   \* how far the upload has got
    text     \* content_text

vars == <<format, raw, stage, text>>

-----------------------------------------------------------------------------
(* Sections.  Blank lines separate nothing and are left out. *)

Sections == {Headers[l] : l \in DOMAIN Headers}

(* A line under a header; before the first there is none.                    *)
Body(cut, line) == IF cut.head = Absent \/ line = Blank THEN cut.body ELSE Append(cut.body, line)

(* Mutant: a repeated header adds to its section. *)
Adds(cut) == IF cut.head = Absent THEN cut.found
             ELSE [cut.found EXCEPT ![cut.head] = IF @ = Absent THEN cut.body ELSE @ \o cut.body]

(* A section that ends replaces an earlier one of its name.                  *)
Closed(cut) == IF cut.head = Absent THEN cut.found ELSE [cut.found EXCEPT ![cut.head] = cut.body]

NoCut == [found |-> [s \in Sections |-> Absent], head |-> Absent, body |-> << >>]

NextLine(cut, line) ==
    IF line \in DOMAIN Headers THEN [found |-> Closed(cut), head |-> Headers[line], body |-> << >>]
                               ELSE [cut EXCEPT !.body = Body(cut, line)]

(* _extract_sections, and the loop of the same form in resume.py.            *)
ExtractSections(lines) ==
    LET cut[n \in 0..Len(lines)] == IF n = 0 THEN NoCut ELSE NextLine(cut[n - 1], lines[n])
    IN Closed(cut[Len(lines)])

Has(found, s) == s \in Sections /\ found[s] # Absent
Content(found, s) == IF Has(found, s) THEN found[s] ELSE << >>

(* sections.get(a, "") or sections.get(b, "") ...: the first that is filled. *)
FirstFilled(found, keys) ==
    LET filled == {i \in DOMAIN keys : Content(found, keys[i]) # << >>}
    IN IF filled = {} THEN << >> ELSE Content(found, keys[Min(filled)])

(* for key in keys: if key in sections ...: the first there is, filled or not. *)
FirstPresent(found, keys) ==
    LET there == {i \in DOMAIN keys : Has(found, keys[i])}
    IN IF there = {} THEN << >> ELSE found[keys[Min(there)]]

(* The first of some lines in a text. *)
FirstLine(lines, some) ==
    LET at == {i \in DOMAIN lines : lines[i] \in some}
    IN IF at = {} THEN Blank ELSE lines[Min(at)]

(* _extract_contact_info: the first match anywhere.                          *)
Contact(lines) == FirstLine(lines, Linked)

-----------------------------------------------------------------------------
(* The profile editor. *)

(* Mutant: the headers of the tailored resume, the other way round. *)
SwappedSkillKeys == <<"technical skills", "skills", "core competencies", "competencies">>

SkillKeys == <<"skills", "technical skills", "core competencies", "competencies">>

(* What a line of skills gives the editor.  Skills are taken up to case, as  *)
(* duplicates are removed.                                                   *)
EditorSkills(line) ==
    (IF line \in Listed \/ line \notin Wide THEN Edited[line] ELSE {}) \ Letters

(* _extract_skills_from_text: without a filled section every line of the     *)
(* resume is one of skills.                                                  *)
SkillLines(lines, found) ==
    LET section == FirstPresent(found, SkillKeys)
    IN ToSet(IF section = << >> THEN lines ELSE section) \ {Blank}

SkillsOf(lines, found) == UNION {EditorSkills(l) : l \in SkillLines(lines, found)}

(* extract_profile_from_resume: the name is the first line that is neither   *)
(* the header of a section nor a link.                                       *)
Profile(lines) ==
    LET found == ExtractSections(lines)
    IN [name |-> FirstLine(lines, ToSet(lines) \ (DOMAIN Headers \cup Linked \cup {Blank})),
        contact |-> Contact(lines),
        summary |-> FirstPresent(found, <<"summary", "objective", "professional summary", "profile">>),
        skills |-> SkillsOf(lines, found),
        certifications |-> FirstPresent(found, <<"certifications", "certificates", "licenses">>)]

-----------------------------------------------------------------------------
(* The tailored resume. *)

(* The title of an entry is a short line without bullet. *)
IsTitle(line) == line \notin Bulleted \cup Long

(* Other lines describe the entry; before the first title they are lost. *)
Entry(entries, line) ==
    IF IsTitle(line) THEN Append(entries, [title |-> line, description |-> << >>])
    ELSE IF entries = << >> THEN entries
    ELSE [entries EXCEPT ![Len(entries)].description = Append(@, line)]

(* _parse_experience_section *)
ParseExperience(lines) ==
    LET read[n \in 0..Len(lines)] == IF n = 0 THEN << >> ELSE Entry(read[n - 1], lines[n])
    IN read[Len(lines)]

(* _parse_education_section: every line without bullet is a degree.          *)
Degree(degrees, line) == IF line \in Bulleted THEN degrees ELSE Append(degrees, line)

ParseEducation(lines) ==
    LET read[n \in 0..Len(lines)] == IF n = 0 THEN << >> ELSE Degree(read[n - 1], lines[n])
    IN read[Len(lines)]

(* Sections become fields of the resume by these headers.                    *)
FieldKeys == [skills         |-> <<"skills", "technical skills">>,
              experience     |-> <<"experience", "work experience", "professional experience">>,
              education      |-> <<"education", "academic background">>,
              certifications |-> <<"certifications", "certificates">>,
              summary        |-> <<"summary", "professional summary", "objective", "profile">>]

(* _build_resume_data_from_text: the first line is the name, whatever it is. *)
(* A line of skills is split where re.split finds a delimiter: Tailored.     *)
ResumeData(lines) ==
    LET found == IF lines = << >> THEN ExtractSections(lines) ELSE ExtractSections(Tail(lines))
        Field(f) == FirstFilled(found, FieldKeys[f])
    IN [name |-> IF lines = << >> THEN Blank ELSE Head(lines),
        contact |-> Contact(lines),
        summary |-> Field("summary"), skills |-> Field("skills"),
        experience |-> ParseExperience(Field("experience")),
        education |-> ParseEducation(Field("education")),
        certifications |-> Field("certifications")]

-----------------------------------------------------------------------------
(* The upload. *)

Init == /\ format \in {"pdf", "docx"} /\ raw = << >> /\ stage = "read" /\ text = << >>

(* A page of a PDF that has no text is skipped; a line of it is read here.   *)
ReadPage(line) == /\ stage = "read" /\ format = "pdf" /\ Len(raw) < MaxLines
                  /\ raw' = Append(raw, line)
                  /\ UNCHANGED <<format, stage, text>>

(* Paragraphs without text are skipped. *)
ReadParagraph(line) == /\ stage = "read" /\ format = "docx" /\ line # Blank /\ Len(raw) < MaxLines
                       /\ raw' = Append(raw, line)
                       /\ UNCHANGED <<format, stage, text>>

(* content_text=parsed_text[:5000] *)
Cut(lines) == SubSeq(lines, 1, IF Len(lines) > Room THEN Room ELSE Len(lines))

(* parse: a file without any text is an error.                               *)
Parsed == /\ stage = "read" /\ raw # << >>
          /\ text' = Cut(raw) /\ stage' = "save" /\ raw' = << >>
          /\ UNCHANGED format

(* The fallback: the bytes of the file, decoded.                             *)
ParseFails == /\ stage = "read"
              /\ \E bytes \in {<< >>, <<Binary>>} : text' = bytes
              /\ stage' = "save" /\ raw' = << >>
              /\ UNCHANGED format

(* The row is committed; PostgreSQL takes no NUL in a text, SQLite does.     *)
Save == /\ stage = "save"
        /\ \E s \in {"stored"} \cup IF Binary \in ToSet(text) THEN {"refused"} ELSE {} : stage' = s
        /\ UNCHANGED <<format, raw, text>>

Next == \/ \E l \in Lines : ReadPage(l) \/ ReadParagraph(l)
        \/ Parsed \/ ParseFails \/ Save

Spec == Init /\ [][Next]_vars

-----------------------------------------------------------------------------
(* Properties. *)

IsHeader(i) == text[i] \in DOMAIN Headers

(* The header line i stands under, not counting the first line; 0 if none.   *)
HeaderOf(i) == LET above == {k \in 2..(i - 1) : IsHeader(k)}
               IN IF above = {} THEN 0 ELSE CHOOSE k \in above : \A j \in above : j <= k

(* Line i is in a section that no later section of the same name replaces.   *)
Survives(i) == /\ i > 1 /\ text[i] # Blank /\ ~IsHeader(i) /\ HeaderOf(i) # 0
               /\ \A j \in (HeaderOf(i) + 1)..Len(text) :
                      IsHeader(j) => Headers[text[j]] # Headers[text[HeaderOf(i)]]

InSection(i, s) == Survives(i) /\ Headers[text[HeaderOf(i)]] = s

(* ... and that is the one its field is made from.                           *)
InField(i, f) ==
    \E n \in DOMAIN FieldKeys[f] :
        /\ InSection(i, FieldKeys[f][n])
        /\ \A m \in 1..(n - 1) : \A j \in DOMAIN text : ~InSection(j, FieldKeys[f][m])

(* ... and if it describes an entry there is a title before it.              *)
Described(i) == \E k \in (HeaderOf(i) + 1)..i : text[k] # Blank /\ IsTitle(text[k])

InResume(i) == \/ i = 1
               \/ InField(i, "summary") \/ InField(i, "skills") \/ InField(i, "certifications")
               \/ InField(i, "experience") /\ Described(i)
               \/ InField(i, "education") /\ text[i] \notin Bulleted

(* Where a line is in the data, with a name even where that is empty. *)
Places(seq, l) == {i \in DOMAIN seq : seq[i] = l}
TitlePlaces(entries, l) == {i \in DOMAIN entries : entries[i].title = l}
TextPlaces(entries, l) == UNION {{i} \X Places(entries[i].description, l) : i \in DOMAIN entries}

Occurrences(d, l) ==
    Cardinality(Places(<<d.name>>, l)) + Cardinality(Places(d.summary, l))
    + Cardinality(Places(d.skills, l)) + Cardinality(Places(d.certifications, l))
    + Cardinality(Places(d.education, l))
    + Cardinality(TitlePlaces(d.experience, l)) + Cardinality(TextPlaces(d.experience, l))

(* Line by line: what the tailored resume is made from is exactly the name,  *)
(* and every line of a section some field is made of, as often as it is in   *)
(* the text.  Nothing is doubled, and nothing lost but what stands before    *)
(* the first header, under a header that is repeated or has no field, beside *)
(* a filled section for the same field, and bullets without a title          *)
(* (resume.py:210-335).                                                      *)
LinesAccountedFor ==
    stage = "stored" /\ text # << >> =>
        \A l \in Lines : Occurrences(ResumeData(text), l)
                         = Cardinality({i \in DOMAIN text : text[i] = l /\ InResume(i)})

(* The two readings of one text agree where a user would compare them.  If a *)
(* resume begins with a name and not with a header, the editor has the same  *)
(* name, and offers every skill the tailored resume is made with but those   *)
(* it cannot have read off their line: of one letter, not between delimiters *)
(* it splits that line by, or in a line without any that is too wide for a   *)
(* skill.  Never does it look for them under another header than the         *)
(* tailored resume does (resumes.py:208-222, resume.py:224-256).             *)
TailoredSkillsReachEditor ==
    stage = "stored" /\ text # << >> /\ Head(text) \notin DOMAIN Headers =>
        /\ Head(text) \notin Linked \cup {Blank} => Profile(text).name = ResumeData(text).name
        /\ \A l \in ToSet(ResumeData(text).skills) : \A s \in Tailored[l] :
              s \in Profile(text).skills \cup Letters \/ s \notin Edited[l] \/ l \in Wide \ Listed
=============================================================================
