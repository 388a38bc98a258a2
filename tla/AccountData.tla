----------------------------- MODULE AccountData -----------------------------
(***************************************************************************)
(* What one account owns outside its applications and its logins: resume   *)
(* files and rows, cover letters, and the encrypted session of a job site  *)
(* with its metadata row; the requests that change them, and the purge     *)
(* that removes all of it.  Storage and database share no transaction: a   *)
(* file is written before the row that names it, and a request may fail,   *)
(* or its process die, after every step.                                   *)
(* Files, rows and secrets are named after the request that makes them; an *)
(* account that is not new has some already, named First.                  *)
(***************************************************************************)
EXTENDS Naturals, FiniteSets

CONSTANTS Requests,  \* requests to the API over the life of the account
          First,     \* the name of what the account has at first
          None

Formats == {"pdf", "docx"}
Names == Requests \cup {First}
Creds == [row : Names, secret : Names, kek : {"old", "new"}]

ASSUME AccountDataAssumption ==
    /\ None \notin Names /\ First \notin Requests
    /\ \A x \in (SUBSET Formats) \cup Creds : x # None

VARIABLES
    files,     \* objects under users/{uid}/ in storage: <<name, format>>
    scratch,   \* local files: uploads, renderings and copies for download
    resumes,   \* the formats each resume row names, None: no row
    letter,    \* cover_letter_path of the application
    cred,      \* the stored session: its row, its secret, the key it is under
    meta,      \* the platform_sessions row: whose session it describes
    kind,      \* what each request is for
    stage,     \* how far it has got
    formats,   \* the formats it asks for, then those it has rendered
    left,      \* the formats it has still to move into storage
    saw,       \* what it has read of cred or meta
    account    \* active, deleted, emptied (of files) or purged

documents == <<files, scratch, resumes, letter>>
secrets == <<cred, meta>>
vars == <<documents, secrets, kind, stage, formats, left, saw, account>>

Cred(row, secret, kek) == [row |-> row, secret |-> secret, kek |-> kek]

Init == /\ files = {<<First, f>> : f \in Formats}
        /\ scratch = {}
        /\ resumes = [d \in Names |-> IF d = First THEN Formats ELSE None]
        /\ letter = None
        /\ cred \in {None, Cred(First, First, "old")}
        /\ meta = IF cred = None THEN None ELSE First
        /\ kind = [r \in Requests |-> None]
        /\ stage = [r \in Requests |-> "idle"]
        /\ formats = [r \in Requests |-> {}]
        /\ left = [r \in Requests |-> {}]
        /\ saw = [r \in Requests |-> None]
        /\ account = "active"

Ended == {"idle", "done", "failed"}
GoTo(r, s) == stage' = [stage EXCEPT ![r] = s]

(* get_current_user: a deleted account makes no request.                     *)
Begin(r, k, s) == /\ account = "active" /\ stage[r] = "idle"
                  /\ kind' = [kind EXCEPT ![r] = k]
                  /\ GoTo(r, s)
                  /\ UNCHANGED <<files, resumes, letter, secrets, account, saw>>

Rows == {d \in Names : resumes[d] # None}

-----------------------------------------------------------------------------
(* Resumes and cover letters. *)

MAX_UPLOAD_SIZE == 10  \* megabytes

(* Files a client may send, about the limit; the route lets through one of   *)
(* the two suffixes with either of their types, also the other's, or none.   *)
Uploads == [suffix : Formats \cup {"other"}, type : Formats \cup {"other", None},
          size : {MAX_UPLOAD_SIZE, MAX_UPLOAD_SIZE + 1}]
Accepted == {u \in Uploads : u.suffix \in Formats /\ u.type # "other" /\ u.size <= MAX_UPLOAD_SIZE}

(* upload_resume: the temporary file is written and parsed (ResumeText).     *)
Upload(r) == /\ Begin(r, "upload", "store")
             /\ \E u \in Accepted : /\ formats' = [formats EXCEPT ![r] = {u.suffix}]
                                    /\ left' = [left EXCEPT ![r] = {u.suffix}]
                                    /\ scratch' = scratch \cup {<<r, u.suffix>>}

(* generate_tailored_resume: base row and job are read, and the text of the  *)
(* resume is cut into sections.                                              *)
Tailor(r) == /\ Rows # {} /\ Begin(r, "tailor", "tailor")
             /\ \E F \in (SUBSET Formats) \ {{}} : formats' = [formats EXCEPT ![r] = F]
             /\ UNCHANGED <<scratch, left>>

(* optimize_resume: the row is scored, by the full engine or by word overlap, *)
(* and suggestions are made, by the optimizer or taken from the score.       *)
Optimize(r) == /\ Rows # {} /\ Begin(r, "optimize", "rewrite")
               /\ formats' = [formats EXCEPT ![r] = Formats]
               /\ UNCHANGED <<scratch, left>>

(* generate_cover_letter: an application with its job and its resume.        *)
CoverLetter(r) == /\ Rows # {} /\ Begin(r, "letter", "rewrite")
                  /\ formats' = [formats EXCEPT ![r] = Formats]
                  /\ UNCHANGED <<scratch, left>>

(* The model tailors the base resume, or that itself is rendered.            *)
TailorText(r) == /\ stage[r] = "tailor" /\ GoTo(r, "render")
                 /\ UNCHANGED <<documents, secrets, account, kind, formats, left, saw>>

(* The model writes the text; here a failure has no substitute (Fail).       *)
Rewrite(r) == /\ stage[r] = "rewrite"
              /\ GoTo(r, "render")
              /\ UNCHANGED <<documents, secrets, account, kind, formats, left, saw>>

(* PDFRenderer.render and render_html_string, in a thread: the file, or an   *)
(* error that may leave the beginning of one.                                *)
PdfRenders == {"file", "part", "error"}

(* DOCXRenderer.render and render_cover_letter, in the same way.             *)
DocxRenders == {"file", "part", "error"}

(* Formats are rendered in parallel; it is enough that one of them succeeds. *)
Rendered(r) ==
    /\ stage[r] = "render"
    /\ \E result \in [formats[r] -> PdfRenders \cup DocxRenders] :
         LET F == {f \in formats[r] : result[f] = "file"}
         IN /\ \A f \in formats[r] : result[f] \in IF f = "pdf" THEN PdfRenders ELSE DocxRenders
            /\ scratch' = scratch \cup {<<r, f>> : f \in {g \in formats[r] : result[g] # "error"}}
            /\ formats' = [formats EXCEPT ![r] = F]
            /\ left' = [left EXCEPT ![r] = F]
            /\ GoTo(r, IF F = {} THEN "failed" ELSE "store")
    /\ UNCHANGED <<files, resumes, letter, secrets, account, kind, saw>>
RenderResume(r) == kind[r] # "letter" /\ Rendered(r)
RenderLetter(r) == kind[r] = "letter" /\ Rendered(r)

(* Mutant: the local copy stays. *)
KeptAfterPut(x) == scratch

DroppedAfterPut(x) == scratch \ {x}

(* One file is put under the user's prefix, the PDF before the DOCX, and its *)
(* local copy removed.  (That an unlink may fail, silently, is left out.)    *)
Put(r) == /\ stage[r] = "store" /\ left[r] # {}
          /\ LET f == IF "pdf" \in left[r] THEN "pdf" ELSE "docx"
             IN /\ files' = files \cup {<<r, f>>}
                /\ scratch' = DroppedAfterPut(<<r, f>>)
                /\ left' = [left EXCEPT ![r] = @ \ {f}]
          /\ UNCHANGED <<resumes, letter, secrets, account, kind, stage, formats, saw>>

(* Mutant: the row names both formats, rendered or not. *)
NamesBoth(r) == Formats

(* Mutant: the row names the PDF or else the DOCX, as a letter's does. *)
NamesOne(r) == IF "pdf" \in formats[r] THEN {"pdf"} ELSE formats[r]

NamedFormats(r) == formats[r]

(* The new row is committed, or the application names its letter: the PDF,   *)
(* or else the DOCX.  An earlier letter's files stay.                        *)
CommitDocument(r) ==
    /\ stage[r] = "store" /\ left[r] = {}
    /\ IF kind[r] = "letter"
       THEN /\ letter' = <<r, IF "pdf" \in formats[r] THEN "pdf" ELSE "docx">>
            /\ UNCHANGED resumes
       ELSE /\ resumes' = [resumes EXCEPT ![r] = NamedFormats(r)]
            /\ UNCHANGED letter
    /\ GoTo(r, IF kind[r] = "optimize" THEN "rescore" ELSE "done")
    /\ UNCHANGED <<files, scratch, secrets, account, kind, formats, left, saw>>

(* The optimized row is scored; a failure is only logged. *)
Rescore(r) == /\ stage[r] = "rescore" /\ GoTo(r, "done")
              /\ UNCHANGED <<documents, secrets, account, kind, formats, left, saw>>

(* download_resume: a copy is made for the response ... *)
Download(r) == /\ \E d \in Rows : \E f \in resumes[d] :
                    /\ <<d, f>> \in files
                    /\ formats' = [formats EXCEPT ![r] = {f}]
                    /\ scratch' = scratch \cup {<<r, f>>}
               /\ Begin(r, "download", "send")
               /\ UNCHANGED left

(* ... and removed in the background once that is sent. *)
Sent(r) == /\ stage[r] = "send" /\ GoTo(r, "done")
           /\ scratch' = scratch \ {<<r, f>> : f \in formats[r]}
           /\ UNCHANGED <<files, resumes, letter, secrets, account, kind, formats, left, saw>>

-----------------------------------------------------------------------------
(* The session of a job site: its cookies, then its metadata. *)

(* Mutant: the metadata is written first and the cookies never. *)
MetadataOnly == "read_meta"

CookiesFirst == "read_cred"

(* import_session: the state is encrypted under the current key.             *)
Connect(r) == /\ Begin(r, "connect", CookiesFirst)
              /\ UNCHANGED <<scratch, formats, left>>

(* delete_session deletes two rows in two commits. *)
Disconnect(r) == /\ Begin(r, "disconnect", "drop_cred")
                 /\ UNCHANGED <<scratch, formats, left>>

(* rotate_all, run by an operator after a new key was put in front.          *)
Rotate(r) == /\ kind' = [kind EXCEPT ![r] = "rotate"]
             /\ stage[r] = "idle" /\ account # "purged" /\ GoTo(r, "read_cred")
             /\ UNCHANGED <<documents, secrets, account, formats, left, saw>>

(* Mutant: a credential is always read as new. *)
NotSeen == None

SeenCred == cred

UnderOldKey == cred # None /\ cred.kek = "old"

(* _put reads the row it will update; rotate_all reads the row and skips it  *)
(* if it is under the current key.                                           *)
ReadCred(r) ==
    /\ stage[r] = "read_cred"
    /\ saw' = [saw EXCEPT ![r] = SeenCred]
    /\ GoTo(r, IF kind[r] = "rotate" /\ ~ UnderOldKey THEN "done" ELSE "write_cred")
    /\ UNCHANGED <<documents, secrets, account, kind, formats, left>>

(* Mutant: a credential is stored under the key that comes last. *)
OldestKek == "old"

CurrentKek == "new"

(* The row is inserted, which uq_user_credential refuses if there is one by  *)
(* now, or updated, which fails if the row that was read is gone.            *)
Inserts(r) == saw[r] = None /\ cred = None
Updates(r) == saw[r] # None /\ cred # None /\ cred.row = saw[r].row

(* Mutant: a rotation stores what it read, whether or not the row is there.  *)
Upserts(r) == saw[r] # None

Rewraps(r) == Updates(r)

WriteCred(r) ==
    /\ stage[r] = "write_cred"
    /\ \/ /\ kind[r] = "connect" /\ (Inserts(r) \/ Updates(r))
          /\ cred' = Cred(IF Inserts(r) THEN r ELSE cred.row, r, CurrentKek)
          /\ GoTo(r, "read_meta")
       \/ /\ kind[r] = "connect" /\ ~ (Inserts(r) \/ Updates(r))
          /\ GoTo(r, "failed") /\ UNCHANGED cred
       \/ /\ kind[r] = "rotate" /\ Rewraps(r)
          /\ cred' = [saw[r] EXCEPT !.kek = "new"]
          /\ GoTo(r, "done")
       \/ /\ kind[r] = "rotate" /\ ~ Rewraps(r)
          /\ GoTo(r, "failed") /\ UNCHANGED cred
    /\ saw' = [saw EXCEPT ![r] = None]
    /\ UNCHANGED <<documents, meta, account, kind, formats, left>>

ReadMeta(r) == /\ stage[r] = "read_meta" /\ GoTo(r, "write_meta")
               /\ saw' = [saw EXCEPT ![r] = meta]
               /\ UNCHANGED <<documents, secrets, account, kind, formats, left>>

(* Inserted or updated in the same way; uq_platform_session.                 *)
(* Row identity is left out: a row deleted and inserted again between read   *)
(* and write takes requests of two more kinds.                               *)
WriteMeta(r) ==
    /\ stage[r] = "write_meta"
    /\ IF (saw[r] = None) = (meta = None)
       THEN meta' = r /\ GoTo(r, "done")
       ELSE GoTo(r, "failed") /\ UNCHANGED meta
    /\ saw' = [saw EXCEPT ![r] = None]
    /\ UNCHANGED <<documents, cred, account, kind, formats, left>>

DropCred(r) == /\ stage[r] = "drop_cred" /\ cred' = None /\ GoTo(r, "drop_meta")
               /\ UNCHANGED <<documents, meta, account, kind, formats, left, saw>>

DropMeta(r) == /\ stage[r] = "drop_meta" /\ meta' = None /\ GoTo(r, "done")
               /\ UNCHANGED <<documents, cred, account, kind, formats, left, saw>>

-----------------------------------------------------------------------------
(* Every step but the last may raise, and the process may die: nothing is    *)
(* undone but what the database had not committed.  A failed re-score leaves *)
(* the request successful.                                                   *)
Fail(r) == /\ stage[r] \notin Ended
           /\ GoTo(r, "failed")
           /\ saw' = [saw EXCEPT ![r] = None]
           /\ UNCHANGED <<documents, secrets, account, kind, formats, left>>

(* delete_account. *)
DeleteAccount == /\ account = "active" /\ account' = "deleted"
                 /\ UNCHANGED <<documents, secrets, kind, stage, formats, left, saw>>

(* Mutant: an account without files has nothing to purge. *)
DueWithFiles == account = "deleted" /\ files # {} /\ \A r \in Requests : stage[r] \in Ended

(* The purge runs every night; the grace period outlives every request.      *)
Due == account = "deleted" /\ \A r \in Requests : stage[r] \in Ended

(* Mutant: an error of storage is logged and the rows deleted anyway. *)
GoesOn(removed) == "emptied"

AbortsUnless(removed) == IF removed = files THEN "emptied" ELSE "deleted"

(* delete_user_data: files first; storage may fail half-way. *)
PurgeFiles == /\ Due
              /\ \E F \in SUBSET files : files' = files \ F /\ account' = AbortsUnless(F)
              /\ UNCHANGED <<scratch, resumes, letter, secrets, kind, stage, formats, left, saw>>
PurgeAllFiles == PurgeFiles /\ account' = "emptied"

(* All rows and the user in one transaction. *)
PurgeRows == /\ account = "emptied" /\ account' = "purged"
             /\ resumes' = [d \in Names |-> None] /\ letter' = None
             /\ cred' = None /\ meta' = None
             /\ UNCHANGED <<files, scratch, kind, stage, formats, left, saw>>

PurgeFails == /\ account = "emptied" /\ account' = "deleted"
              /\ UNCHANGED <<documents, secrets, kind, stage, formats, left, saw>>

Ask(r) == \/ Upload(r) \/ Tailor(r) \/ Optimize(r) \/ CoverLetter(r) \/ Download(r)
          \/ Connect(r) \/ Disconnect(r) \/ Rotate(r)
Work(r) == \/ TailorText(r) \/ Rewrite(r) \/ RenderResume(r) \/ RenderLetter(r) \/ Put(r)
           \/ CommitDocument(r) \/ Rescore(r) \/ Sent(r)
           \/ ReadCred(r) \/ WriteCred(r) \/ ReadMeta(r) \/ WriteMeta(r) \/ DropCred(r) \/ DropMeta(r)

Next == \/ \E r \in Requests : Ask(r) \/ Work(r) \/ Fail(r)
        \/ DeleteAccount \/ PurgeFiles \/ PurgeRows \/ PurgeFails

Spec == Init /\ [][Next]_vars

(* Requests do not hang for ever; some night storage and database both work. *)
FairSpec == /\ Spec /\ \A r \in Requests : WF_vars(Work(r))
            /\ SF_vars(PurgeAllFiles) /\ SF_vars(PurgeRows)

-----------------------------------------------------------------------------
(* Properties. *)

Stages == Ended \cup {"store", "tailor", "render", "rewrite", "rescore", "send", "read_cred",
                      "write_cred", "read_meta", "write_meta", "drop_cred", "drop_meta"}
Kinds == {None, "upload", "tailor", "optimize", "letter", "download", "connect", "disconnect", "rotate"}

(* Also what a request has in its hands at each stage: an idle one has       *)
(* nothing to store, one that makes a document has a format for it, and what *)
(* one that writes a credential has read is a credential.                    *)
TypeOK ==
    /\ files \subseteq Names \X Formats /\ scratch \subseteq Requests \X Formats
    /\ resumes \in [Names -> ((SUBSET Formats) \ {{}}) \cup {None}]
    /\ letter \in (Requests \X Formats) \cup {None}
    /\ cred \in Creds \cup {None} /\ meta \in Names \cup {None}
    /\ kind \in [Requests -> Kinds] /\ stage \in [Requests -> Stages]
    /\ formats \in [Requests -> SUBSET Formats] /\ left \in [Requests -> SUBSET Formats]
    /\ saw \in [Requests -> Creds \cup Names \cup {None}]
    /\ account \in {"active", "deleted", "emptied", "purged"}
    /\ \A r \in Requests :
         /\ left[r] \subseteq formats[r]
         /\ stage[r] \in {"idle", "tailor", "rewrite", "render"} => left[r] = {}
         /\ stage[r] \in {"tailor", "rewrite", "render", "store"} => formats[r] # {}
         /\ stage[r] = "write_cred" => saw[r] \in Creds \cup {None}

(* What a resume row or an application names can be downloaded, whichever    *)
(* renderings failed and wherever a request broke off: until the purge has   *)
(* begun no key in the database is without its object.                       *)
RowsHaveFiles ==
    account = "active" => /\ \A d \in Rows : \A f \in resumes[d] : <<d, f>> \in files
                          /\ letter # None => letter \in files

(* A local file with the applicant's data outlives only a request that       *)
(* failed; one that succeeded has cleaned up after itself, but for what a    *)
(* renderer that failed beside one that did not has begun to write.          *)
ScratchOwned == \A x \in scratch : stage[x[1]] = "done" => x[2] \notin formats[x[1]]

(* An object in storage no row names belongs to a request that is not over   *)
(* or failed, or to a cover letter; else it is named.                        *)
FilesOwned == account = "active" =>
    \A x \in files : \/ resumes[x[1]] # None /\ x[2] \in resumes[x[1]]
                     \/ x[1] \in Requests /\ (stage[x[1]] # "done" \/ kind[x[1]] = "letter")

(* A purge that gets as far as the rows leaves no object in storage that     *)
(* nobody could find again.                                                  *)
NoFilesBehind == account = "purged" => files = {}

(* A site shows as connected without cookies only after a disconnect: an     *)
(* import that broke off does not pretend to a session there is none of.     *)
MetaAfterCookies == meta # None /\ cred = None =>
    \E r \in Requests : kind[r] = "disconnect" /\ stage[r] # "drop_cred"

(* A rotation never brings back cookies the user has removed meanwhile, also *)
(* not into the row of a session connected since.                            *)
RotationNeverRevives ==
    [][\A r \in Requests : kind[r] = "rotate" /\ stage[r] = "write_cred" /\ stage'[r] = "done"
         => cred # None /\ cred'.row = cred.row]_vars

(* Once a rotation has finished nothing is stored under the old key: it may  *)
(* be taken out of SECRETS__APP_KEYS, whatever was saved in the meantime.    *)
OldKeyRetired == \A r \in Requests : kind[r] = "rotate" /\ stage[r] = "done" => ~ UnderOldKey

(* A deleted account is purged in the end, though every night may fail.      *)
PurgedInTheEnd == (account = "deleted") ~> (account = "purged")
=============================================================================
