-------------------------- MODULE AccountDataProofs --------------------------
(***************************************************************************)
(* Proofs about AccountData for every set of requests: what the database   *)
(* names is in storage, what is in storage has an owner, a purge leaves no *)
(* object behind, a connected site has cookies unless it was disconnected, *)
(* and a finished rotation has left nothing under the old key.             *)
(***************************************************************************)
EXTENDS AccountData, TLAPS

USE AccountDataAssumption DEF Names, Formats, documents, secrets

(* Some of the formats are rendered, and more of them may be begun. *)
LEMMA RenderedFacts ==
    ASSUME NEW r \in Requests, Rendered(r)
    PROVE  \E F, W \in SUBSET formats[r] :
             /\ scratch' = scratch \cup {<<r, f>> : f \in W}
             /\ formats' = [formats EXCEPT ![r] = F]
             /\ left' = [left EXCEPT ![r] = F]
             /\ GoTo(r, IF F = {} THEN "failed" ELSE "store")
<1>1. PICK result \in [formats[r] -> PdfRenders \cup DocxRenders] :
        LET G == {f \in formats[r] : result[f] = "file"}
        IN /\ scratch' = scratch \cup {<<r, f>> : f \in {g \in formats[r] : result[g] # "error"}}
           /\ formats' = [formats EXCEPT ![r] = G]
           /\ left' = [left EXCEPT ![r] = G]
           /\ GoTo(r, IF G = {} THEN "failed" ELSE "store")
  BY DEF Rendered
<1>2. /\ {f \in formats[r] : result[f] = "file"} \in SUBSET formats[r]
      /\ {g \in formats[r] : result[g] # "error"} \in SUBSET formats[r]
  OBVIOUS
<1> QED BY <1>1, <1>2

(* What every step keeps.  Requests, then failures, then the purge.          *)
LEMMA TypeStep == TypeOK /\ [Next]_vars => TypeOK'
<1> SUFFICES ASSUME TypeOK, [Next]_vars PROVE TypeOK'
  OBVIOUS
<1> USE DEF Stages, Ended, Kinds
<1>1. ASSUME NEW r \in Requests, Ask(r) PROVE TypeOK'
  <2>1. CASE Upload(r)
    <3>1. PICK f \in Formats : /\ formats' = [formats EXCEPT ![r] = {f}]
                               /\ left' = [left EXCEPT ![r] = {f}]
                               /\ scratch' = scratch \cup {<<r, f>>}
      BY <2>1 DEF Upload, Accepted
    <3>2. scratch' \subseteq Requests \X Formats
      BY <3>1 DEF TypeOK
    <3>3. /\ formats' \in [Requests -> SUBSET Formats] /\ left' \in [Requests -> SUBSET Formats]
          /\ \A q \in Requests : left'[q] \subseteq formats'[q]
      BY <3>1 DEF TypeOK
    <3> QED BY <2>1, <3>1, <3>2, <3>3 DEF Upload, Begin, GoTo, TypeOK
  <2>2. CASE Tailor(r)
    BY <2>2 DEF Tailor, Begin, GoTo, TypeOK
  <2>3. CASE Optimize(r)
    BY <2>3 DEF Optimize, Begin, GoTo, TypeOK
  <2>4. CASE CoverLetter(r)
    BY <2>4 DEF CoverLetter, Begin, GoTo, TypeOK
  <2>5. CASE Download(r)
    <3>1. PICK f \in Formats : /\ formats' = [formats EXCEPT ![r] = {f}]
                               /\ scratch' = scratch \cup {<<r, f>>}
      BY <2>5 DEF Download, Rows, TypeOK
    <3> QED BY <2>5, <3>1 DEF Download, Begin, GoTo, TypeOK
  <2>6. CASE Connect(r)
    BY <2>6 DEF Connect, CookiesFirst, Begin, GoTo, TypeOK
  <2>7. CASE Disconnect(r)
    BY <2>7 DEF Disconnect, Begin, GoTo, TypeOK
  <2>8. CASE Rotate(r)
    BY <2>8 DEF Rotate, GoTo, TypeOK
  <2> QED BY <1>1, <2>1, <2>2, <2>3, <2>4, <2>5, <2>6, <2>7, <2>8 DEF Ask
<1>2. ASSUME NEW r \in Requests, Work(r) PROVE TypeOK'
  <2>1. CASE TailorText(r)
    BY <2>1 DEF TailorText, GoTo, TypeOK
  <2>2. CASE Rewrite(r)
    BY <2>2 DEF Rewrite, GoTo, TypeOK
  <2>3. CASE Rendered(r)
    <3>1. PICK F \in SUBSET formats[r], W \in SUBSET formats[r] :
            /\ scratch' = scratch \cup {<<r, f>> : f \in W}
            /\ formats' = [formats EXCEPT ![r] = F]
            /\ left' = [left EXCEPT ![r] = F]
            /\ GoTo(r, IF F = {} THEN "failed" ELSE "store")
      BY <2>3, RenderedFacts
    <3>2. scratch' \subseteq Requests \X Formats
      BY <3>1 DEF TypeOK
    <3>3. \A q \in Requests : q # r => /\ formats'[q] = formats[q] /\ left'[q] = left[q]
                                      /\ stage'[q] = stage[q]
      BY <3>1 DEF GoTo, TypeOK
    <3>4. /\ F \in SUBSET Formats /\ formats'[r] = F /\ left'[r] = F
          /\ stage'[r] \in {"failed", "store"} /\ (stage'[r] = "store" => F # {})
      BY <3>1 DEF GoTo, TypeOK
    <3>5. /\ formats' \in [Requests -> SUBSET Formats] /\ left' \in [Requests -> SUBSET Formats]
          /\ stage' \in [Requests -> Stages]
      BY <3>1, <3>4 DEF GoTo, TypeOK
    <3> QED BY <2>3, <3>2, <3>3, <3>4, <3>5 DEF Rendered, TypeOK
  <2>4. CASE Put(r)
    BY <2>4 DEF Put, DroppedAfterPut, TypeOK
  <2>5. CASE CommitDocument(r)
    BY <2>5 DEF CommitDocument, NamedFormats, GoTo, TypeOK
  <2>6. CASE Rescore(r)
    BY <2>6 DEF Rescore, GoTo, TypeOK
  <2>7. CASE Sent(r)
    BY <2>7 DEF Sent, GoTo, TypeOK
  <2>8. CASE ReadCred(r)
    BY <2>8 DEF ReadCred, SeenCred, GoTo, TypeOK
  <2>9. CASE WriteCred(r)
    <3>1. cred' \in Creds \cup {None}
      BY <2>9 DEF WriteCred, Cred, CurrentKek, Inserts, Updates, Rewraps, Creds, TypeOK
    <3> QED BY <2>9, <3>1 DEF WriteCred, GoTo, TypeOK
  <2>10. CASE ReadMeta(r)
    BY <2>10 DEF ReadMeta, GoTo, TypeOK
  <2>11. CASE WriteMeta(r)
    BY <2>11 DEF WriteMeta, GoTo, TypeOK
  <2>12. CASE DropCred(r)
    BY <2>12 DEF DropCred, GoTo, TypeOK
  <2>13. CASE DropMeta(r)
    BY <2>13 DEF DropMeta, GoTo, TypeOK
  <2> QED BY <1>2, <2>1, <2>2, <2>3, <2>4, <2>5, <2>6, <2>7, <2>8, <2>9, <2>10, <2>11, <2>12, <2>13
          DEF Work, RenderResume, RenderLetter
<1>3. ASSUME NEW r \in Requests, Fail(r) PROVE TypeOK'
  BY <1>3 DEF Fail, GoTo, TypeOK
<1>4. CASE DeleteAccount \/ PurgeFiles \/ PurgeRows \/ PurgeFails
  BY <1>4 DEF DeleteAccount, PurgeFiles, AbortsUnless, PurgeRows, PurgeFails, TypeOK
<1>5. CASE UNCHANGED vars
  BY <1>5 DEF vars, TypeOK
<1> QED BY <1>1, <1>2, <1>3, <1>4, <1>5 DEF Next

(* The state keeps its types, and no request comes to a stage without what   *)
(* it needs there, for any number of requests and failures.                  *)
THEOREM TypeCorrect == Spec => []TypeOK
<1>1. Init => TypeOK
  BY DEF Init, TypeOK, Cred, Creds, Stages, Ended, Kinds
<1> QED BY <1>1, TypeStep, PTL DEF Spec

-----------------------------------------------------------------------------
(* Storage, rows and local files. *)

(* What a request that stores a document has to show for it so far.          *)
Backed == account = "active" =>
    /\ RowsHaveFiles
    /\ \A r \in Requests : stage[r] = "store" =>
         \A f \in formats[r] : f \in left[r] \/ <<r, f>> \in files

(* Whose an object in storage is.                                            *)
Traced == account = "active" =>
    /\ resumes[First] = Formats
    /\ \A r \in Requests : \A f \in Formats : <<r, f>> \in files =>
         /\ stage[r] \in {"store", "rescore", "done", "failed"}
         /\ stage[r] = "store" => f \in formats[r]
         /\ stage[r] \in {"rescore", "done"} /\ kind[r] # "letter"
              => resumes[r] # None /\ f \in resumes[r]

(* Whose a local file is, and that it is still needed.                       *)
Cleaned == \A r \in Requests : \A f \in Formats : <<r, f>> \in scratch =>
    /\ stage[r] \in {"store", "send", "rescore", "done", "failed"}
    /\ stage[r] = "store" /\ f \in formats[r] => f \in left[r]
    /\ stage[r] \in {"rescore", "done"} => f \notin formats[r]

(* Nobody is left to put an object into an emptied account.                  *)
Emptied == account \in {"emptied", "purged"} =>
    /\ files = {}
    /\ \A r \in Requests : stage[r] \notin {"store", "tailor", "rewrite", "render"}

DocumentInv == Backed /\ Traced /\ Cleaned /\ Emptied

(* Each action disturbs the hands of one request; only Put and the purge     *)
(* change storage, only CommitDocument the rows.                             *)
LEMMA DocumentStep == TypeOK /\ DocumentInv /\ [Next]_vars => DocumentInv'
<1> SUFFICES ASSUME TypeOK, DocumentInv, [Next]_vars PROVE DocumentInv'
  OBVIOUS
<1> USE DEF DocumentInv, Backed, Traced, Cleaned, Emptied, RowsHaveFiles, Rows
<1>1. ASSUME NEW r \in Requests, Ask(r) PROVE DocumentInv'
  <2>1. CASE Upload(r)
    <3>1. PICK f \in Formats : /\ formats' = [formats EXCEPT ![r] = {f}]
                               /\ left' = [left EXCEPT ![r] = {f}]
                               /\ scratch' = scratch \cup {<<r, f>>}
      BY <2>1 DEF Upload, Accepted
    <3> QED BY <2>1, <3>1 DEF Upload, Begin, GoTo, TypeOK
  <2>2. CASE Tailor(r) \/ Optimize(r) \/ CoverLetter(r)
    BY <2>2 DEF Tailor, Optimize, CoverLetter, Begin, GoTo, TypeOK
  <2>3. CASE Download(r)
    <3>1. PICK f \in Formats : /\ formats' = [formats EXCEPT ![r] = {f}]
                               /\ scratch' = scratch \cup {<<r, f>>}
      BY <2>3 DEF Download, TypeOK
    <3> QED BY <2>3, <3>1 DEF Download, Begin, GoTo, TypeOK
  <2>4. CASE Connect(r) \/ Disconnect(r)
    BY <2>4 DEF Connect, Disconnect, CookiesFirst, Begin, GoTo, TypeOK
  <2>5. CASE Rotate(r)
    BY <2>5 DEF Rotate, GoTo, TypeOK
  <2> QED BY <1>1, <2>1, <2>2, <2>3, <2>4, <2>5 DEF Ask
<1>2. ASSUME NEW r \in Requests, Work(r) PROVE DocumentInv'
  <2>1. CASE TailorText(r) \/ Rewrite(r)
    BY <2>1 DEF TailorText, Rewrite, GoTo, TypeOK
  <2>2. CASE Rendered(r)
    <3>1. PICK F \in SUBSET formats[r], W \in SUBSET formats[r] :
            /\ scratch' = scratch \cup {<<r, f>> : f \in W}
            /\ formats' = [formats EXCEPT ![r] = F]
            /\ left' = [left EXCEPT ![r] = F]
            /\ GoTo(r, IF F = {} THEN "failed" ELSE "store")
      BY <2>2, RenderedFacts
    <3> QED BY <2>2, <3>1 DEF Rendered, GoTo, TypeOK
  <2>3. CASE Put(r)
    BY <2>3 DEF Put, DroppedAfterPut, TypeOK
  <2>4. CASE CommitDocument(r)
    <3>1. /\ stage[r] = "store" /\ left[r] = {} /\ formats[r] # {} /\ formats[r] \subseteq Formats
          /\ UNCHANGED <<files, scratch, account, kind, formats, left>>
          /\ stage' = [stage EXCEPT ![r] = IF kind[r] = "optimize" THEN "rescore" ELSE "done"]
      BY <2>4 DEF CommitDocument, GoTo, TypeOK
    <3>2. \A q \in Requests : q # r => stage'[q] = stage[q]
      BY <3>1 DEF TypeOK
    <3>3. stage'[r] = IF kind[r] = "optimize" THEN "rescore" ELSE "done"
      BY <3>1 DEF TypeOK
    <3>4. account = "active" => \A f \in formats[r] : <<r, f>> \in files
      BY <3>1
    <3>5. CASE kind[r] = "letter"
      <4>1. UNCHANGED resumes /\ letter' \in {<<r, f>> : f \in formats[r]}
        BY <2>4, <3>1, <3>5 DEF CommitDocument
      <4>2. Backed'
        BY <3>1, <3>2, <3>3, <3>4, <4>1
      <4> QED BY <3>1, <3>2, <3>3, <3>5, <4>1, <4>2
    <3>6. CASE kind[r] # "letter"
      <4>1. UNCHANGED letter /\ resumes' = [resumes EXCEPT ![r] = formats[r]]
        BY <2>4, <3>6 DEF CommitDocument, NamedFormats
      <4>2. /\ resumes'[r] = formats[r] /\ resumes'[r] # None
            /\ \A d \in Names : d # r => resumes'[d] = resumes[d]
        BY <3>1, <4>1 DEF TypeOK
      <4>3. Backed'
        BY <3>1, <3>2, <3>3, <3>4, <4>1, <4>2
      <4>4. Traced'
        BY <3>1, <3>2, <3>3, <4>2
      <4> QED BY <3>1, <3>2, <3>3, <4>3, <4>4
    <3> QED BY <3>5, <3>6
  <2>5. CASE Rescore(r)
    BY <2>5 DEF Rescore, GoTo, TypeOK
  <2>6. CASE Sent(r)
    BY <2>6 DEF Sent, GoTo, TypeOK
  <2>7. CASE ReadCred(r) \/ ReadMeta(r)
    BY <2>7 DEF ReadCred, ReadMeta, GoTo, TypeOK
  <2>8. CASE WriteCred(r)
    BY <2>8 DEF WriteCred, GoTo, TypeOK
  <2>9. CASE WriteMeta(r) \/ DropCred(r) \/ DropMeta(r)
    BY <2>9 DEF WriteMeta, DropCred, DropMeta, GoTo, TypeOK
  <2> QED BY <1>2, <2>1, <2>2, <2>3, <2>4, <2>5, <2>6, <2>7, <2>8, <2>9 DEF Work, RenderResume, RenderLetter
<1>3. ASSUME NEW r \in Requests, Fail(r) PROVE DocumentInv'
  BY <1>3 DEF Fail, GoTo, Ended, TypeOK
<1>4. CASE DeleteAccount \/ PurgeRows \/ PurgeFails
  BY <1>4 DEF DeleteAccount, PurgeRows, PurgeFails, TypeOK
<1>5. CASE PurgeFiles
  BY <1>5 DEF PurgeFiles, Due, Ended, AbortsUnless, TypeOK
<1>6. CASE UNCHANGED vars
  BY <1>6 DEF vars
<1> QED BY <1>1, <1>2, <1>3, <1>4, <1>5, <1>6 DEF Next

LEMMA DocumentInvariant == Spec => [](TypeOK /\ DocumentInv)
<1>1. Init => DocumentInv
  BY DEF Init, DocumentInv, Backed, Traced, Cleaned, Emptied, RowsHaveFiles, Rows
<1> QED BY <1>1, TypeCorrect, TypeStep, DocumentStep, PTL DEF Spec

(* Until the purge begins, every key a row or an application names has its   *)
(* object: whatever fails, and whenever.                                     *)
THEOREM RowsNameWhatIsThere == Spec => []RowsHaveFiles
<1>1. DocumentInv => RowsHaveFiles
  BY DEF DocumentInv, Backed, RowsHaveFiles
<1> QED BY <1>1, DocumentInvariant, PTL

(* Every object in storage is named by a row, or belongs to a request that   *)
(* failed, goes on or wrote a letter.                                        *)
THEOREM EveryFileHasAnOwner == Spec => []FilesOwned
<1>1. TypeOK /\ DocumentInv => FilesOwned
  <2> SUFFICES ASSUME TypeOK, DocumentInv, account = "active",
                      NEW x \in files, ~ (resumes[x[1]] # None /\ x[2] \in resumes[x[1]])
               PROVE  x[1] \in Requests /\ (stage[x[1]] # "done" \/ kind[x[1]] = "letter")
    BY DEF FilesOwned
  <2>1. PICK d \in Names, f \in Formats : x = <<d, f>>
    BY DEF TypeOK
  <2>2. d # First
    BY <2>1 DEF DocumentInv, Traced
  <2> QED BY <2>1, <2>2 DEF DocumentInv, Traced
<1> QED BY <1>1, DocumentInvariant, PTL

(* A request that succeeded has left no local copy of a document it made.    *)
THEOREM NoCopiesLeft == Spec => []ScratchOwned
<1>1. TypeOK /\ DocumentInv => ScratchOwned
  <2> SUFFICES ASSUME TypeOK, DocumentInv, NEW x \in scratch, stage[x[1]] = "done"
               PROVE  x[2] \notin formats[x[1]]
    BY DEF ScratchOwned
  <2>1. PICK r \in Requests, f \in Formats : x = <<r, f>>
    BY DEF TypeOK
  <2> QED BY <2>1 DEF DocumentInv, Cleaned
<1> QED BY <1>1, DocumentInvariant, PTL

(* A purged account has no object in storage, however often the purge broke  *)
(* off and whatever requests did until their end.                            *)
THEOREM PurgeIsComplete == Spec => []NoFilesBehind
<1>1. DocumentInv => NoFilesBehind
  BY DEF DocumentInv, Emptied, NoFilesBehind
<1> QED BY <1>1, DocumentInvariant, PTL

-----------------------------------------------------------------------------
(* A job site's cookies and their metadata. *)

(* What a request is for says which of the rows' steps it can be at.         *)
KindsKeep == \A r \in Requests :
    /\ stage[r] \in {"read_meta", "write_meta"} => kind[r] = "connect"
    /\ stage[r] \in {"drop_cred", "drop_meta"} => kind[r] = "disconnect"

(* A disconnect has removed the cookies, or broken off.                      *)
Disconnected == \E r \in Requests : kind[r] = "disconnect" /\ stage[r] \notin {"idle", "drop_cred"}

(* Metadata is there, or about to be, only where cookies were before it; and *)
(* in an emptied account only a rotation still runs.                         *)
SessionInv ==
    /\ KindsKeep
    /\ \A r \in Requests : stage[r] \in {"read_meta", "write_meta"} => cred # None \/ Disconnected
    /\ meta # None => cred # None \/ Disconnected
    /\ account \in {"emptied", "purged"} =>
         \A r \in Requests : stage[r] \in Ended \/ kind[r] = "rotate"

LEMMA SessionStep == TypeOK /\ SessionInv /\ [Next]_vars => SessionInv'
<1> SUFFICES ASSUME TypeOK, SessionInv, [Next]_vars PROVE SessionInv'
  OBVIOUS
<1> USE DEF SessionInv, KindsKeep, Disconnected, Ended
<1>1. ASSUME NEW r \in Requests, Ask(r) PROVE SessionInv'
  <2> DEFINE Asked == /\ stage[r] = "idle" /\ UNCHANGED <<cred, meta, account>>
                      /\ stage'[r] \notin {"idle", "read_meta", "write_meta", "drop_meta"}
                      /\ stage'[r] = "drop_cred" => kind'[r] = "disconnect"
                      /\ account = "active" \/ kind'[r] = "rotate"
                      /\ \A q \in Requests : q # r => stage'[q] = stage[q] /\ kind'[q] = kind[q]
  <2>1. Asked
    <3>1. CASE Upload(r) \/ Tailor(r) \/ Optimize(r)
      BY <3>1 DEF Upload, Tailor, Optimize, Begin, GoTo, TypeOK
    <3>2. CASE CoverLetter(r) \/ Download(r)
      BY <3>2 DEF CoverLetter, Download, Begin, GoTo, TypeOK
    <3>3. CASE Connect(r) \/ Disconnect(r)
      BY <3>3 DEF Connect, CookiesFirst, Disconnect, Begin, GoTo, TypeOK
    <3>4. CASE Rotate(r)
      BY <3>4 DEF Rotate, GoTo, TypeOK
    <3> QED BY <1>1, <3>1, <3>2, <3>3, <3>4 DEF Ask
  <2> QED BY <2>1
<1>2. ASSUME NEW r \in Requests, Work(r) PROVE SessionInv'
  <2>1. CASE TailorText(r) \/ Rewrite(r) \/ Rescore(r)
    BY <2>1 DEF TailorText, Rewrite, Rescore, GoTo, TypeOK
  <2>2. CASE Rendered(r) \/ CommitDocument(r)
    BY <2>2 DEF Rendered, CommitDocument, GoTo, TypeOK
  <2>3. CASE Put(r) \/ Sent(r)
    BY <2>3 DEF Put, Sent, GoTo, TypeOK
  <2>4. CASE ReadCred(r)
    BY <2>4 DEF ReadCred, GoTo, TypeOK
  <2>5. CASE WriteCred(r)
    <3>1. Inserts(r) \/ Updates(r) => Cred(IF Inserts(r) THEN r ELSE cred.row, r, CurrentKek) \in Creds
      BY DEF Cred, CurrentKek, Inserts, Updates, Creds, TypeOK
    <3>2. stage[r] = "write_cred" /\ Updates(r) => [saw[r] EXCEPT !.kek = "new"] \in Creds
      BY DEF Updates, Creds, TypeOK
    <3>3. cred # None => cred' # None
      BY <2>5, <3>1, <3>2 DEF WriteCred, Rewraps
    <3>4. /\ stage'[r] \in {"read_meta", "done", "failed"}
          /\ stage'[r] = "read_meta" => kind[r] = "connect" /\ cred' # None
      BY <2>5, <3>1 DEF WriteCred, GoTo, TypeOK
    <3>5. stage[r] = "write_cred" /\ UNCHANGED <<meta, account, kind>>
          /\ \A q \in Requests : q # r => stage'[q] = stage[q]
      BY <2>5 DEF WriteCred, GoTo, TypeOK
    <3>6. KindsKeep' /\ (Disconnected => Disconnected')
      BY <3>4, <3>5
    <3> QED BY <3>3, <3>4, <3>5, <3>6
  <2>6. CASE ReadMeta(r) \/ WriteMeta(r)
    BY <2>6 DEF ReadMeta, WriteMeta, GoTo, TypeOK
  <2>7. CASE DropCred(r) \/ DropMeta(r)
    BY <2>7 DEF DropCred, DropMeta, GoTo, TypeOK
  <2> QED BY <1>2, <2>1, <2>2, <2>3, <2>4, <2>5, <2>6, <2>7 DEF Work, RenderResume, RenderLetter
<1>3. ASSUME NEW r \in Requests, Fail(r) PROVE SessionInv'
  BY <1>3 DEF Fail, GoTo, TypeOK
<1>4. CASE DeleteAccount \/ PurgeFails
  BY <1>4 DEF DeleteAccount, PurgeFails
<1>5. CASE PurgeFiles
  BY <1>5 DEF PurgeFiles, Due, AbortsUnless
<1>6. CASE PurgeRows
  BY <1>6 DEF PurgeRows
<1>7. CASE UNCHANGED vars
  BY <1>7 DEF vars
<1> QED BY <1>1, <1>2, <1>3, <1>4, <1>5, <1>6, <1>7 DEF Next

(* A site shows as connected without cookies only after a disconnect,        *)
(* however imports, disconnects, rotations and the purge interleave and      *)
(* break off (the credential is committed before the metadata row).          *)
THEOREM ConnectedMeansCookies == Spec => []MetaAfterCookies
<1>1. Init => SessionInv
  BY DEF Init, SessionInv, KindsKeep, Cred
<1>2. SessionInv => MetaAfterCookies
  BY DEF SessionInv, Disconnected, MetaAfterCookies
<1> QED BY <1>1, <1>2, TypeCorrect, SessionStep, PTL DEF Spec

-----------------------------------------------------------------------------
(* A rotation reads and writes credentials, and does nothing else.           *)
Rotating == \A r \in Requests : kind[r] = "rotate" =>
                stage[r] \in {"idle", "read_cred", "write_cred", "done", "failed"}

(* Once a rotation has finished, nothing is under the old key and nothing    *)
(* will be: every write since it was put in front is under the new one.      *)
THEOREM OldKeyStaysRetired == Spec => []OldKeyRetired
<1>1. Init => Rotating /\ OldKeyRetired
  BY DEF Init, Rotating, OldKeyRetired
<1>2. TypeOK /\ Rotating /\ OldKeyRetired /\ [Next]_vars => (Rotating /\ OldKeyRetired)'
  <2> SUFFICES ASSUME TypeOK, Rotating, OldKeyRetired, [Next]_vars
               PROVE  (Rotating /\ OldKeyRetired)'
    OBVIOUS
  <2> USE DEF Rotating, OldKeyRetired, UnderOldKey
  <2>1. CASE \E r \in Requests : Ask(r) \/ Fail(r)
    BY <2>1 DEF Ask, Upload, Tailor, Optimize, CoverLetter, Download, Connect, CookiesFirst,
                Disconnect, Rotate, Fail, Begin, GoTo, TypeOK
  <2>2. CASE \E r \in Requests : WriteCred(r)
    BY <2>2 DEF WriteCred, Cred, CurrentKek, Rewraps, Updates, GoTo, TypeOK, Creds
  <2>3. CASE \E r \in Requests : ReadCred(r)
    BY <2>3 DEF ReadCred, SeenCred, GoTo, TypeOK
  <2>4. CASE \E r \in Requests : TailorText(r) \/ Rewrite(r) \/ Put(r) \/ Rescore(r) \/ Sent(r)
    BY <2>4 DEF TailorText, Rewrite, Put, Rescore, Sent, GoTo, TypeOK
  <2>5. CASE \E r \in Requests : Rendered(r) \/ CommitDocument(r)
    BY <2>5 DEF Rendered, CommitDocument, GoTo, TypeOK
  <2>6. CASE \E r \in Requests : ReadMeta(r) \/ WriteMeta(r) \/ DropCred(r) \/ DropMeta(r)
    BY <2>6 DEF ReadMeta, WriteMeta, DropCred, DropMeta, GoTo, TypeOK
  <2>7. CASE DeleteAccount \/ PurgeFiles \/ PurgeRows \/ PurgeFails \/ UNCHANGED vars
    BY <2>7 DEF DeleteAccount, PurgeFiles, PurgeRows, PurgeFails, vars
  <2> QED BY <2>1, <2>2, <2>3, <2>4, <2>5, <2>6, <2>7 DEF Next, Work, RenderResume, RenderLetter
<1> QED BY <1>1, <1>2, TypeCorrect, TypeStep, PTL DEF Spec

(* A rotation stores what it read only over the row it read: cookies that    *)
(* were removed meanwhile stay removed.                                      *)
THEOREM RotationRevivesNothing == Spec => RotationNeverRevives
<1>1. TypeOK /\ [Next]_vars =>
        [\A r \in Requests : kind[r] = "rotate" /\ stage[r] = "write_cred" /\ stage'[r] = "done"
           => cred # None /\ cred'.row = cred.row]_vars
  <2> SUFFICES ASSUME TypeOK, Next, NEW r \in Requests,
                      kind[r] = "rotate", stage[r] = "write_cred", stage'[r] = "done"
               PROVE  cred # None /\ cred'.row = cred.row
    OBVIOUS
  <2>1. \A q \in Requests : ~ Ask(q) /\ ~ Fail(q)
    BY DEF Ask, Upload, Tailor, Optimize, CoverLetter, Download, Connect, Disconnect, Rotate,
           Fail, Begin, GoTo, TypeOK
  <2>2. \A q \in Requests : Work(q) => WriteCred(r)
    BY DEF Work, TailorText, Rewrite, RenderResume, RenderLetter, Rendered, Put, CommitDocument,
           Rescore, Sent, ReadCred, WriteCred, ReadMeta, WriteMeta, DropCred, DropMeta, GoTo, TypeOK
  <2>3. ~ (DeleteAccount \/ PurgeFiles \/ PurgeRows \/ PurgeFails)
    BY DEF DeleteAccount, PurgeFiles, PurgeRows, PurgeFails
  <2>4. Updates(r) /\ cred' = [saw[r] EXCEPT !.kek = "new"] /\ saw[r] \in Creds
    BY <2>1, <2>2, <2>3 DEF Next, WriteCred, Rewraps, Updates, GoTo, TypeOK
  <2> QED BY <2>4 DEF Updates, Creds
<1> QED BY <1>1, TypeCorrect, PTL DEF Spec, RotationNeverRevives
=============================================================================
