----------------------------- MODULE Documents ------------------------------
(***************************************************************************)
(* Uploads, reviews and approvals of services/document-intelligence: the   *)
(* bytes of a document are a file, what is known of it is a row, and a     *)
(* document is recognized again by its Idempotency-Key or by its checksum. *)
(*                                                                         *)
(* The handlers are coroutines of one process that never await once they   *)
(* have opened the database, so each of them is atomic, but for a crash    *)
(* between writing the file and committing the rows.                       *)
(*                                                                         *)
(* A file's content is the set of words the review looks for in it.        *)
(***************************************************************************)
EXTENDS Naturals, FiniteSets

CONSTANTS
  Blobs,          \* contents of files, told apart as their checksums are
  Filenames, Supported,   \* names, and those with an extension of the review set
  Filings,        \* (claim_id, policy_id) a document is filed under
  DocKeys,        \* Idempotency-Key header values
  NoDocKey,       \* no such header
  MaxDocuments,   \* bound: files written
  MaxReviews      \* bound: reviews created

ASSUME DocumentsAssumption ==
  NoDocKey \notin DocKeys /\ MaxDocuments \in Nat /\ MaxReviews \in Nat

VARIABLES
  files,          \* the storage directory
  documents,      \* table documents
  docKeys,        \* table idempotency
  reviews,        \* table reviews
  uploads         \* history: the answers to uploads

documentsVars == <<files, documents, docKeys, reviews, uploads>>

-----------------------------------------------------------------------------
Words == {"fraud", "excluded", "lawsuit", "signature", "missing", "unsigned"}
ASSUME BlobsAssumption == \A b \in Blobs : b \subseteq Words

DocIds == 1..MaxDocuments   \* generated ids; a file is named after its document's
File == [id: DocIds, blob: Blobs]
Document == [id: DocIds, name: Filenames, blob: Blobs, filing: Filings]
KeyRow == [key: DocKeys, blob: Blobs, filing: Filings, doc: DocIds]   \* blob, filing: the fingerprint
Indicators == {"fraud", "excluded", "lawsuit", "signature", "extension"}
Review == [id: 1..MaxReviews, doc: DocIds, recommendation: {"approve", "manual_review"},
           reasons: SUBSET Indicators, status: {"pending", "approved", "rejected"}]
Uploaded == [key: DocKeys \cup {NoDocKey}, blob: Blobs, filing: Filings, doc: DocIds]

DocumentsTypeOK ==
  /\ files \subseteq File
  /\ documents \subseteq Document
  /\ docKeys \subseteq KeyRow
  /\ reviews \subseteq Review
  /\ uploads \subseteq Uploaded

DocumentsInit ==
  /\ files = {}
  /\ documents = {}
  /\ docKeys = {}
  /\ reviews = {}
  /\ uploads = {}

-----------------------------------------------------------------------------
KeyRows(k) == {r \in docKeys : r.key = k}
Copies(blob, filing) == {d \in documents : d.blob = blob /\ d.filing = filing}
CopiesUnkeyed(k, blob, filing) ==   \* mutant: a new key is a new document
  IF k = NoDocKey THEN Copies(blob, filing) ELSE {}
CopiesFor(k, blob, filing) == Copies(blob, filing)

Hand(k, blob, filing, d) ==
  uploads' = uploads \cup {[key |-> k, blob |-> blob, filing |-> filing, doc |-> d]}

(* The key is known: its document for the same fingerprint, 409 for another. *)
ReplayUpload(k, blob, filing) ==
  /\ \E r \in KeyRows(k) :
       IF r.blob = blob /\ r.filing = filing
         THEN Hand(k, blob, filing, r.doc)
         ELSE UNCHANGED uploads
  /\ UNCHANGED <<files, documents, docKeys, reviews>>

(* The same bytes are filed there already: that document, and the key is not recorded. *)
FindCopy(k, blob, filing) ==
  /\ KeyRows(k) = {}
  /\ \E d \in CopiesFor(k, blob, filing) : Hand(k, blob, filing, d.id)
  /\ UNCHANGED <<files, documents, docKeys, reviews>>

FreshDocIds == DocIds \ ({f.id : f \in files} \cup {d.id : d \in documents})

(* target.write_bytes, then both INSERTs and the COMMIT. *)
StoreUpload(k, name, blob, filing) ==
  /\ KeyRows(k) = {}
  /\ CopiesFor(k, blob, filing) = {}
  /\ \E d \in FreshDocIds :
       /\ files' = files \cup {[id |-> d, blob |-> blob]}
       /\ documents' = documents \cup
            {[id |-> d, name |-> name, blob |-> blob, filing |-> filing]}
       /\ docKeys' = IF k = NoDocKey THEN docKeys ELSE docKeys \cup
            {[key |-> k, blob |-> blob, filing |-> filing, doc |-> d]}
       /\ Hand(k, blob, filing, d)
  /\ UNCHANGED reviews

(* What is left when the process dies, or the database refuses, between the two stores. *)
RowsOnly(d, name, blob, filing) ==   \* mutant: the rows are committed before the file
  /\ documents' = documents \cup {[id |-> d, name |-> name, blob |-> blob, filing |-> filing]}
  /\ UNCHANGED files
Leftover(d, name, blob, filing) ==
  /\ files' = files \cup {[id |-> d, blob |-> blob]}
  /\ UNCHANGED documents

CrashUpload(k, name, blob, filing) ==
  /\ KeyRows(k) = {}
  /\ CopiesFor(k, blob, filing) = {}
  /\ \E d \in FreshDocIds : Leftover(d, name, blob, filing)
  /\ UNCHANGED <<docKeys, reviews, uploads>>

-----------------------------------------------------------------------------
(* retrieve_document: the file is there, or 503. *)
Content(d) == {f.blob : f \in {g \in files : g.id = d}}

(* rules.review: the terms found, a signature that is missing, an unsupported extension. *)
SignatureMissing(blob) == "signature" \in blob /\ blob \cap {"missing", "unsigned"} # {}
EachTerm(name, blob) == blob   \* mutant: what counts only together is reported alone
Reasons(name, blob) ==
  (blob \cap {"fraud", "excluded", "lawsuit"})
    \cup (IF SignatureMissing(blob) THEN {"signature"} ELSE {})
    \cup (IF name \notin Supported THEN {"extension"} ELSE {})
Recommendation(reasons) == IF reasons = {} THEN "approve" ELSE "manual_review"

(* create_review reads the file again: without it the request fails, 500. *)
CreateReview(d) ==
  /\ \E n \in 1..MaxReviews, blob \in Content(d.id) :
       /\ Cardinality(reviews) = n - 1
       /\ LET reasons == Reasons(d.name, blob) IN
            reviews' = reviews \cup
              {[id |-> n, doc |-> d.id, recommendation |-> Recommendation(reasons),
                reasons |-> reasons, status |-> "pending"]}
  /\ UNCHANGED <<files, documents, docKeys, uploads>>

(* approve_review; 409 when it was decided before. *)
DecideReview(r, verdict) ==
  /\ r.status = "pending"
  /\ reviews' = (reviews \ {r}) \cup {[r EXCEPT !.status = verdict]}
  /\ UNCHANGED <<files, documents, docKeys, uploads>>

DocumentsNext ==
  \/ \E k \in DocKeys, blob \in Blobs, filing \in Filings : ReplayUpload(k, blob, filing)
  \/ \E k \in DocKeys \cup {NoDocKey}, blob \in Blobs, filing \in Filings :
       \/ FindCopy(k, blob, filing)
       \/ \E name \in Filenames :
            StoreUpload(k, name, blob, filing) \/ CrashUpload(k, name, blob, filing)
  \/ \E d \in documents : CreateReview(d)
  \/ \E r \in reviews, verdict \in {"approved", "rejected"} : DecideReview(r, verdict)

DocumentsSpec == DocumentsInit /\ [][DocumentsNext]_documentsVars

-----------------------------------------------------------------------------
(* What an upload was answered with exists as a row and, with just these bytes, as a file,
   although the two stores share no transaction; and uploads of the same bytes to the same
   claim and policy were all answered with one document, under whatever keys
   (api.py:50-76).  So are reviews and downloads never without their file (api.py:122, 133). *)
UploadsResolve ==
  /\ \A d \in documents : Content(d.id) = {d.blob}
  /\ \A a \in uploads :
       /\ \E d \in documents : d.id = a.doc /\ d.blob = a.blob /\ d.filing = a.filing
       /\ \A b \in uploads : a.blob = b.blob /\ a.filing = b.filing => a.doc = b.doc

(* Refuted by a run.  api.py:55 refuses a key "already used for a different document", and
   the service's README.md:3 promises idempotent uploads: an Idempotency-Key stands for one
   document. *)
KeyNamesOneDocument ==
  \A a, b \in uploads : a.key = b.key /\ a.key # NoDocKey => a.doc = b.doc
=============================================================================
