-------------------------------- MODULE Media --------------------------------
(* One file of a merchant's media library, the objects stored for it, and   *)
(* the compliance submissions that name it.  Storage and database share no *)
(* transaction: an upload stores its objects and then the row, a deletion  *)
(* goes the same way, and a submission first moves the file, with its      *)
(* resized copies, out of public reach.  Requests overlap, and any of their *)
(* steps may fail or be the last one before the process dies.              *)
EXTENDS Integers, FiniteSets

CONSTANTS
    Requests,      \* requests in flight at most
    Submissions    \* ids of compliance submissions

VARIABLES
    s3,            \* objects are in a bucket (copy, then delete), not on disk
    object,        \* the objects stored for the file
    row,           \* its Media row
    document,      \* the reference each KycSubmission keeps to the file
    moving,        \* mediaPrivacyMoves has a move of the file
    uploaded,      \* the file's one upload has begun
    broken,        \* copies were left behind that no row tells of
    cut,           \* a request was cut short: a step failed or the process died
    solo,          \* requests do not overlap in this behaviour
    call           \* what each request read and has still to do

mediaVars == <<s3, object, row, document, moving, uploaded, broken, cut>>

Idle == [op |-> "idle"]
Free(q) == call[q] = Idle /\ (solo => \A r \in Requests : call[r] = Idle)
Begin(q, c) == Free(q) /\ call' = [call EXCEPT ![q] = c]
Go(q, pc) == call' = [call EXCEPT ![q].pc = pc]
End(q) == call' = [call EXCEPT ![q] = Idle]
At(q, op, pc) == call[q].op = op /\ call[q].pc = pc

Public == {"original", "optimized", "preset"}
NoRow == [url |-> "none", variants |-> FALSE, visibility |-> "none"]
Exists == row # NoRow

\* storage.delete of some objects.  On disk an error is swallowed and the
\* object stays; in a bucket it is thrown (StepFails).
Delete(objects) ==
    \E left \in SUBSET (object \cap objects) :
        /\ s3 => left = {}
        /\ object' = (object \ objects) \cup left
        /\ broken' = (broken \/ left # {})

-----------------------------------------------------------------------------
(* Upload *)

\* An image is stored as it came, then as a WebP and its presets; the first
\* object is deleted unless the file came as WebP and shares the key.
First(webp) == IF webp THEN "optimized" ELSE "original"
Upload(q) ==
    /\ ~uploaded /\ uploaded' = TRUE
    /\ \E image \in BOOLEAN : \E webp \in BOOLEAN :
         /\ webp => image
         /\ object' = {First(webp)}
         /\ Begin(q, [op |-> "upload", pc |-> IF image THEN "optimize" ELSE "insert",
                      url |-> First(webp), variants |-> FALSE])
    /\ UNCHANGED <<s3, row, document, moving, broken, cut>>
StoreOptimized(q) ==
    /\ object' = object \cup {"optimized"} /\ Go(q, "preset")
    /\ UNCHANGED <<s3, row, document, moving, uploaded, broken, cut>>
StorePresets(q) ==
    /\ object' = object \cup {"preset"} /\ Go(q, "drop")
    /\ UNCHANGED <<s3, row, document, moving, uploaded, broken, cut>>
\* The row that is to come still names an original that stays on disk.
DropOriginal(q) ==
    /\ \/ object' = object \ ({call[q].url} \ {"optimized"})
       \/ ~s3 /\ object' = object
    /\ call' = [call EXCEPT ![q] = [op |-> "upload", pc |-> "insert",
                                    url |-> "optimized", variants |-> TRUE]]
    /\ UNCHANGED <<s3, row, document, moving, uploaded, broken, cut>>
\* Optimization failures are logged and the upload goes on without variants,
\* or with them when only the deletion of the first object failed.
OptimizeFails(q) ==
    /\ call[q].op = "upload" /\ call[q].pc \in {"optimize", "preset", "drop"}
    /\ call' = [call EXCEPT ![q] = [@ EXCEPT !.pc = "insert",
                                             !.variants = call[q].pc = "drop"]]
    /\ broken' = (broken \/ call[q].pc = "preset")
    /\ UNCHANGED <<s3, object, row, document, moving, uploaded, cut>>
InsertRow(q) ==
    /\ row' = [url |-> call[q].url, variants |-> call[q].variants,
               visibility |-> "tenant"]
    /\ End(q)
    /\ UNCHANGED <<s3, object, document, moving, uploaded, broken, cut>>

-----------------------------------------------------------------------------
(* Deletion and edits *)

ReadForDelete(q) ==
    /\ Exists
    /\ row.url = "private" => \A s \in Submissions : document[s] # "private"
    /\ Begin(q, [op |-> "delete", pc |-> "object", url |-> row.url,
                 variants |-> row.variants])
    /\ UNCHANGED mediaVars
DeleteObject(q) ==
    /\ Delete({call[q].url})
    /\ Go(q, IF call[q].variants THEN "variants" ELSE "row")
    /\ UNCHANGED <<s3, row, document, moving, uploaded, cut>>
DeleteVariants(q) ==
    /\ Delete(Public) /\ Go(q, "row")
    /\ UNCHANGED <<s3, row, document, moving, uploaded, cut>>
DeleteRow(q) ==
    /\ row' = NoRow /\ End(q)
    /\ UNCHANGED <<s3, object, document, moving, uploaded, broken, cut>>

\* update: a file moved to private storage refuses another visibility.
ReadForUpdate(q) ==
    /\ Exists
    /\ \E v \in {"public", "private"} :
         /\ row.url = "private" => v = "private"
         /\ Begin(q, [op |-> "update", pc |-> "write", visibility |-> v])
    /\ UNCHANGED mediaVars
UpdateVisibility(q) ==
    /\ row' = IF Exists THEN [row EXCEPT !.visibility = call[q].visibility]
              ELSE row
    /\ End(q)
    /\ UNCHANGED <<s3, object, document, moving, uploaded, broken, cut>>

-----------------------------------------------------------------------------
(* Compliance documents *)

Want(q, op, s) ==
    Begin(q, [op |-> op, id |-> s, url |-> row.url, variants |-> row.variants,
              pc |-> IF row.url = "private" THEN "record" ELSE "move"])

\* submitKyc privatizes the documents it was sent, then stores the submission.
SubmitDocument(q, s) ==
    /\ Exists /\ document[s] = "none"
    /\ Want(q, "submit", s) /\ UNCHANGED mediaVars
\* Opening a submission does the same for what it still names publicly.
OpenDocument(q, s) ==
    /\ Exists /\ document[s] = row.url
    /\ Want(q, "open", s) /\ UNCHANGED mediaVars

Moves(op) == op \in {"submit", "open"}
\* A move under way is shared, its outcome included.
StartMove(q) ==
    /\ IF moving THEN Go(q, "wait") /\ UNCHANGED moving
       ELSE moving' = TRUE /\ Go(q, "copy")
    /\ UNCHANGED <<s3, object, row, document, uploaded, broken, cut>>
MoveEnds(q, well) ==
    /\ moving' = FALSE
    /\ call' = [r \in Requests |->
                  IF r = q \/ (Moves(call[r].op) /\ call[r].pc = "wait")
                  THEN IF well THEN [call[r] EXCEPT !.pc = "record"] ELSE Idle
                  ELSE call[r]]

\* On disk the move is one rename; in a bucket a copy and a delete.  Either
\* fails when the object is gone.
CopyObject(q) ==
    LET url == call[q].url IN
    /\ IF url \notin object
       THEN MoveEnds(q, FALSE) /\ UNCHANGED object
       ELSE /\ object' = (object \cup {"private"}) \ (IF s3 THEN {} ELSE {url})
            /\ Go(q, IF s3 THEN "unlink" ELSE "variants") /\ UNCHANGED moving
    /\ UNCHANGED <<s3, row, document, uploaded, broken, cut>>
UnlinkObject(q) ==
    /\ object' = object \ {call[q].url} /\ Go(q, "variants")
    /\ UNCHANGED <<s3, row, document, moving, uploaded, broken, cut>>
\* The variants are deleted, but not one that has the file's own address.
Variants(c) == IF c.variants THEN Public \ {c.url} ELSE {}
MoveVariants(q) ==
    /\ Delete(Variants(call[q])) /\ Go(q, "row")
    /\ UNCHANGED <<s3, row, document, moving, uploaded, cut>>
MoveRow(q) ==
    /\ IF Exists
       THEN /\ row' = [url |-> "private", variants |-> FALSE,
                       visibility |-> "private"]
            /\ Go(q, "prior") /\ UNCHANGED moving
       ELSE MoveEnds(q, FALSE) /\ UNCHANGED row
    /\ UNCHANGED <<s3, object, document, uploaded, broken, cut>>
MoveOnly(q) ==
    /\ MoveEnds(q, TRUE)
    /\ UNCHANGED <<s3, object, row, document, uploaded, broken, cut>>
\* Submissions that named the public address name the private one.
Rename(which, url) ==
    document' = [s \in Submissions |->
                    IF s \in which /\ document[s] = url THEN "private" ELSE document[s]]
MovePrior(q) ==
    /\ Rename(Submissions, call[q].url)
    /\ MoveEnds(q, TRUE)
    /\ UNCHANGED <<s3, object, row, uploaded, broken, cut>>
RecordDocument(q) ==
    /\ document' = [document EXCEPT ![call[q].id] = "private"]
    /\ End(q)
    /\ UNCHANGED <<s3, object, row, moving, uploaded, broken, cut>>

\* A storage call or a statement of a request fails, and the request with it:
\* of the objects the step deletes in a bucket, and of the submissions it
\* updates, some may be done.  A move that fails fails for those that share it.
Deletes(c) ==
    CASE c.pc = "object" -> {c.url}
      [] c.pc = "variants" -> IF c.op = "delete" THEN Public ELSE Variants(c)
      [] OTHER -> {}
StepFails(q) ==
    /\ call[q].op \in {"upload", "delete", "update", "submit", "open"}
    /\ call[q].pc \notin {"optimize", "preset", "drop", "move", "wait"}
    /\ cut' = TRUE
    /\ \E gone \in SUBSET Deletes(call[q]) :
          (~s3 => gone = {}) /\ object' = object \ gone
    /\ IF call[q].pc = "prior"
       THEN \E which \in SUBSET Submissions : Rename(which, call[q].url)
       ELSE UNCHANGED document
    /\ IF Moves(call[q].op) /\ call[q].pc # "record" THEN MoveEnds(q, FALSE)
       ELSE End(q) /\ UNCHANGED moving
    /\ UNCHANGED <<s3, row, uploaded, broken>>

\* The process dies; another one answers from now on.
Crash ==
    /\ cut' = TRUE
    /\ call' = [q \in Requests |-> Idle] /\ moving' = FALSE
    /\ UNCHANGED <<s3, object, row, document, uploaded, broken>>

-----------------------------------------------------------------------------
\* The file is still to come, or it came before private storage did, and
\* submissions of that time name its public address.
Init ==
    /\ s3 \in BOOLEAN /\ solo \in BOOLEAN
    /\ uploaded \in BOOLEAN
    /\ object = IF uploaded THEN {"optimized", "preset"} ELSE {}
    /\ row = IF uploaded THEN [url |-> "optimized", variants |-> TRUE,
                               visibility |-> "tenant"] ELSE NoRow
    /\ \E old \in SUBSET Submissions :
          /\ old # {} => uploaded
          /\ document = [s \in Submissions |->
                           IF s \in old THEN "optimized" ELSE "none"]
    /\ moving = FALSE
    /\ broken = FALSE /\ cut = FALSE
    /\ call = [q \in Requests |-> Idle]

MediaNext ==
    /\ \/ \E q \in Requests : Upload(q)
       \/ \E q \in Requests : At(q, "upload", "optimize") /\ StoreOptimized(q)
       \/ \E q \in Requests : At(q, "upload", "preset") /\ StorePresets(q)
       \/ \E q \in Requests : At(q, "upload", "drop") /\ DropOriginal(q)
       \/ \E q \in Requests : OptimizeFails(q)
       \/ \E q \in Requests : At(q, "upload", "insert") /\ InsertRow(q)
       \/ \E q \in Requests : ReadForDelete(q)
       \/ \E q \in Requests : At(q, "delete", "object") /\ DeleteObject(q)
       \/ \E q \in Requests : At(q, "delete", "variants") /\ DeleteVariants(q)
       \/ \E q \in Requests : At(q, "delete", "row") /\ DeleteRow(q)
       \/ \E q \in Requests : ReadForUpdate(q)
       \/ \E q \in Requests : At(q, "update", "write") /\ UpdateVisibility(q)
       \/ \E q \in Requests : \E s \in Submissions : SubmitDocument(q, s)
       \/ \E q \in Requests : \E s \in Submissions : OpenDocument(q, s)
       \/ \E q \in Requests : Moves(call[q].op) /\
             \/ call[q].pc = "move" /\ StartMove(q)
             \/ call[q].pc = "copy" /\ CopyObject(q)
             \/ call[q].pc = "unlink" /\ UnlinkObject(q)
             \/ call[q].pc = "variants" /\ MoveVariants(q)
             \/ call[q].pc = "row" /\ MoveRow(q)
             \/ call[q].pc = "prior" /\ MovePrior(q)
             \/ call[q].pc = "record" /\ RecordDocument(q)
       \/ \E q \in Requests : StepFails(q)
       \/ Crash
    /\ UNCHANGED solo
Spec == Init /\ [][MediaNext]_<<mediaVars, solo, call>>

-----------------------------------------------------------------------------
TypeOK ==
    /\ object \subseteq Public \cup {"private"}
    /\ row.url \in {"none", "private"} \cup Public
    /\ row.visibility \in {"none", "tenant", "public", "private"}
    /\ document \in [Submissions -> {"none", "private", "optimized"}]
    /\ \A q \in Requests :
          call[q].op \in {"idle", "upload", "delete", "update", "submit", "open"}

\* A document a submission names privately has no public copy left, neither
\* the file nor a resized one, whatever requests overlap, whichever step fails
\* and wherever the process dies; unless copies were left behind when an
\* optimization failed or the disk refused to delete them.
NoPublicCopy ==
    (~broken /\ \E s \in Submissions : document[s] = "private") =>
        object \cap Public = {}

\* While requests do not overlap, a document named privately keeps its row and
\* its label, whatever fails.  When nothing was cut short either, every
\* submission names the address its file has now, unless the file was deleted
\* before any of them took it private, and the row names an object that is
\* there: a step that fails after the object has gone leaves neither.
DocumentsKept ==
    /\ solo => /\ \A s \in Submissions : document[s] = "private" => row.url = "private"
               /\ row.url = "private" => row.visibility = "private"
    /\ (solo /\ ~cut /\ \A q \in Requests : call[q] = Idle) =>
          /\ \A s \in Submissions :
                document[s] \in {"none", row.url} \/ (~Exists /\ document[s] # "private")
          /\ Exists => row.url \in object
=============================================================================
