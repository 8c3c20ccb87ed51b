----------------------------- MODULE Resources -----------------------------
(***************************************************************************)
(* One uploaded document from the upload to its publication:               *)
(* app/application/resources.py, app/api/routes/resources.py and the       *)
(* PARSE_RESOURCE job of app/workers/tasks.py.  The document is given by   *)
(* its content, whose hash is unique; two contents share no row, so the    *)
(* module follows one content and every request that uploads it.           *)
(*                                                                         *)
(* A transaction that another one cannot see into is one step.  The steps  *)
(* between which the program may die, or another request may act, are:     *)
(* the check for a duplicate, the file on disk, the commit of the rows,    *)
(* the commit of the job; the start of the job (its delivery may be lost), *)
(* the load of the rows, the commit inside parse_run, the commit of the    *)
(* job's result.                                                           *)
(***************************************************************************)
EXTENDS JobLife, FiniteSets, Sequences

CONSTANTS Uploads,      \* upload requests for this content
          Contents,     \* possible contents: [kind, body]
          MaxVersion    \* bound on a section's version counter

ASSUME ResourcesAssumption ==
    /\ IsFiniteSet(Uploads)
    /\ MaxVersion \in Nat \ {0}
    /\ \A c \in Contents : /\ c.kind \in {"docx", "markdown", "pdf", "image"}
                           /\ c.body \in Seq({"H", "T", "E"})

VARIABLES content,   \* what the file holds
          nodes,     \* is there any KnowledgeNode?
          upload,    \* upload[u]: how far the upload request u has come
          disk,      \* the uploads whose file lies in the storage root
          resource,  \* LearningResource, ResourceVersion and ResourceImportRun
          sections,  \* the ResourceSection rows, with chunk and mappings
          job,       \* the PARSE_RESOURCE job
          task,      \* where the worker stands
          loaded     \* resource.status as parse_run loaded it

\* resource.file is the storage_path, resource.import the status of the import
\* run (PARSING and MAPPING are never committed).
resourcesVars == <<content, nodes, upload, disk, resource, sections, job, task, loaded>>

NoResource == [status |-> "none"]

-----------------------------------------------------------------------------
\* The parsers.  A body is a sequence of lines, paragraphs or pages: "H" a
\* heading, "T" text, "E" empty (for a PDF a page without text, which goes to
\* the vision model).  A parsed section is the set of the positions whose text
\* it holds; its sequence number, and so its section_path, is its index.

Positions(body, marks) == {i \in DOMAIN body : body[i] \in marks}

\* create_upload_bundle: one image is stored as it is, several become the pages
\* of a PDF.
Bundle(images) ==
    IF images = 1 THEN [kind |-> "image", body |-> <<"E">>]
    ELSE [kind |-> "pdf", body |-> [i \in 1 .. images |-> "E"]]

\* _parse_docx: a heading closes the section before it if that has any text.
DocxStep(body, acc, i) ==
    CASE body[i] = "E" -> acc
      [] body[i] = "T" -> [acc EXCEPT !.buffer = @ \cup {i}]
      [] OTHER -> [out |-> IF acc.buffer = {} THEN acc.out
                           ELSE Append(acc.out, acc.buffer),
                   buffer |-> {}]

\* The loop of _parse_docx: what it has after each paragraph.
DocxRead(body) ==
    LET read[n \in 0 .. Len(body)] ==
          IF n = 0 THEN [out |-> <<>>, buffer |-> {}]
          ELSE DocxStep(body, read[n - 1], n)
    IN  read

\* Variant: the text after the last heading is not flushed.
ParseDocxUnflushed(body) ==
    LET end == DocxRead(body)[Len(body)]
    IN  IF end.out = <<>> THEN <<end.buffer>> ELSE end.out

ParseDocx(body) ==
    LET end == DocxRead(body)[Len(body)]
    IN  IF end.buffer # {} \/ end.out = <<>>
        THEN Append(end.out, end.buffer) ELSE end.out

\* The loop of _parse_markdown: the headings among the lines read so far.
HeadingsRead(body) ==
    LET read[n \in 0 .. Len(body)] ==
          IF n = 0 THEN <<>>
          ELSE IF body[n] = "H" THEN Append(read[n - 1], n) ELSE read[n - 1]
    IN  read

\* _parse_markdown: a section runs from its heading to the next one.
ParseMarkdown(body) ==
    LET headings == HeadingsRead(body)[Len(body)]
        end(k) == IF k < Len(headings) THEN headings[k + 1] - 1 ELSE Len(body)
    IN  IF headings = <<>> THEN <<Positions(body, {"T"})>>
        ELSE [k \in 1 .. Len(headings) |->
                 Positions(body, {"T"}) \cap (headings[k] .. end(k))]

\* _parse_pdf
ParsePdf(body) == [i \in 1 .. Len(body) |-> {i}]

\* _parse_file
Parsed ==
    CASE content.kind = "docx" -> ParseDocx(content.body)
      [] content.kind = "markdown" -> ParseMarkdown(content.body)
      [] content.kind = "pdf" -> ParsePdf(content.body)
      [] OTHER -> <<{1}>>

\* Does the parser ask the vision model (_vision_extract)?
NeedsVision ==
    \/ content.kind = "image"
    \/ content.kind = "pdf" /\ Positions(content.body, {"E"}) # {}

\* _map_knowledge proposes at least one node when there are any.
Candidate == IF nodes THEN "candidate" ELSE "none"

-----------------------------------------------------------------------------
ResourcesInit ==
    /\ content \in Contents
    /\ nodes \in BOOLEAN
    /\ upload = [u \in Uploads |-> "idle"]
    /\ disk = {}
    /\ resource = NoResource
    /\ sections = <<>>
    /\ job = NoJob
    /\ task = "idle"
    /\ loaded = "none"

reviewVars == <<content, nodes, sections>>
workVars == <<job, task, loaded>>

\* create_upload up to the check for a duplicate; a bad type or size is refused.
CheckUpload(u) ==
    /\ upload[u] = "idle"
    /\ \E answer \in {"checked", "refused"} :
         /\ resource # NoResource => answer = "refused"
         /\ upload' = [upload EXCEPT ![u] = answer]
    /\ UNCHANGED <<reviewVars, disk, resource, workVars>>

WriteFile(u) ==
    /\ upload[u] = "checked"
    /\ disk' = disk \cup {u}
    /\ upload' = [upload EXCEPT ![u] = "written"]
    /\ UNCHANGED <<reviewVars, resource, workVars>>

\* Variant: the file is written after the commit.
CommitUploadFirst(u) ==
    /\ upload[u] = "checked" /\ resource = NoResource
    /\ resource' = [status |-> "PROCESSING", file |-> u, import |-> "QUEUED"]
    /\ upload' = [upload EXCEPT ![u] = "uploaded"]
    /\ UNCHANGED <<reviewVars, disk, workVars>>

\* The rows are committed, unless another request committed the same
\* content_hash meanwhile.
CommitUpload(u) ==
    /\ upload[u] = "written"
    /\ IF resource = NoResource
       THEN /\ resource' = [status |-> "PROCESSING", file |-> u, import |-> "QUEUED"]
            /\ upload' = [upload EXCEPT ![u] = "uploaded"]
       ELSE /\ upload' = [upload EXCEPT ![u] = "failed"]
            /\ UNCHANGED resource
    /\ UNCHANGED <<reviewVars, disk, workVars>>

\* upload_resource creates the job in a transaction of its own.
CreateJob(u) ==
    /\ upload[u] = "uploaded"
    /\ job' = NewJob
    /\ upload' = [upload EXCEPT ![u] = "accepted"]
    /\ UNCHANGED <<reviewVars, disk, resource, task, loaded>>

\* The API process dies, or the client goes away, in the middle of a request.
CrashRequest(u) ==
    /\ upload[u] \in {"checked", "written", "uploaded"}
    /\ upload' = [upload EXCEPT ![u] = "crashed"]
    /\ UNCHANGED <<reviewVars, disk, resource, workVars>>

-----------------------------------------------------------------------------
\* execute_job and _dispatch

StartParseJob ==
    /\ task = "idle" /\ CanStart(job)
    /\ job' = StartedJob(job)
    /\ task' = "dispatch"
    /\ UNCHANGED <<reviewVars, upload, disk, resource, loaded>>

\* The worker dies, or the database fails, before the job is RUNNING.
LoseDelivery ==
    /\ task = "idle" /\ CanStart(job)
    /\ job' = LostDelivery(job)
    /\ UNCHANGED <<reviewVars, upload, disk, resource, task, loaded>>

\* parse_run loads the rows, the resource without a lock.
LoadRows ==
    /\ task = "dispatch"
    /\ loaded' = resource.status
    /\ task' = "parsing"
    /\ UNCHANGED <<reviewVars, upload, disk, resource, job>>

\* The file or the vision model fails; an HTTP timeout is transient.
ParseFails ==
    /\ task = "parsing"
    /\ \E kind \in {"transient", "fatal"} :
         /\ kind = "transient" => NeedsVision
         /\ task' = kind
    /\ UNCHANGED <<reviewVars, upload, disk, resource, job, loaded>>

\* Variant: without the constraint a parse that runs again replaces the rows.
PathsUnconstrained == TRUE

\* uq_resource_section_path
PathsFree == sections = <<>>

\* The rows of a parsed document and the commit inside parse_run.  SQLAlchemy
\* writes the resource's status only if it differs from the loaded one.
StoreSections ==
    /\ task = "parsing"
    /\ IF PathsFree
       THEN /\ sections' = [i \in DOMAIN Parsed |->
                              [text |-> Parsed[i], mapping |-> Candidate, version |-> 1]]
            /\ resource' = [resource EXCEPT
                              !.import = "REVIEW_REQUIRED",
                              !.status = IF loaded = "REVIEW_REQUIRED" THEN @
                                         ELSE "REVIEW_REQUIRED"]
            /\ task' = "parsed"
       ELSE /\ task' = "fatal"        \* IntegrityError
            /\ UNCHANGED <<sections, resource>>
    /\ UNCHANGED <<content, nodes, upload, disk, job, loaded>>

FinishParseJob ==
    /\ task = "parsed"
    /\ job' = SucceededJob(job)
    /\ task' = "idle" /\ loaded' = "none"
    /\ UNCHANGED <<reviewVars, upload, disk, resource>>

HandleParseFailure ==
    /\ task \in {"transient", "fatal"}
    /\ job' = FailedJob(job, task = "transient")
    /\ task' = "idle" /\ loaded' = "none"
    /\ UNCHANGED <<reviewVars, upload, disk, resource>>

\* The worker dies, or ARQ cancels the task after job_timeout.
CrashWorker ==
    /\ task # "idle"
    /\ task' = "idle" /\ loaded' = "none"
    /\ UNCHANGED <<reviewVars, upload, disk, resource, job>>

Reconcile ==
    /\ job.status = "RUNNING" /\ task = "idle"
    /\ job' = ReconciledJob(job)
    /\ UNCHANGED <<reviewVars, upload, disk, resource, task, loaded>>

-----------------------------------------------------------------------------
\* update_section: the reviewer's knowledge nodes replace the mappings.
UpdateSection(i) ==
    /\ i \in DOMAIN sections
    /\ sections[i].version < MaxVersion
    /\ sections' = [sections EXCEPT ![i].mapping = "confirmed",
                                    ![i].version = @ + 1]
    /\ UNCHANGED <<content, nodes, upload, disk, resource, workVars>>

\* publish does not look at the status of the resource or of its import.
Publish ==
    /\ resource # NoResource
    /\ \A i \in DOMAIN sections : sections[i].mapping # "candidate"
    /\ resource' = [resource EXCEPT !.status = "PUBLISHED"]
    /\ UNCHANGED <<reviewVars, upload, disk, workVars>>

Review == Publish \/ \E i \in DOMAIN sections : UpdateSection(i)

ResourcesNext ==
    \/ \E u \in Uploads : \/ CheckUpload(u) \/ WriteFile(u) \/ CommitUpload(u)
                          \/ CreateJob(u) \/ CrashRequest(u)
    \/ StartParseJob \/ LoseDelivery \/ LoadRows \/ ParseFails \/ StoreSections
    \/ FinishParseJob \/ HandleParseFailure \/ CrashWorker \/ Reconcile
    \/ Review

ResourcesSpec == ResourcesInit /\ [][ResourcesNext]_resourcesVars

\* The dispatcher polls and a worker takes what is delivered, unless that is
\* lost; the worker goes on with a job it has (it may die at any step), and the
\* reconciliation is a periodic cron job.  Nothing makes a request or a
\* reviewer go on.
WorkerSteps ==
    StartParseJob \/ LoadRows \/ StoreSections \/ FinishParseJob \/ HandleParseFailure
FairSpec == ResourcesSpec /\ WF_resourcesVars(WorkerSteps) /\ WF_resourcesVars(Reconcile)

-----------------------------------------------------------------------------
\* A published resource has no mapping that a reviewer has not confirmed,
\* although publish does not look at the import and a parse may run, or run
\* again, while it is decided.
PublishedConfirmed ==
    resource.status = "PUBLISHED" =>
        \A i \in DOMAIN sections : sections[i].mapping # "candidate"

\* The job row never claims more than the tables hold: a job exists only for
\* a committed import whose file is on disk, and a SUCCEEDED job's import has
\* been parsed, whatever died in between.
JobTellsImport ==
    /\ resource # NoResource => resource.file \in disk
    /\ job # NoJob => resource # NoResource
    /\ job.status = "SUCCEEDED" => resource.import = "REVIEW_REQUIRED"
    /\ sections # <<>> => resource.import = "REVIEW_REQUIRED"

\* The text of a parsed document is stored once: no position in two chunks,
\* and everything a DOCX (a Markdown file from its first heading on) says is in
\* one of them.
TextStored ==
    sections # <<>> =>
        LET text == Positions(content.body, {"T"})
            headings == Positions(content.body, {"H"})
            kept == UNION {sections[i].text : i \in DOMAIN sections}
        IN  /\ \A i, j \in DOMAIN sections :
                 i # j => sections[i].text \cap sections[j].text = {}
            /\ content.kind = "docx" => kept = text
            /\ content.kind = "markdown" =>
                 kept = {i \in text : headings = {} \/ \E h \in headings : h < i}

\* A parse job comes to an end although workers die while it runs, unless a
\* delivery is lost before the job is RUNNING: nothing recovers that one.
ImportSettles == job # NoJob ~> (job.status \in EndedStatuses \/ job.lost)
=============================================================================
