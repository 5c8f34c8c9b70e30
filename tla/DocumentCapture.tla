--------------------------- MODULE DocumentCapture ---------------------------
(***************************************************************************)
(* Photos and files of tax documents: SecureDocumentCaptureBridge on       *)
(* Android, with its one slot for a capture and its executor of one thread;*)
(* the record of each captured document in captured-tax-documents-v1.json; *)
(* the screen of a year's documents and the review of one of them.         *)
(*                                                                         *)
(* A step runs from one await to the next.  The record file is modelled    *)
(* operation by operation, because here even a load deletes the staging    *)
(* file.  The evidence file is written in whole calls, and two writers of  *)
(* the record file do not tear it: both are the subject of StagedFile.     *)
(* The raw file and the preview of a document are written and deleted      *)
(* together and count as one; recognised fields are its evidence types.    *)
(***************************************************************************)
EXTENDS Naturals, FiniteSets, Sequences

CONSTANTS
    Docs,       \* ids of captured documents, random in the code; see Fresh
    Types,      \* the types of evidence a document may prove
    Faults,     \* what may throw: "gateway", "record"
    Patient,    \* the user waits for the calls on the record file
    MaxJobs,    \* bound: jobs of the executor when the documents are opened again
    Manual,     \* an amount that was typed in
    None, Absent

ASSUME CaptureAssumption ==
    /\ IsFiniteSet(Docs) /\ IsFiniteSet(Types)
    /\ Faults \subseteq {"gateway", "record"}
    /\ Patient \in BOOLEAN
    /\ MaxJobs \in Nat \ {0}
    /\ Manual \notin Docs \cup {None} /\ None \notin Docs
    /\ \A s \in SUBSET Docs : s # Absent /\ s # None

Callers == {"purge", "screen", "capture", "review"}
RecordSets == SUBSET Docs

\* The slot of the bridge, a call on the record file, _capture, and _confirm or _delete.
Slot == [doc : Docs, at : {"outside", "executor"}]
CallType ==
    [op : {"purge", "load", "save", "remove"}, doc : Docs \cup {None},
     at : {"find", "drop", "exists", "read", "find-again", "drop-again", "stage",
           "unlink", "rename"},
     values : RecordSets]
CaptureType == [doc : Docs, mounted : BOOLEAN, at : {"native", "save"}]
Sources == Docs \cup {Manual, None}
ReviewType ==
    [what : {"confirm", "delete"}, doc : Docs, chosen : Seq(Types), mounted : BOOLEAN,
     at : {"save", "files", "record", "undo", "restore"}, before : [Types -> Sources],
     todo : Seq([type : Types, value : Sources])]

ASSUME NoneAssumption ==
    None \notin Slot /\ None \notin CallType /\ None \notin CaptureType /\ None \notin ReviewType

VARIABLES
    screen,     \* "closed" (no activity), "home", "opening" (_loading), "evidence", "review"
    listed,     \* _pending of the evidence screen
    reviewed,   \* the document of the review screen
    pending,    \* the slot of the bridge, and where its capture is
    jobs,       \* the queue of the executor; its head runs
    camera,     \* documents with a photo in the cache
    secure,     \* documents with an encrypted file
    old,        \* documents older than a day
    records,    \* the record file
    staged,     \* its .tmp
    io,         \* the calls on it in flight
    evidence,   \* what the amount of each type was confirmed from
    capture,    \* the handler _capture
    review      \* the handlers _confirm and _delete of the review screen

ui == <<screen, listed, reviewed>>
native == <<pending, jobs, camera, secure, old>>
file == <<records, staged>>
handlers == <<capture, review>>
vars == <<ui, native, file, io, evidence, handlers>>

Recorded == IF records = Absent THEN {} ELSE records

Init ==
    /\ screen = "closed" /\ listed = {} /\ reviewed = None
    /\ pending = None /\ jobs = <<>>
    /\ camera = {} /\ secure = {} /\ old = {}
    /\ records = Absent /\ staged = None
    /\ io = [c \in Callers |-> None]
    /\ evidence = [t \in Types |-> None]
    /\ capture = None /\ review = None
-----------------------------------------------------------------------------
(* The record file.                                                        *)

Call(op, doc) == [op |-> op, doc |-> doc, at |-> "find", values |-> {}]

\* A reload of the list takes the place of one that has not ended.
Reload == [io EXCEPT !.screen = Call("load", None)]
NoCalls == \A c \in Callers : io[c] = None

Goes(c, place) == io' = [io EXCEPT ![c].at = place]

\* What is read and what becomes of it: save and remove of one document, and
\* purgeExpired with what was old when the application started.
Edited(call, values) ==
    IF call.op = "save" THEN values \cup {call.doc}
    ELSE values \ (IF call.op = "remove" THEN {call.doc} ELSE old)

\* Mutant: the rollback only removes what was saved.
UndoRemovesOnly(r) ==
    [r EXCEPT !.at = "undo",
              !.todo = [i \in 1 .. Len(r.chosen) |->
                           [type |-> r.chosen[i], value |-> None]]]

\* The rollback of a confirmation: each type is removed, and saved as it was.
Undo(r) ==
    [r EXCEPT !.at = "undo",
              !.todo = [i \in 1 .. Len(r.chosen) |->
                           [type |-> r.chosen[i], value |-> r.before[r.chosen[i]]]]]

\* A call has ended, well or with an exception, and its handler goes on: _load lists
\* what it read; _capture shows the review of what it saved; a review that has
\* removed its record closes, one that could not undoes its confirmation.
Ends(c, ok, values) ==
    LET done == [io EXCEPT ![c] = None]
        reloaded == [done EXCEPT !.screen = Call("load", None)]
    IN \/ /\ c = "purge"
          /\ io' = done
          /\ UNCHANGED <<ui, handlers>>
       \/ /\ c = "screen"
          /\ io' = done
          /\ listed' = IF ok /\ screen # "home" THEN values ELSE listed
          /\ screen' = IF screen = "opening" THEN "evidence" ELSE screen
          /\ UNCHANGED <<reviewed, handlers>>
       \/ /\ c = "capture"
          /\ capture' = None
          /\ IF ok /\ capture.mounted
             THEN screen' = "review" /\ reviewed' = capture.doc /\ io' = done
             ELSE /\ io' = IF capture.mounted THEN reloaded ELSE done
                  /\ UNCHANGED <<screen, reviewed>>
          /\ UNCHANGED <<listed, review>>
       \/ /\ c = "review"
          /\ review' = IF ~ok /\ review.what = "confirm" THEN Undo(review) ELSE None
          /\ IF ok /\ review.mounted
             THEN screen' = "evidence" /\ reviewed' = None /\ io' = reloaded
             ELSE io' = done /\ UNCHANGED <<screen, reviewed>>
          /\ UNCHANGED <<listed, capture>>

Fails(c) == Ends(c, FALSE, {})

\* _file: a staging file that is found is deleted, whoever is writing it.
Find(c) ==
    /\ io[c] # None /\ io[c].at \in {"find", "find-again"}
    /\ Goes(c, IF io[c].at = "find"
               THEN IF staged # None THEN "drop" ELSE "exists"
               ELSE IF staged # None THEN "drop-again" ELSE "stage")
    /\ UNCHANGED <<ui, native, file, evidence, handlers>>

Drop(c) ==
    /\ io[c] # None /\ io[c].at \in {"drop", "drop-again"}
    /\ IF staged = None
       THEN Fails(c)
       ELSE /\ Goes(c, IF io[c].at = "drop" THEN "exists" ELSE "stage")
            /\ UNCHANGED <<ui, handlers>>
    /\ staged' = None
    /\ UNCHANGED <<native, records, evidence>>

\* load, and what follows it in the call.
Read(c) ==
    LET got(values) ==
            IF io[c].op = "load" THEN Ends(c, TRUE, values)
            ELSE /\ io' = [io EXCEPT ![c].at = "find-again",
                                     ![c].values = Edited(io[c], values)]
                 /\ UNCHANGED <<ui, handlers>>
    IN  /\ io[c] # None /\ io[c].at \in {"exists", "read"}
        /\ IF io[c].at = "exists"
           THEN IF records = Absent THEN got({})
                ELSE Goes(c, "read") /\ UNCHANGED <<ui, handlers>>
           ELSE IF records = Absent THEN Fails(c) ELSE got(records)
        /\ UNCHANGED <<native, file, evidence>>

Stage(c) ==
    /\ io[c] # None /\ io[c].at = "stage"
    /\ \/ /\ staged' = io[c].values
          /\ Goes(c, "unlink")
          /\ UNCHANGED <<ui, handlers>>
       \/ /\ "record" \in Faults
          /\ staged' = None                     \* finally
          /\ Fails(c)
    /\ UNCHANGED <<native, records, evidence>>

Unlink(c) ==
    /\ io[c] # None /\ io[c].at = "unlink"
    /\ records' = Absent
    /\ Goes(c, "rename")
    /\ UNCHANGED <<ui, native, staged, evidence, handlers>>

Rename(c) ==
    /\ io[c] # None /\ io[c].at = "rename"
    /\ IF staged = None
       THEN Fails(c) /\ UNCHANGED records
       ELSE records' = staged /\ Ends(c, TRUE, {})
    /\ staged' = None
    /\ UNCHANGED <<native, evidence>>

FileStep(c) == Find(c) \/ Drop(c) \/ Read(c) \/ Stage(c) \/ Unlink(c) \/ Rename(c)
-----------------------------------------------------------------------------
(* Starting and ending.                                                    *)

\* attach runs cleanupExpired, the application starts purgeExpired.
Start ==
    /\ screen = "closed"
    /\ screen' = "home"
    /\ camera' = camera \ old
    /\ secure' = secure \ old
    /\ io' = [io EXCEPT !.purge = Call("purge", None)]
    /\ UNCHANGED <<listed, reviewed, pending, jobs, old, file, evidence, handlers>>

\* The process is killed; or the activity is destroyed, and detach deletes the photo
\* of a pending capture and interrupts the executor, which may fail its job.
Closed ==
    /\ screen # "closed"
    /\ screen' = "closed"
    /\ listed' = {} /\ reviewed' = None
    /\ pending' = None /\ jobs' = <<>>
    /\ io' = [c \in Callers |-> None]
    /\ capture' = None /\ review' = None
    /\ LET taken == IF pending = None THEN {} ELSE {pending.doc}
       IN  \/ UNCHANGED <<camera, secure>>
           \/ camera' = camera \ taken /\ secure' \in {secure, secure \ taken}
    /\ UNCHANGED <<old, file, evidence>>

\* A day passes; a capture and the purge at the start take less.
Day ==
    /\ pending = None /\ capture = None /\ io["purge"] = None
    /\ old' = camera \cup secure \cup Recorded
    /\ UNCHANGED <<ui, pending, jobs, camera, secure, file, io, evidence, handlers>>
-----------------------------------------------------------------------------
(* The screen of the documents and the capture of one.                     *)

\* The camera or the picker covers the application.
UserActs == pending # None => pending.at = "executor"

\* A patient user lets the record file rest before anything that reads it again.
Undisturbed == Patient => NoCalls

Enqueue(what, doc) == jobs' = Append(jobs, [what |-> what, doc |-> doc])

\* The purge of the start is over before anyone gets here.
OpenEvidence ==
    /\ screen = "home" /\ Undisturbed
    /\ io["purge"] = None
    /\ Len(jobs) < MaxJobs
    /\ screen' = "opening"
    /\ io' = Reload
    /\ Enqueue("cleanup", None)
    /\ UNCHANGED <<listed, reviewed, pending, camera, secure, old, file, evidence, handlers>>

LeaveEvidence ==
    /\ screen \in {"opening", "evidence"} /\ UserActs /\ Undisturbed
    /\ screen' = "home"
    /\ listed' = {}
    /\ capture' = IF capture = None THEN None ELSE [capture EXCEPT !.mounted = FALSE]
    /\ UNCHANGED <<reviewed, native, file, io, evidence, review>>

\* An amount is typed in or removed, and the list reloaded.
SetByHand(t, v) ==
    /\ screen = "evidence" /\ UserActs /\ Undisturbed
    /\ Patient /\ capture # None => ~capture.mounted
    /\ evidence' = [evidence EXCEPT ![t] = v]
    /\ io' = Reload
    /\ UNCHANGED <<ui, native, file, handlers>>

\* An id that nothing goes by.
Fresh(d) ==
    /\ d \notin camera \cup secure \cup Recorded \cup listed
    /\ staged # None => d \notin staged
    /\ \A t \in Types : evidence[t] # d
    /\ review # None => review.doc # d

\* takePhoto and chooseFile: reserve refuses a second capture, which only shows an
\* error; so does a camera that cannot be launched, whose photo file is deleted.
Take(d, photo) ==
    /\ screen = "evidence" /\ Undisturbed
    /\ capture = None /\ pending = None
    /\ Fresh(d)
    /\ pending' = [doc |-> d, at |-> "outside"]
    /\ camera' = IF photo THEN camera \cup {d} ELSE camera
    /\ old' = old \ {d}
    /\ capture' = [doc |-> d, mounted |-> TRUE, at |-> "native"]
    /\ UNCHANGED <<ui, jobs, secure, file, io, evidence, review>>

\* Mutant: the slot is not freed.
AnsweredOnly(doc, ok) ==
    /\ UNCHANGED pending
    /\ camera' = camera \ {doc}
    /\ IF ok /\ capture.mounted
       THEN /\ capture' = [capture EXCEPT !.at = "save"]
            /\ io' = [io EXCEPT !.capture = Call("save", doc)]
       ELSE /\ capture' = None
            /\ io' = IF capture.mounted THEN Reload ELSE io

\* The bridge frees its slot, deletes the photo and answers _capture, which saves the
\* record of a document or, without one, reloads the list; unless it was left.
Answered(doc, ok) ==
    /\ pending' = None
    /\ camera' = camera \ {doc}
    /\ IF ok /\ capture.mounted
       THEN /\ capture' = [capture EXCEPT !.at = "save"]
            /\ io' = [io EXCEPT !.capture = Call("save", doc)]
       ELSE /\ capture' = None
            /\ io' = IF capture.mounted THEN Reload ELSE io

Cancelled ==
    /\ pending # None /\ pending.at = "outside"
    /\ Answered(pending.doc, FALSE)
    /\ UNCHANGED <<ui, jobs, secure, old, file, evidence, review>>

Chosen ==
    /\ pending # None /\ pending.at = "outside"
    /\ pending' = [pending EXCEPT !.at = "executor"]
    /\ Enqueue("process", pending.doc)
    /\ UNCHANGED <<ui, camera, secure, old, file, io, evidence, handlers>>
-----------------------------------------------------------------------------
(* The executor.                                                           *)

Job(what) == jobs # <<>> /\ Head(jobs).what = what

Stored ==
    /\ Job("process")
    /\ Head(jobs).doc \notin secure
    /\ secure' = secure \cup {Head(jobs).doc}
    /\ UNCHANGED <<ui, pending, jobs, camera, old, file, io, evidence, handlers>>

\* The text is recognised, or anything fails and the files are deleted.
Processed(ok) ==
    /\ Job("process")
    /\ ok => Head(jobs).doc \in secure
    /\ jobs' = Tail(jobs)
    /\ secure' = IF ok THEN secure ELSE secure \ {Head(jobs).doc}
    /\ Answered(Head(jobs).doc, ok)
    /\ UNCHANGED <<ui, old, file, evidence, review>>

\* delete and confirm, which are the same; the review goes on to the record.
Deleted ==
    /\ Job("delete")
    /\ jobs' = Tail(jobs)
    /\ secure' = secure \ {Head(jobs).doc}
    /\ review' = [review EXCEPT !.at = "record"]
    /\ io' = [io EXCEPT !.review = Call("remove", review.doc)]
    /\ UNCHANGED <<ui, pending, camera, old, file, evidence, capture>>

CleanedUp ==
    /\ Job("cleanup")
    /\ jobs' = Tail(jobs)
    /\ camera' = camera \ old
    /\ secure' = secure \ old
    /\ UNCHANGED <<ui, pending, old, file, io, evidence, handlers>>
-----------------------------------------------------------------------------
(* The review of a document.                                               *)

\* Mutant: the review is opened without its document.
OpenReviewBlank(d) ==
    /\ screen = "evidence" /\ UserActs /\ Undisturbed
    /\ d \in listed
    /\ screen' = "review"
    /\ UNCHANGED <<listed, reviewed, native, file, io, evidence, handlers>>

OpenReview(d) ==
    /\ screen = "evidence" /\ UserActs /\ Undisturbed
    /\ capture # None => ~capture.mounted
    /\ d \in listed
    /\ screen' = "review" /\ reviewed' = d
    /\ UNCHANGED <<listed, native, file, io, evidence, handlers>>

\* Mutant: the list is not reloaded.
LeaveReviewOnly ==
    /\ screen = "review" /\ Undisturbed
    /\ Patient => review = None
    /\ screen' = "evidence" /\ reviewed' = None
    /\ review' = IF review = None THEN None ELSE [review EXCEPT !.mounted = FALSE]
    /\ UNCHANGED <<listed, native, file, io, evidence, capture>>

\* Back, which _confirm does not prevent; the list is reloaded.
LeaveReview ==
    /\ screen = "review" /\ Undisturbed
    /\ Patient => review = None
    /\ screen' = "evidence" /\ reviewed' = None
    /\ review' = IF review = None THEN None ELSE [review EXCEPT !.mounted = FALSE]
    /\ io' = Reload
    /\ UNCHANGED <<listed, native, file, evidence, capture>>

\* The types selected, in the order they are saved; at least one.
Selections ==
    {s \in UNION {[1 .. n -> Types] : n \in 1 .. Cardinality(Types)} :
        \A i, j \in DOMAIN s : s[i] = s[j] => i = j}

\* _confirm loads the evidence before it saves its own...
Confirm(selection) ==
    /\ screen = "review" /\ review = None
    /\ review' = [what |-> "confirm", doc |-> reviewed, chosen |-> selection, at |-> "save",
                  before |-> evidence, mounted |-> TRUE,
                  todo |-> [i \in DOMAIN selection |->
                               [type |-> selection[i], value |-> reviewed]]]
    /\ UNCHANGED <<ui, native, file, io, evidence, capture>>

\* ... one by one, as it restores it ...
EvidenceWritten ==
    /\ review # None /\ review.at \in {"save", "restore"} /\ review.todo # <<>>
    /\ evidence' = [evidence EXCEPT ![Head(review.todo).type] = Head(review.todo).value]
    /\ review' = [review EXCEPT !.at = IF @ = "restore" THEN "undo" ELSE @,
                                !.todo = Tail(@)]
    /\ UNCHANGED <<ui, native, file, io, capture>>

\* ... after it has removed what it confirmed.
EvidenceRemoved ==
    /\ review # None /\ review.at = "undo" /\ review.todo # <<>>
    /\ evidence' = [evidence EXCEPT ![Head(review.todo).type] = None]
    /\ review' = IF Head(review.todo).value # None THEN [review EXCEPT !.at = "restore"]
                 ELSE [review EXCEPT !.todo = Tail(@)]
    /\ UNCHANGED <<ui, native, file, io, capture>>

\* The dialog of _delete is confirmed.
Delete ==
    /\ screen = "review" /\ review = None
    /\ review' = [what |-> "delete", doc |-> reviewed, chosen |-> <<>>, at |-> "save",
                  before |-> evidence, mounted |-> TRUE, todo |-> <<>>]
    /\ UNCHANGED <<ui, native, file, io, evidence, capture>>

\* Both ask the bridge to delete the files.
AskDeletion ==
    /\ review # None /\ review.at = "save" /\ review.todo = <<>>
    /\ \/ /\ Enqueue("delete", review.doc)
          /\ review' = [review EXCEPT !.at = "files"]
       \/ /\ "gateway" \in Faults
          /\ review' = IF review.what = "confirm" THEN Undo(review) ELSE None
          /\ UNCHANGED jobs
    /\ UNCHANGED <<ui, pending, camera, secure, old, file, io, evidence, capture>>

Undone ==
    /\ review # None /\ review.at = "undo" /\ review.todo = <<>>
    /\ review' = None
    /\ UNCHANGED <<ui, native, file, io, evidence, capture>>

Executor == Stored \/ (\E ok \in BOOLEAN : Processed(ok)) \/ Deleted \/ CleanedUp

Next ==
    \/ Start \/ Closed \/ Day
    \/ (\E c \in Callers : FileStep(c))
    \/ OpenEvidence \/ LeaveEvidence \/ LeaveReview
    \/ (\E t \in Types, v \in {Manual, None} : SetByHand(t, v))
    \/ (\E d \in Docs, photo \in BOOLEAN : Take(d, photo))
    \/ Cancelled \/ Chosen \/ Executor
    \/ (\E d \in Docs : OpenReview(d))
    \/ (\E s \in Selections : Confirm(s)) \/ Delete
    \/ EvidenceWritten \/ EvidenceRemoved \/ AskDeletion \/ Undone

Spec == Init /\ [][Next]_vars
-----------------------------------------------------------------------------
(* Properties.                                                             *)

TypeOK ==
    /\ screen \in {"closed", "home", "opening", "evidence", "review"}
    /\ listed \in RecordSets
    /\ reviewed \in Docs \cup {None}
    /\ screen = "review" <=> reviewed # None
    /\ pending \in Slot \cup {None}
    /\ jobs \in Seq([what : {"process", "delete", "cleanup"}, doc : Docs \cup {None}])
    /\ camera \in RecordSets /\ secure \in RecordSets /\ old \in RecordSets
    /\ records = Absent \/ records \in RecordSets
    /\ staged = None \/ staged \in RecordSets
    /\ io \in [Callers -> CallType \cup {None}]
    /\ evidence \in [Types -> Sources]
    /\ capture \in CaptureType \cup {None}
    /\ review = None \/ review \in ReviewType

\* The slot of the bridge is taken while exactly one _capture waits for its answer,
\* mounted or not, and its capture is either outside or in the executor: no capture
\* is answered twice or never, and none blocks the slot for good.
SlotIsAwaited ==
    LET processed == {i \in DOMAIN jobs : jobs[i].what = "process"}
    IN  IF pending = None
        THEN processed = {} /\ (capture # None => capture.at = "save")
        ELSE /\ capture # None /\ capture.at = "native" /\ capture.doc = pending.doc
             /\ Cardinality(processed) = (IF pending.at = "executor" THEN 1 ELSE 0)
             /\ \A i \in processed : jobs[i].doc = pending.doc

\* "Confirmation deletes raw/preview; failure restores prior evidence and fails
\* closed": a _confirm whose screen is still there ends with all that was selected, no
\* files and no record, or with the evidence there was.
AllOrNothing ==
    [][review # None /\ review.what = "confirm" /\ review.mounted
         /\ review' = None /\ screen' # "closed" =>
           \/ /\ \A i \in DOMAIN review.chosen : evidence'[review.chosen[i]] = review.doc
              /\ review.doc \notin secure' \cup Recorded'
           \/ evidence' = review.before]_vars

\* A list that nothing is about to change shows the documents on record.
ListIsCurrent ==
    screen = "evidence" /\ capture = None /\ review = None /\ NoCalls => listed = Recorded
=============================================================================
