------------------------ MODULE DocumentCapture_proofs ------------------------
(***************************************************************************)
(* Theorems about DocumentCapture, for any number of documents, evidence   *)
(* types and jobs and any set of faults.                                   *)
(***************************************************************************)
EXTENDS DocumentCapture, SequenceTheorems, FiniteSetTheorems, TLAPS

JobType == [what : {"process", "delete", "cleanup"}, doc : Docs \cup {None}]

\* The slot is taken while _capture waits for its native answer; the record of a
\* document is saved by a _capture that has its answer.
SlotInv ==
    /\ pending # None => capture # None /\ capture.at = "native" /\ capture.doc = pending.doc
    /\ capture # None /\ capture.at = "native" => pending # None
    /\ io["capture"] # None =>
          capture # None /\ capture.at = "save" /\ io["capture"].doc = capture.doc

\* The executor has one job for the capture that was handed to it.
QueueInv ==
    /\ \A i \in DOMAIN jobs : jobs[i].what = "process" =>
          pending # None /\ pending.at = "executor" /\ jobs[i].doc = pending.doc
    /\ pending # None /\ pending.at = "executor" =>
          \E i \in DOMAIN jobs : jobs[i].what = "process"
    /\ \A i, j \in DOMAIN jobs :
          jobs[i].what = "process" /\ jobs[j].what = "process" => i = j

\* A review waits for at most one job, and removes the record only after it.
ReviewInv ==
    /\ \A i \in DOMAIN jobs : jobs[i].what = "delete" =>
          review # None /\ review.at = "files" /\ jobs[i].doc = review.doc
    /\ \A i, j \in DOMAIN jobs :
          jobs[i].what = "delete" /\ jobs[j].what = "delete" => i = j
    /\ io["review"] # None =>
          review # None /\ review.at = "record" /\ io["review"].doc = review.doc

\* Each caller makes calls of its own kind.
OpOf == [c \in Callers |->
            IF c = "purge" THEN "purge" ELSE IF c = "screen" THEN "load"
            ELSE IF c = "capture" THEN "save" ELSE "remove"]
CallInv == \A c \in Callers : io[c] # None => io[c].op = OpOf[c]

IInv == TypeOK /\ SlotInv /\ QueueInv /\ ReviewInv /\ CallInv
-----------------------------------------------------------------------------
(* The queue, the calls and the rollback.                                  *)

\* A job is appended behind the others, which keep their places.
LEMMA Enqueued ==
    ASSUME NEW s \in Seq(JobType), NEW e \in JobType, NEW t, t = Append(s, e)
    PROVE  /\ t \in Seq(JobType) /\ Len(t) = Len(s) + 1 /\ DOMAIN t = 1 .. Len(s) + 1
           /\ DOMAIN s = 1 .. Len(s)
           /\ \A i \in DOMAIN s : t[i] = s[i]
           /\ t[Len(s) + 1] = e
  BY AppendProperties, LenProperties

\* The head leaves, and the others move up by one.
LEMMA Dequeued ==
    ASSUME NEW T, NEW s \in Seq(T), s # <<>>, NEW t, t = Tail(s)
    PROVE  /\ t \in Seq(T) /\ Len(t) = Len(s) - 1 /\ DOMAIN t = 1 .. Len(s) - 1
           /\ DOMAIN s = 1 .. Len(s) /\ Len(s) \in Nat \ {0}
           /\ Head(s) = s[1] /\ Head(s) \in T
           /\ \A i \in DOMAIN t : i + 1 \in DOMAIN s /\ t[i] = s[i + 1]
  BY HeadTailProperties, LenProperties

\* A call that starts is one.
LEMMA CallTyped ==
    ASSUME NEW op \in {"purge", "load", "save", "remove"}, NEW doc \in Docs \cup {None}
    PROVE  /\ Call(op, doc) \in CallType /\ Call(op, doc) # None
           /\ Call(op, doc).op = op /\ Call(op, doc).doc = doc
           /\ Call(op, doc).at = "find" /\ Call(op, doc).values = {}
  BY NoneAssumption DEF Call, CallType, RecordSets

\* The rollback is one of the review that was confirmed.
LEMMA UndoTyped ==
    ASSUME NEW r \in ReviewType
    PROVE  /\ Undo(r) \in ReviewType /\ Undo(r) # None
           /\ Undo(r).at = "undo" /\ Undo(r).doc = r.doc
           /\ Undo(r).what = r.what /\ Undo(r).chosen = r.chosen
           /\ Undo(r).before = r.before /\ Undo(r).mounted = r.mounted
           /\ Undo(r).todo = [i \in 1 .. Len(r.chosen) |->
                                 [type |-> r.chosen[i], value |-> r.before[r.chosen[i]]]]
<1> DEFINE todo == [i \in 1 .. Len(r.chosen) |->
                       [type |-> r.chosen[i], value |-> r.before[r.chosen[i]]]]
<1>1. r.chosen \in Seq(Types) /\ r.before \in [Types -> Sources]
  BY DEF ReviewType
<1>2. Len(r.chosen) \in Nat /\ \A i \in 1 .. Len(r.chosen) : r.chosen[i] \in Types
  BY <1>1, LenProperties, ElementOfSeq
<1>3. todo \in [1 .. Len(r.chosen) -> [type : Types, value : Sources]]
  BY <1>1, <1>2
<1>4. todo \in Seq([type : Types, value : Sources])
  BY <1>2, <1>3, SeqDef
<1>5. Undo(r) = [r EXCEPT !.at = "undo", !.todo = todo]
  BY DEF Undo
<1> HIDE DEF todo
<1>6. Undo(r) \in ReviewType
  BY <1>4, <1>5 DEF ReviewType
<1>7. QED
  BY <1>5, <1>6, NoneAssumption DEF ReviewType, todo
-----------------------------------------------------------------------------
(* Steps of a call on the record file.                                     *)

FileTyped ==
    /\ records = Absent \/ records \in RecordSets
    /\ staged = None \/ staged \in RecordSets

\* A call moves on, and only its own place changes.
LEMMA GoesKeeps ==
    ASSUME IInv, NEW c \in Callers, io[c] # None, NEW new \in CallType,
           io' = [io EXCEPT ![c] = new], new.op = io[c].op, new.doc = io[c].doc,
           UNCHANGED <<ui, native, evidence, handlers>>, FileTyped'
    PROVE  IInv'
<1> USE DEF IInv, ui, native, handlers
<1>1. TypeOK'
  BY DEF TypeOK, FileTyped
<1>2. \A d \in Callers : io'[d] # None => io[d] # None
  BY DEF TypeOK
<1>3. \A d \in Callers : io[d] # None => io'[d].op = io[d].op /\ io'[d].doc = io[d].doc
  BY DEF TypeOK
<1>4. SlotInv' /\ QueueInv' /\ ReviewInv' /\ CallInv'
  BY <1>2, <1>3 DEF SlotInv, QueueInv, ReviewInv, CallInv, Callers
<1>5. QED
  BY <1>1, <1>4

\* A call ends, and its handler goes on.
LEMMA EndsKeeps ==
    ASSUME IInv, NEW c \in Callers, io[c] # None, NEW ok \in BOOLEAN,
           NEW values \in RecordSets, Ends(c, ok, values),
           UNCHANGED <<native, evidence>>, FileTyped'
    PROVE  IInv'
<1> USE DEF IInv, native
<1> DEFINE load == Call("load", None)
<1>1. load \in CallType /\ load # None /\ load.op = "load"
  BY CallTyped
<1> HIDE DEF load
<1>2. CASE c = "purge"
  <2>1. io' = [io EXCEPT !["purge"] = None] /\ UNCHANGED <<ui, handlers>>
    BY <1>2 DEF Ends
  <2>2. TypeOK'
    BY <2>1 DEF TypeOK, FileTyped, Callers, ui, handlers
  <2>3. QED
    BY <2>1, <2>2 DEF TypeOK, SlotInv, QueueInv, ReviewInv, CallInv, Callers, ui, handlers
<1>3. CASE c = "screen"
  <2>1. /\ io' = [io EXCEPT !["screen"] = None]
        /\ listed' \in {listed, values}
        /\ screen' = IF screen = "opening" THEN "evidence" ELSE screen
        /\ UNCHANGED <<reviewed, handlers>>
    BY <1>3 DEF Ends
  <2>2. TypeOK'
    BY <2>1 DEF TypeOK, FileTyped, Callers, handlers
  <2>3. QED
    BY <2>1, <2>2 DEF TypeOK, SlotInv, QueueInv, ReviewInv, CallInv, Callers, handlers
<1>4. CASE c = "capture"
  <2>1. capture # None /\ capture.at = "save" /\ capture \in CaptureType
    BY <1>4 DEF SlotInv, TypeOK
  <2>2. /\ capture' = None
        /\ \/ screen' = "review" /\ reviewed' = capture.doc /\ io' = [io EXCEPT !["capture"] = None]
           \/ /\ io' \in {[[io EXCEPT !["capture"] = None] EXCEPT !["screen"] = load],
                         [io EXCEPT !["capture"] = None]}
              /\ UNCHANGED <<screen, reviewed>>
        /\ UNCHANGED <<listed, review>>
    BY <1>4 DEF Ends, load
  <2>3. capture.doc \in Docs /\ capture.doc # None
    BY <2>1, CaptureAssumption DEF CaptureType
  <2>4. /\ io' \in [Callers -> CallType \cup {None}]
        /\ io'["capture"] = None /\ io'["review"] = io["review"]
        /\ io'["purge"] = io["purge"] /\ io'["screen"] \in {io["screen"], load}
    BY <2>2, <1>1 DEF TypeOK, Callers
  <2>5. TypeOK'
    BY <2>2, <2>3, <2>4 DEF TypeOK, FileTyped
  <2>6. pending = None
    BY <2>1 DEF SlotInv
  <2>8. CallInv'
    BY <1>1, <2>4 DEF CallInv, Callers, OpOf
  <2>9. QED
    BY <2>2, <2>4, <2>5, <2>6, <2>8 DEF SlotInv, QueueInv, ReviewInv
<1>5. CASE c = "review"
  <2>1. review # None /\ review.at = "record" /\ review \in ReviewType
    BY <1>5 DEF ReviewInv, TypeOK
  <2>2. /\ review' \in {Undo(review), None}
        /\ \/ screen' = "evidence" /\ reviewed' = None /\ io' = [[io EXCEPT !["review"] = None] EXCEPT !["screen"] = load]
           \/ io' = [io EXCEPT !["review"] = None] /\ UNCHANGED <<screen, reviewed>>
        /\ UNCHANGED <<listed, capture>>
    BY <1>5 DEF Ends, load
  <2>3. Undo(review) \in ReviewType
    BY <2>1, UndoTyped
  <2>4. /\ io' \in [Callers -> CallType \cup {None}]
        /\ io'["review"] = None /\ io'["capture"] = io["capture"]
        /\ io'["purge"] = io["purge"] /\ io'["screen"] \in {io["screen"], load}
    BY <2>2, <1>1 DEF TypeOK, Callers
  <2>5. TypeOK'
    BY <2>2, <2>3, <2>4 DEF TypeOK, FileTyped
  <2>6. \A i \in DOMAIN jobs : jobs[i].what # "delete"
    BY <2>1 DEF ReviewInv
  <2>8. CallInv'
    BY <1>1, <2>4 DEF CallInv, Callers, OpOf
  <2>9. QED
    BY <2>2, <2>4, <2>5, <2>6, <2>8 DEF SlotInv, QueueInv, ReviewInv
<1>6. QED
  BY <1>2, <1>3, <1>4, <1>5 DEF Callers

LEMMA FileStepKeeps ==
    ASSUME IInv, NEW c \in Callers, FileStep(c)
    PROVE  IInv'
<1>1. io[c] # None
  BY DEF FileStep, Find, Drop, Read, Stage, Unlink, Rename
<1>2. io[c] \in CallType /\ io \in [Callers -> CallType \cup {None}] /\ FileTyped
  BY <1>1 DEF IInv, TypeOK, FileTyped
<1> DEFINE At(place) == [io[c] EXCEPT !.at = place]
<1>3. /\ \A place \in {"drop", "exists", "read", "find-again", "drop-again", "stage",
                       "unlink", "rename"} :
            At(place) \in CallType /\ At(place).op = io[c].op /\ At(place).doc = io[c].doc
      /\ \A place : Goes(c, place) => io' = [io EXCEPT ![c] = At(place)]
  BY <1>2 DEF CallType, Goes
<1> HIDE DEF At
<1>4. \A S \in RecordSets : Edited(io[c], S) \in RecordSets
  <2>1. io[c].op = "save" => io[c].doc = capture.doc /\ capture \in CaptureType
    BY <1>1 DEF IInv, TypeOK, CallInv, OpOf, Callers, SlotInv
  <2>2. QED
    BY <2>1 DEF Edited, RecordSets, CaptureType
<1>5. {} \in RecordSets /\ TRUE \in BOOLEAN /\ FALSE \in BOOLEAN
  BY DEF RecordSets
<1>6. CASE Find(c)
  <2>1. \E place \in {"drop", "exists", "drop-again", "stage"} : Goes(c, place)
    BY <1>6 DEF Find
  <2>2. FileTyped' /\ UNCHANGED <<ui, native, evidence, handlers>>
    BY <1>2, <1>6 DEF Find, file, FileTyped, RecordSets
  <2>3. QED
    BY <1>1, <1>3, <2>1, <2>2, GoesKeeps
<1>7. CASE Drop(c)
  <2>1. FileTyped' /\ UNCHANGED <<native, evidence>>
    BY <1>2, <1>7 DEF Drop, FileTyped, RecordSets
  <2>2. CASE staged = None
    BY <1>1, <1>5, <1>7, <2>1, <2>2, EndsKeeps DEF Drop, Fails
  <2>3. CASE staged # None
    BY <1>1, <1>3, <1>7, <2>1, <2>3, GoesKeeps DEF Drop
  <2>4. QED
    BY <2>2, <2>3
<1>8. CASE Read(c)
  <2>1. FileTyped' /\ UNCHANGED <<native, evidence>>
    BY <1>2, <1>8 DEF Read, file, FileTyped, RecordSets
  <2>2. CASE \E ok \in BOOLEAN, values \in RecordSets : Ends(c, ok, values)
    BY <1>1, <2>1, <2>2, EndsKeeps
  <2>3. CASE Goes(c, "read") /\ UNCHANGED <<ui, handlers>>
    BY <1>1, <1>3, <2>1, <2>3, GoesKeeps
  <2>4. CASE \E S \in RecordSets :
                /\ io' = [io EXCEPT ![c].at = "find-again", ![c].values = Edited(io[c], S)]
                /\ UNCHANGED <<ui, handlers>>
    <3>1. PICK S \in RecordSets :
             /\ io' = [io EXCEPT ![c].at = "find-again", ![c].values = Edited(io[c], S)]
             /\ UNCHANGED <<ui, handlers>>
      BY <2>4
    <3> DEFINE new == [io[c] EXCEPT !.at = "find-again", !.values = Edited(io[c], S)]
    <3>2. io' = [io EXCEPT ![c] = new]
      BY <1>2, <3>1
    <3>3. new \in CallType /\ new.op = io[c].op /\ new.doc = io[c].doc
      BY <1>2, <1>4 DEF CallType
    <3>4. QED
      BY <1>1, <2>1, <3>1, <3>2, <3>3, GoesKeeps
  <2>5. QED
    BY <1>2, <1>5, <1>8, <2>2, <2>3, <2>4 DEF Read, Fails, FileTyped
<1>9. CASE Stage(c)
  <2>1. FileTyped' /\ UNCHANGED <<native, evidence>>
    BY <1>2, <1>9 DEF Stage, FileTyped, CallType
  <2>2. CASE Ends(c, FALSE, {})
    BY <1>1, <1>5, <2>1, <2>2, EndsKeeps
  <2>3. CASE Goes(c, "unlink") /\ UNCHANGED <<ui, handlers>>
    BY <1>1, <1>3, <2>1, <2>3, GoesKeeps
  <2>4. QED
    BY <1>9, <2>2, <2>3 DEF Stage, Fails
<1>10. CASE Unlink(c)
  BY <1>1, <1>2, <1>3, <1>10, GoesKeeps DEF Unlink, FileTyped
<1>11. CASE Rename(c)
  <2>1. FileTyped' /\ UNCHANGED <<native, evidence>>
    BY <1>2, <1>11 DEF Rename, FileTyped
  <2>2. Ends(c, FALSE, {}) \/ Ends(c, TRUE, {})
    BY <1>11 DEF Rename, Fails
  <2>3. QED
    BY <1>1, <1>5, <2>1, <2>2, EndsKeeps
<1>12. QED
  BY <1>6, <1>7, <1>8, <1>9, <1>10, <1>11 DEF FileStep
-----------------------------------------------------------------------------
(* Starting, ending and the screens.                                       *)

LEMMA InitKeeps == Init => IInv
<1> SUFFICES ASSUME Init PROVE IInv
  OBVIOUS
<1>1. TypeOK
  BY EmptySeq DEF Init, TypeOK, Sources, RecordSets
<1>2. SlotInv /\ CallInv
  BY DEF Init, SlotInv, CallInv, Callers
<1>3. QueueInv /\ ReviewInv
  BY EmptySeq DEF Init, QueueInv, ReviewInv, Callers
<1>4. QED
  BY <1>1, <1>2, <1>3 DEF IInv

LEMMA StartKeeps == IInv /\ (Start \/ Closed \/ Day) => IInv'
<1> SUFFICES ASSUME IInv, Start \/ Closed \/ Day PROVE IInv'
  OBVIOUS
<1> USE DEF IInv
<1>1. CASE Start
  <2> DEFINE call == Call("purge", None)
  <2>1. call \in CallType /\ call.op = "purge"
    BY CallTyped
  <2>2. io' = [io EXCEPT !["purge"] = call]
    BY <1>1 DEF Start
  <2> HIDE DEF call
  <2>3. /\ io' \in [Callers -> CallType \cup {None}] /\ io'["purge"] = call
        /\ \A c \in Callers : c # "purge" => io'[c] = io[c]
    BY <2>1, <2>2 DEF TypeOK, Callers
  <2>4. TypeOK'
    BY <1>1, <2>3 DEF Start, TypeOK, file, handlers, RecordSets
  <2>5. SlotInv' /\ QueueInv' /\ ReviewInv' /\ CallInv'
    BY <1>1, <2>1, <2>3
       DEF Start, SlotInv, QueueInv, ReviewInv, CallInv, OpOf, Callers, handlers
  <2>6. QED
    BY <2>4, <2>5
<1>2. CASE Closed
  <2>1. TypeOK'
    <3>1. (camera \in RecordSets /\ secure \in RecordSets)'
      BY <1>2 DEF Closed, TypeOK, RecordSets
    <3>2. QED
      BY <1>2, <3>1, EmptySeq DEF Closed, TypeOK, file, RecordSets
  <2>2. QED
    BY <1>2, <2>1, EmptySeq DEF Closed, SlotInv, QueueInv, ReviewInv, CallInv, Callers
<1>3. CASE Day
  <2>1. TypeOK'
    BY <1>3 DEF Day, TypeOK, ui, file, handlers, RecordSets, Recorded
  <2>2. QED
    BY <1>3, <2>1 DEF Day, SlotInv, QueueInv, ReviewInv, CallInv, handlers
<1>4. QED
  BY <1>1, <1>2, <1>3

\* A reload replaces the call of the screen.
LEMMA ReloadTyped ==
    ASSUME IInv
    PROVE  /\ Reload \in [Callers -> CallType \cup {None}]
           /\ Reload["screen"] # None /\ Reload["screen"].op = "load"
           /\ Reload["screen"].at = "find" /\ Reload["screen"] \in CallType
           /\ \A c \in Callers : c # "screen" => Reload[c] = io[c]
           /\ CallInv /\ io' = Reload => CallInv'
<1> DEFINE call == Call("load", None)
<1>1. call \in CallType /\ call # None /\ call.op = "load" /\ call.at = "find"
  BY CallTyped
<1>2. Reload = [io EXCEPT !["screen"] = call]
  BY DEF Reload
<1> HIDE DEF call
<1>3. QED
  BY <1>1, <1>2 DEF IInv, TypeOK, Callers, CallInv, OpOf

LEMMA ScreenKeeps ==
    IInv /\ (OpenEvidence \/ LeaveEvidence \/ LeaveReview \/ (\E d \in Docs : OpenReview(d))
            \/ \E t \in Types, v \in {Manual, None} : SetByHand(t, v)) => IInv'
<1> USE DEF IInv
<1>1. ASSUME IInv, OpenEvidence PROVE IInv'
  <2> USE <1>1
  <2> DEFINE job == [what |-> "cleanup", doc |-> None]
  <2>1. jobs \in Seq(JobType) /\ job \in JobType /\ jobs' = Append(jobs, job)
    BY DEF TypeOK, JobType, OpenEvidence, Enqueue
  <2>2. /\ jobs' \in Seq(JobType) /\ DOMAIN jobs' = 1 .. Len(jobs) + 1
        /\ DOMAIN jobs = 1 .. Len(jobs) /\ Len(jobs) \in Nat
        /\ \A i \in DOMAIN jobs : jobs'[i] = jobs[i]
        /\ jobs'[Len(jobs) + 1].what = "cleanup"
    BY <2>1, Enqueued, LenProperties
  <2>3. io' = Reload
    BY DEF OpenEvidence
  <2>4. TypeOK'
    BY <2>2, <2>3, ReloadTyped DEF OpenEvidence, TypeOK, file, handlers, JobType
  <2>5. SlotInv' /\ CallInv'
    BY <2>3, ReloadTyped DEF OpenEvidence, SlotInv, handlers, Callers
  <2>6. QueueInv'
    BY <2>2 DEF OpenEvidence, QueueInv
  <2>7. ReviewInv'
    BY <2>2, <2>3, ReloadTyped DEF OpenEvidence, ReviewInv, handlers, Callers
  <2>8. QED
    BY <2>4, <2>5, <2>6, <2>7
<1>2. ASSUME IInv, LeaveEvidence PROVE IInv'
  <2> USE <1>2
  <2>1. capture # None =>
           /\ capture \in CaptureType /\ capture' \in CaptureType /\ capture' # None
           /\ capture'.at = capture.at /\ capture'.doc = capture.doc
    BY NoneAssumption DEF LeaveEvidence, TypeOK, CaptureType
  <2>2. TypeOK'
    BY <2>1 DEF LeaveEvidence, TypeOK, native, file, RecordSets
  <2>3. QED
    BY <2>1, <2>2
       DEF LeaveEvidence, SlotInv, QueueInv, ReviewInv, CallInv, native
<1>3. ASSUME IInv, LeaveReview PROVE IInv'
  <2> USE <1>3
  <2>1. review # None =>
           /\ review \in ReviewType /\ review' \in ReviewType /\ review' # None
           /\ review'.at = review.at /\ review'.doc = review.doc
    BY NoneAssumption DEF LeaveReview, TypeOK, ReviewType
  <2>2. review = None => review' = None
    BY DEF LeaveReview
  <2>3. io' = Reload
    BY DEF LeaveReview
  <2>4. TypeOK'
    BY <2>1, <2>2, <2>3, ReloadTyped DEF LeaveReview, TypeOK, native, file
  <2>5. QED
    BY <2>1, <2>2, <2>3, <2>4, ReloadTyped
       DEF LeaveReview, SlotInv, QueueInv, ReviewInv, native, Callers
<1>4. ASSUME IInv, NEW d \in Docs, OpenReview(d) PROVE IInv'
  <2>1. d # None
    BY CaptureAssumption
  <2>2. TypeOK'
    BY <1>4, <2>1 DEF OpenReview, TypeOK, native, file, handlers
  <2>3. QED
    BY <1>4, <2>2
       DEF OpenReview, SlotInv, QueueInv, ReviewInv, CallInv, native, handlers
<1>5. ASSUME IInv, NEW t \in Types, NEW v \in {Manual, None}, SetByHand(t, v) PROVE IInv'
  <2>1. io' = Reload
    BY <1>5 DEF SetByHand
  <2>2. TypeOK'
    BY <1>5, <2>1, ReloadTyped
       DEF SetByHand, TypeOK, ui, native, file, handlers, Sources
  <2>3. QED
    BY <1>5, <2>1, <2>2, ReloadTyped
       DEF SetByHand, SlotInv, QueueInv, ReviewInv, native, handlers, Callers
<1>6. QED
  BY <1>1, <1>2, <1>3, <1>4, <1>5
-----------------------------------------------------------------------------
(* The capture and the executor.                                           *)

\* The bridge answers a _capture that waits for it, and no job of the capture is left.
LEMMA AnsweredKeeps ==
    ASSUME IInv, pending # None, NEW ok \in BOOLEAN, Answered(pending.doc, ok),
           jobs' \in Seq(JobType),
           \A i \in DOMAIN jobs' : jobs'[i].what # "process",
           \A i \in DOMAIN jobs' : jobs'[i].what = "delete" =>
              review # None /\ review.at = "files" /\ jobs'[i].doc = review.doc,
           \A i, j \in DOMAIN jobs' :
              jobs'[i].what = "delete" /\ jobs'[j].what = "delete" => i = j,
           secure' \in RecordSets,
           UNCHANGED <<ui, old, file, evidence, review>>
    PROVE  IInv'
<1> USE DEF IInv
<1>1. /\ capture # None /\ capture.at = "native" /\ capture.doc = pending.doc
      /\ capture \in CaptureType /\ pending \in Slot /\ io["capture"] = None
  BY DEF SlotInv, TypeOK
<1> DEFINE call == Call("save", pending.doc)
<1>2. call \in CallType /\ call.op = "save" /\ call.doc = pending.doc
  <2>1. pending.doc \in Docs
    BY <1>1 DEF Slot
  <2>2. QED
    BY <2>1, CallTyped
<1>3. /\ pending' = None /\ camera' \in RecordSets
      /\ \/ capture' = [capture EXCEPT !.at = "save"] /\ io' = [io EXCEPT !["capture"] = call]
         \/ capture' = None /\ io' \in {Reload, io}
  BY DEF Answered, TypeOK, RecordSets
<1> HIDE DEF call
<1>4. CASE capture' = [capture EXCEPT !.at = "save"] /\ io' = [io EXCEPT !["capture"] = call]
  <2>1. /\ capture' \in CaptureType /\ capture' # None /\ capture'.at = "save"
        /\ capture'.doc = capture.doc
    BY <1>1, <1>4, NoneAssumption DEF CaptureType
  <2>2. /\ io' \in [Callers -> CallType \cup {None}] /\ io'["capture"] = call
        /\ \A c \in Callers : c # "capture" => io'[c] = io[c]
    BY <1>2, <1>4 DEF TypeOK, Callers
  <2>3. TypeOK'
    BY <1>3, <2>1, <2>2 DEF TypeOK, ui, file, JobType
  <2>4. SlotInv' /\ CallInv'
    BY <1>1, <1>2, <1>3, <2>1, <2>2 DEF SlotInv, CallInv, OpOf, Callers
  <2>5. QueueInv' /\ ReviewInv'
    BY <1>3, <2>2 DEF QueueInv, ReviewInv, Callers
  <2>6. QED
    BY <2>3, <2>4, <2>5
<1>5. CASE capture' = None /\ io' \in {Reload, io}
  <2>1. /\ io' \in [Callers -> CallType \cup {None}] /\ CallInv'
        /\ io'["capture"] = io["capture"] /\ io'["review"] = io["review"]
    <3>1. CASE io' = Reload
      BY <3>1, ReloadTyped DEF Callers
    <3>2. CASE io' = io
      BY <3>2 DEF TypeOK, CallInv
    <3>3. QED
      BY <1>5, <3>1, <3>2
  <2>2. TypeOK'
    BY <1>3, <1>5, <2>1 DEF TypeOK, ui, file, JobType
  <2>3. QED
    BY <1>1, <1>3, <1>5, <2>1, <2>2 DEF SlotInv, QueueInv, ReviewInv
<1>6. QED
  BY <1>3, <1>4, <1>5

LEMMA CaptureKeeps ==
    IInv /\ ((\E d \in Docs, photo \in BOOLEAN : Take(d, photo)) \/ Cancelled \/ Chosen) => IInv'
<1> USE DEF IInv
<1>1. ASSUME IInv, NEW d \in Docs, NEW photo \in BOOLEAN, Take(d, photo) PROVE IInv'
  <2> USE <1>1
  <2>1. /\ pending' \in Slot /\ pending' # None /\ pending'.doc = d /\ pending'.at = "outside"
        /\ capture' \in CaptureType /\ capture' # None /\ capture'.doc = d
        /\ capture'.at = "native"
    <3>1. /\ pending' = [doc |-> d, at |-> "outside"]
          /\ capture' = [doc |-> d, mounted |-> TRUE, at |-> "native"]
      BY DEF Take
    <3>2. pending' \in Slot /\ capture' \in CaptureType
      BY <3>1 DEF Slot, CaptureType
    <3>3. QED
      BY <3>1, <3>2, NoneAssumption
  <2>2. TypeOK'
    BY <2>1 DEF Take, TypeOK, ui, file, RecordSets
  <2>3. io["capture"] = None /\ io' = io
    BY DEF Take, SlotInv
  <2>4. SlotInv' /\ QueueInv'
    BY <2>1, <2>3 DEF Take, SlotInv, QueueInv
  <2>5. ReviewInv' /\ CallInv'
    BY <2>3 DEF Take, ReviewInv, CallInv
  <2>6. QED
    BY <2>2, <2>4, <2>5
<1>2. ASSUME IInv, Cancelled PROVE IInv'
  <2> USE <1>2
  <2>1. \A i \in DOMAIN jobs' : jobs'[i].what # "process"
    BY DEF Cancelled, QueueInv
  <2>2. jobs' = jobs /\ jobs \in Seq(JobType) /\ secure' \in RecordSets
    BY DEF Cancelled, TypeOK, JobType
  <2>3. QED
    BY <2>1, <2>2, AnsweredKeeps DEF Cancelled, ReviewInv
<1>3. ASSUME IInv, Chosen PROVE IInv'
  <2> USE <1>3
  <2>1. pending \in Slot /\ pending # None /\ pending.at = "outside"
    BY DEF Chosen, TypeOK
  <2>2. /\ pending' \in Slot /\ pending' # None /\ pending'.doc = pending.doc
        /\ pending'.at = "executor"
    BY <2>1, NoneAssumption DEF Chosen, Slot
  <2> DEFINE job == [what |-> "process", doc |-> pending.doc]
  <2>3. jobs \in Seq(JobType) /\ job \in JobType /\ jobs' = Append(jobs, job)
    BY <2>1 DEF TypeOK, JobType, Chosen, Enqueue, Slot
  <2>4. /\ jobs' \in Seq(JobType) /\ DOMAIN jobs' = 1 .. Len(jobs) + 1
        /\ DOMAIN jobs = 1 .. Len(jobs) /\ Len(jobs) \in Nat
        /\ \A i \in DOMAIN jobs : jobs'[i] = jobs[i]
        /\ jobs'[Len(jobs) + 1] = job
    BY <2>3, Enqueued, LenProperties
  <2>5. TypeOK'
    BY <2>2, <2>4 DEF Chosen, TypeOK, ui, file, handlers, JobType
  <2>6. SlotInv' /\ CallInv'
    BY <2>2 DEF Chosen, SlotInv, CallInv, handlers
  <2>7. \A i \in DOMAIN jobs : jobs[i].what # "process"
    BY <2>1 DEF QueueInv
  <2>8. QueueInv'
    BY <2>2, <2>4, <2>7 DEF QueueInv
  <2>9. ReviewInv'
    BY <2>4 DEF Chosen, ReviewInv, handlers
  <2>10. QED
    BY <2>5, <2>6, <2>8, <2>9
<1>4. QED
  BY <1>1, <1>2, <1>3

\* What the head of the queue leaves behind when it goes.
LEMMA QueueAfterHead ==
    ASSUME IInv, jobs # <<>>, jobs' = Tail(jobs)
    PROVE  /\ jobs' \in Seq(JobType) /\ Head(jobs) = jobs[1] /\ 1 \in DOMAIN jobs
           /\ Head(jobs) \in JobType
           /\ \A i \in DOMAIN jobs' : i \in Nat \ {0} /\ i + 1 \in DOMAIN jobs /\ jobs'[i] = jobs[i + 1]
           /\ Head(jobs).what # "process" => QueueInv' \/ pending' # pending
           /\ \A i \in DOMAIN jobs' : jobs'[i].what = "delete" =>
                 review # None /\ review.at = "files" /\ jobs'[i].doc = review.doc
           /\ Head(jobs).what \in {"process", "delete"} =>
                 \A i \in DOMAIN jobs' : jobs'[i].what # Head(jobs).what
           /\ \A i, j \in DOMAIN jobs' :
                 jobs'[i].what = "delete" /\ jobs'[j].what = "delete" => i = j
<1>1. jobs \in Seq(JobType)
  BY DEF IInv, TypeOK, JobType
<1>2. /\ jobs' \in Seq(JobType) /\ DOMAIN jobs' = 1 .. Len(jobs) - 1
      /\ DOMAIN jobs = 1 .. Len(jobs) /\ Len(jobs) \in Nat \ {0}
      /\ Head(jobs) = jobs[1] /\ Head(jobs) \in JobType
      /\ \A i \in DOMAIN jobs' : i + 1 \in DOMAIN jobs /\ jobs'[i] = jobs[i + 1]
  BY <1>1, Dequeued
<1>3. \A i \in DOMAIN jobs' : i \in Nat \ {0}
  BY <1>2
<1>4. /\ Head(jobs).what = "process" => \A i \in DOMAIN jobs' : jobs'[i].what # "process"
      /\ Head(jobs).what = "delete" => \A i \in DOMAIN jobs' : jobs'[i].what # "delete"
  BY <1>2, <1>3 DEF IInv, QueueInv, ReviewInv
<1>5. ASSUME Head(jobs).what # "process", pending' = pending PROVE QueueInv'
  <2>1. \A i \in DOMAIN jobs : i # 1 => i - 1 \in DOMAIN jobs' /\ jobs'[i - 1] = jobs[i]
    BY <1>2
  <2>2. \A i \in DOMAIN jobs' : jobs'[i].what = "process" =>
           pending # None /\ pending.at = "executor" /\ jobs'[i].doc = pending.doc
    BY <1>2 DEF IInv, QueueInv
  <2>3. \A i, j \in DOMAIN jobs' :
           jobs'[i].what = "process" /\ jobs'[j].what = "process" => i = j
    BY <1>2, <1>3 DEF IInv, QueueInv
  <2>4. ASSUME pending # None, pending.at = "executor"
        PROVE  \E i \in DOMAIN jobs' : jobs'[i].what = "process"
    <3>1. PICK i \in DOMAIN jobs : jobs[i].what = "process"
      BY <2>4 DEF IInv, QueueInv
    <3>2. i # 1
      BY <1>2, <1>5, <3>1
    <3>3. QED
      BY <2>1, <3>1, <3>2
  <2>5. QED
    BY <1>5, <2>2, <2>3, <2>4 DEF QueueInv
<1>6. \A i, j \in DOMAIN jobs' :
         jobs'[i].what = "delete" /\ jobs'[j].what = "delete" => i = j
  BY <1>2, <1>3 DEF IInv, ReviewInv
<1>7. \A i \in DOMAIN jobs' : jobs'[i].what = "delete" =>
         review # None /\ review.at = "files" /\ jobs'[i].doc = review.doc
  BY <1>2 DEF IInv, ReviewInv
<1>8. QED
  BY <1>2, <1>3, <1>4, <1>5, <1>6, <1>7

LEMMA ExecutorKeeps == IInv /\ Executor => IInv'
<1> USE DEF IInv
<1>1. ASSUME IInv, Stored PROVE IInv'
  <2>1. jobs # <<>> /\ jobs \in Seq(JobType) /\ Head(jobs).what = "process"
    BY <1>1 DEF Stored, Job, TypeOK, JobType
  <2>2. Head(jobs) = jobs[1] /\ 1 \in DOMAIN jobs
    BY <2>1, HeadTailProperties, LenProperties
  <2>3. Head(jobs).doc \in Docs
    BY <1>1, <2>1, <2>2 DEF QueueInv, TypeOK, Slot
  <2>4. TypeOK'
    BY <1>1, <2>3 DEF Stored, TypeOK, ui, file, handlers, RecordSets
  <2>5. QED
    BY <1>1, <2>4 DEF Stored, SlotInv, QueueInv, ReviewInv, CallInv, handlers
<1>2. ASSUME IInv, NEW ok \in BOOLEAN, Processed(ok) PROVE IInv'
  <2>1. jobs # <<>> /\ Head(jobs).what = "process" /\ jobs' = Tail(jobs)
    BY <1>2 DEF Processed, Job
  <2>2. pending # None /\ Head(jobs).doc = pending.doc
    BY <1>2, <2>1, QueueAfterHead DEF QueueInv
  <2>3. secure' \in RecordSets
    BY <1>2 DEF Processed, TypeOK, RecordSets
  <2>4. Answered(pending.doc, ok) /\ UNCHANGED <<ui, old, file, evidence, review>>
    BY <1>2, <2>2 DEF Processed
  <2>5. /\ jobs' \in Seq(JobType)
        /\ \A i \in DOMAIN jobs' : jobs'[i].what # "process"
        /\ \A i \in DOMAIN jobs' : jobs'[i].what = "delete" =>
              review # None /\ review.at = "files" /\ jobs'[i].doc = review.doc
        /\ \A i, j \in DOMAIN jobs' :
              jobs'[i].what = "delete" /\ jobs'[j].what = "delete" => i = j
    BY <1>2, <2>1, QueueAfterHead
  <2>6. QED
    BY <1>2, <2>2, <2>3, <2>4, <2>5, AnsweredKeeps
<1>3. ASSUME IInv, Deleted PROVE IInv'
  <2> USE <1>3
  <2>1. jobs # <<>> /\ Head(jobs).what = "delete" /\ jobs' = Tail(jobs) /\ pending' = pending
    BY DEF Deleted, Job
  <2>2. /\ jobs' \in Seq(JobType) /\ QueueInv'
        /\ Head(jobs) = jobs[1] /\ 1 \in DOMAIN jobs
        /\ \A i \in DOMAIN jobs' : jobs'[i].what # "delete"
    BY <2>1, QueueAfterHead
  <2>3. review # None /\ review.at = "files" /\ review \in ReviewType
    BY <2>1, <2>2 DEF ReviewInv, TypeOK
  <2> DEFINE call == Call("remove", review.doc)
  <2>4. call \in CallType /\ call.op = "remove" /\ call.doc = review.doc
    <3>1. review.doc \in Docs
      BY <2>3 DEF ReviewType
    <3>2. QED
      BY <3>1, CallTyped
  <2>5. io' = [io EXCEPT !["review"] = call]
    BY DEF Deleted
  <2> HIDE DEF call
  <2>6. /\ review' \in ReviewType /\ review' # None /\ review'.at = "record"
        /\ review'.doc = review.doc
    BY <2>3, NoneAssumption DEF Deleted, ReviewType
  <2>7. /\ io' \in [Callers -> CallType \cup {None}] /\ io'["review"] = call
        /\ \A c \in Callers : c # "review" => io'[c] = io[c]
    BY <2>4, <2>5 DEF TypeOK, Callers
  <2>8. TypeOK'
    BY <2>2, <2>6, <2>7 DEF Deleted, TypeOK, ui, file, RecordSets, JobType
  <2>9. SlotInv' /\ CallInv'
    BY <2>4, <2>7 DEF Deleted, SlotInv, CallInv, OpOf, Callers
  <2>10. ReviewInv'
    BY <2>2, <2>4, <2>6, <2>7 DEF ReviewInv
  <2>11. QED
    BY <2>2, <2>8, <2>9, <2>10
<1>4. ASSUME IInv, CleanedUp PROVE IInv'
  <2> USE <1>4
  <2>1. jobs # <<>> /\ Head(jobs).what = "cleanup" /\ jobs' = Tail(jobs) /\ pending' = pending
    BY DEF CleanedUp, Job
  <2>2. TypeOK'
    BY <2>1, QueueAfterHead DEF CleanedUp, TypeOK, ui, file, handlers, RecordSets, JobType
  <2>3. QueueInv' /\ ReviewInv'
    BY <2>1, QueueAfterHead DEF CleanedUp, ReviewInv, handlers
  <2>4. SlotInv' /\ CallInv'
    BY DEF CleanedUp, SlotInv, CallInv, handlers
  <2>5. QED
    BY <2>2, <2>3, <2>4
<1>5. QED
  BY <1>1, <1>2, <1>3, <1>4 DEF Executor
-----------------------------------------------------------------------------
(* The review of a document.                                               *)

\* The writes of a confirmation start with the first type selected.
LEMMA ReviewStarts ==
    ASSUME IInv, screen = "review", NEW selection \in Seq(Types), NEW what \in {"confirm", "delete"},
           NEW todo \in Seq([type : Types, value : Sources]),
           review' = [what |-> what, doc |-> reviewed, chosen |-> selection, at |-> "save",
                      before |-> evidence, mounted |-> TRUE, todo |-> todo]
    PROVE  /\ review' \in ReviewType /\ review' # None /\ reviewed \in Docs
           /\ review'.at = "save" /\ review'.doc = reviewed
<1>1. reviewed \in Docs /\ evidence \in [Types -> Sources]
  BY DEF IInv, TypeOK
<1>2. review' \in ReviewType
  BY <1>1 DEF ReviewType
<1>3. QED
  BY <1>1, <1>2, NoneAssumption

LEMMA SelectionTyped ==
    ASSUME NEW s \in Selections
    PROVE  s \in Seq(Types) /\ s # <<>>
<1>1. PICK n \in 1 .. Cardinality(Types) : s \in [1 .. n -> Types]
  BY DEF Selections
<1>2. n \in Nat \ {0}
  BY <1>1, CaptureAssumption, FS_CardinalityType
<1>3. s \in Seq(Types)
  BY <1>1, <1>2, SeqDef
<1>4. QED
  BY <1>1, <1>2, <1>3, EmptySeq

\* What is left to write, once its first entry is written.
LEMMA TodoTyped ==
    ASSUME NEW r \in ReviewType, r.todo # <<>>
    PROVE  /\ Head(r.todo) \in [type : Types, value : Sources]
           /\ Tail(r.todo) \in Seq([type : Types, value : Sources])
<1>1. r.todo \in Seq([type : Types, value : Sources])
  BY DEF ReviewType
<1>2. QED
  BY <1>1, HeadTailProperties

\* A step of a review that neither waits for the executor nor removes its record.
LEMMA ReviewMoves ==
    ASSUME IInv, review # None => review.at \notin {"files", "record"},
           review' = None \/ review' \in ReviewType,
           evidence' \in [Types -> Sources],
           UNCHANGED <<ui, native, file, io, capture>>
    PROVE  IInv'
<1> USE DEF IInv
<1>1. TypeOK'
  BY DEF TypeOK, ui, native, file
<1>2. io["review"] = None /\ \A i \in DOMAIN jobs : jobs[i].what # "delete"
  BY DEF ReviewInv
<1>3. SlotInv' /\ QueueInv' /\ ReviewInv' /\ CallInv'
  BY <1>2 DEF SlotInv, QueueInv, ReviewInv, CallInv, native
<1>4. QED
  BY <1>1, <1>3

LEMMA ReviewKeeps ==
    IInv /\ ((\E s \in Selections : Confirm(s)) \/ Delete \/ EvidenceWritten
            \/ EvidenceRemoved \/ AskDeletion \/ Undone) => IInv'
<1> USE DEF IInv
<1>1. ASSUME IInv, NEW s \in Selections, Confirm(s) PROVE IInv'
  <2> DEFINE todo == [i \in DOMAIN s |-> [type |-> s[i], value |-> reviewed]]
  <2>1. s \in Seq(Types) /\ Len(s) \in Nat /\ DOMAIN s = 1 .. Len(s)
    BY SelectionTyped, LenProperties
  <2>2. reviewed \in Sources
    BY <1>1 DEF TypeOK, Sources
  <2>3. todo \in [1 .. Len(s) -> [type : Types, value : Sources]]
    BY <2>1, <2>2, ElementOfSeq
  <2>4. todo \in Seq([type : Types, value : Sources])
    BY <2>1, <2>3, SeqDef
  <2> HIDE DEF todo
  <2>5. /\ screen = "review" /\ review = None
        /\ review' = [what |-> "confirm", doc |-> reviewed, chosen |-> s, at |-> "save",
                      before |-> evidence, mounted |-> TRUE, todo |-> todo]
        /\ UNCHANGED <<ui, native, file, io, evidence, capture>>
    BY <1>1 DEF Confirm, todo
  <2>6. review' \in ReviewType
    BY <1>1, <2>1, <2>4, <2>5, ReviewStarts
  <2>7. evidence' \in [Types -> Sources]
    BY <1>1, <2>5 DEF TypeOK
  <2>8. QED
    BY <1>1, <2>5, <2>6, <2>7, ReviewMoves
<1>2. ASSUME IInv, Delete PROVE IInv'
  <2>1. /\ screen = "review" /\ review = None
        /\ review' = [what |-> "delete", doc |-> reviewed, chosen |-> <<>>, at |-> "save",
                      before |-> evidence, mounted |-> TRUE, todo |-> <<>>]
        /\ UNCHANGED <<ui, native, file, io, evidence, capture>>
    BY <1>2 DEF Delete
  <2>2. <<>> \in Seq(Types) /\ <<>> \in Seq([type : Types, value : Sources])
    BY EmptySeq
  <2>3. review' \in ReviewType
    BY <1>2, <2>1, <2>2, ReviewStarts
  <2>4. evidence' \in [Types -> Sources]
    BY <1>2, <2>1 DEF TypeOK
  <2>5. QED
    BY <1>2, <2>1, <2>3, <2>4, ReviewMoves
<1>3. ASSUME IInv, EvidenceWritten \/ EvidenceRemoved PROVE IInv'
  <2>1. /\ review # None /\ review.at \in {"save", "restore", "undo"} /\ review.todo # <<>>
        /\ review \in ReviewType
        /\ UNCHANGED <<ui, native, file, io, capture>>
    BY <1>3 DEF EvidenceWritten, EvidenceRemoved, TypeOK
  <2>2. /\ Head(review.todo).type \in Types /\ Head(review.todo).value \in Sources
        /\ Tail(review.todo) \in Seq([type : Types, value : Sources]) /\ None \in Sources
    BY <2>1, TodoTyped DEF Sources
  <2>3. review' \in ReviewType
    BY <1>3, <2>1, <2>2 DEF EvidenceWritten, EvidenceRemoved, ReviewType
  <2>4. evidence' \in [Types -> Sources]
    BY <1>3, <2>2 DEF EvidenceWritten, EvidenceRemoved, TypeOK
  <2>5. QED
    BY <1>3, <2>1, <2>3, <2>4, ReviewMoves
<1>4. ASSUME IInv, AskDeletion PROVE IInv'
  <2>1. review # None /\ review.at = "save" /\ review \in ReviewType
    BY <1>4 DEF AskDeletion, TypeOK
  <2>2. CASE review' \in {Undo(review), None} /\ jobs' = jobs
    <3>1. review' = None \/ review' \in ReviewType
      BY <2>1, <2>2, UndoTyped
    <3>2. UNCHANGED <<ui, native, file, io, capture>> /\ evidence' \in [Types -> Sources]
      BY <1>4, <2>2 DEF AskDeletion, native, TypeOK
    <3>3. QED
      BY <1>4, <2>1, <3>1, <3>2, ReviewMoves
  <2>3. CASE Enqueue("delete", review.doc) /\ review' = [review EXCEPT !.at = "files"]
    <3> DEFINE job == [what |-> "delete", doc |-> review.doc]
    <3>1. jobs \in Seq(JobType) /\ job \in JobType /\ jobs' = Append(jobs, job)
      BY <1>4, <2>1, <2>3 DEF TypeOK, JobType, Enqueue, ReviewType
    <3>2. /\ jobs' \in Seq(JobType) /\ DOMAIN jobs' = 1 .. Len(jobs) + 1
          /\ DOMAIN jobs = 1 .. Len(jobs) /\ Len(jobs) \in Nat
          /\ \A i \in DOMAIN jobs : jobs'[i] = jobs[i]
          /\ jobs'[Len(jobs) + 1].what = "delete" /\ jobs'[Len(jobs) + 1].doc = review.doc
      BY <3>1, Enqueued, LenProperties
    <3>3. /\ review' \in ReviewType /\ review' # None /\ review'.at = "files"
          /\ review'.doc = review.doc
      BY <2>1, <2>3, NoneAssumption DEF ReviewType
    <3>4. UNCHANGED <<ui, pending, camera, secure, old, file, io, evidence, capture>>
      BY <1>4 DEF AskDeletion
    <3>5. TypeOK'
      BY <1>4, <3>2, <3>3, <3>4 DEF TypeOK, ui, file, JobType
    <3>6. SlotInv' /\ CallInv'
      BY <1>4, <3>4 DEF SlotInv, CallInv
    <3>7. QueueInv'
      BY <1>4, <3>2, <3>4 DEF QueueInv
    <3>8. io["review"] = None /\ \A i \in DOMAIN jobs : jobs[i].what # "delete"
      BY <1>4, <2>1 DEF ReviewInv
    <3>9. ReviewInv'
      BY <3>2, <3>3, <3>4, <3>8 DEF ReviewInv
    <3>10. QED
      BY <3>5, <3>6, <3>7, <3>9
  <2>4. QED
    BY <1>4, <2>2, <2>3 DEF AskDeletion
<1>5. ASSUME IInv, Undone PROVE IInv'
  <2>1. /\ review.at = "undo" /\ review' = None /\ evidence' = evidence
        /\ UNCHANGED <<ui, native, file, io, capture>>
    BY <1>5 DEF Undone
  <2>2. evidence' \in [Types -> Sources]
    BY <1>5, <2>1 DEF TypeOK
  <2>3. QED
    BY <1>5, <2>1, <2>2, ReviewMoves
<1>6. QED
  BY <1>1, <1>2, <1>3, <1>4, <1>5
-----------------------------------------------------------------------------
LEMMA Stutters == IInv /\ UNCHANGED vars => IInv'
<1> SUFFICES ASSUME IInv, UNCHANGED vars PROVE IInv'
  OBVIOUS
<1>1. /\ UNCHANGED <<screen, listed, reviewed, pending, jobs, camera, secure, old>>
      /\ UNCHANGED <<records, staged, io, evidence, capture, review>>
  BY DEF vars, ui, native, file, handlers
<1>2. QED
  BY <1>1 DEF IInv, TypeOK, SlotInv, QueueInv, ReviewInv, CallInv

LEMMA NextKeeps == IInv /\ [Next]_vars => IInv'
<1> SUFFICES ASSUME IInv, Next \/ UNCHANGED vars PROVE IInv'
  OBVIOUS
<1>1. CASE Start \/ Closed \/ Day
  BY <1>1, StartKeeps
<1>2. CASE \E c \in Callers : FileStep(c)
  BY <1>2, FileStepKeeps
<1>3. CASE OpenEvidence \/ LeaveEvidence \/ LeaveReview \/ (\E d \in Docs : OpenReview(d))
           \/ \E t \in Types, v \in {Manual, None} : SetByHand(t, v)
  BY <1>3, ScreenKeeps
<1>4. CASE (\E d \in Docs, photo \in BOOLEAN : Take(d, photo)) \/ Cancelled \/ Chosen
  BY <1>4, CaptureKeeps
<1>5. CASE Executor
  BY <1>5, ExecutorKeeps
<1>6. CASE (\E s \in Selections : Confirm(s)) \/ Delete \/ EvidenceWritten
           \/ EvidenceRemoved \/ AskDeletion \/ Undone
  BY <1>6, ReviewKeeps
<1>7. QED
  BY <1>1, <1>2, <1>3, <1>4, <1>5, <1>6, Stutters DEF Next

THEOREM Safety == Spec => []IInv
  BY InitKeeps, NextKeeps, PTL DEF Spec

\* Types are kept by every step: no handler goes on for a document or a call that is gone.
THEOREM TypeCorrect == Spec => []TypeOK
<1>1. IInv => TypeOK
  BY DEF IInv
<1>2. QED
  BY <1>1, Safety, PTL

\* However captures, cancellations, departures and deaths of the process interleave with
\* the jobs of the executor, the slot of the bridge is taken exactly while one _capture
\* waits for it, and at most one job answers.
THEOREM SlotAwaited == Spec => []SlotIsAwaited
<1>1. ASSUME IInv PROVE SlotIsAwaited
  <2> DEFINE processed == {i \in DOMAIN jobs : jobs[i].what = "process"}
  <2>1. CASE pending = None
    BY <1>1, <2>1 DEF IInv, SlotInv, QueueInv, TypeOK, CaptureType, SlotIsAwaited
  <2>2. CASE pending # None
    <3>1. pending \in Slot
      BY <1>1, <2>2 DEF IInv, TypeOK
    <3>2. pending.at = "executor" => Cardinality(processed) = 1
      <4>1. SUFFICES ASSUME pending.at = "executor" PROVE Cardinality(processed) = 1
        OBVIOUS
      <4>2. PICK i \in DOMAIN jobs : jobs[i].what = "process"
        BY <1>1, <2>2, <4>1 DEF IInv, QueueInv
      <4>3. processed = {i}
        BY <1>1, <4>2 DEF IInv, QueueInv
      <4>4. QED
        BY <4>3, FS_Singleton
    <3>3. pending.at # "executor" => Cardinality(processed) = 0
      <4>1. SUFFICES ASSUME pending.at # "executor" PROVE Cardinality(processed) = 0
        OBVIOUS
      <4>2. processed = {}
        BY <1>1, <4>1 DEF IInv, QueueInv
      <4>3. QED
        BY <4>2, FS_EmptySet
    <3>4. \A i \in processed : jobs[i].doc = pending.doc
      BY <1>1 DEF IInv, QueueInv
    <3>5. capture # None /\ capture.at = "native" /\ capture.doc = pending.doc
      BY <1>1, <2>2 DEF IInv, SlotInv
    <3>6. QED
      BY <2>2, <3>2, <3>3, <3>4, <3>5 DEF SlotIsAwaited
  <2>3. QED
    BY <2>1, <2>2
<1>2. QED
  BY <1>1, Safety, PTL
=============================================================================
