------------------------------ MODULE StagedFile ------------------------------
(***************************************************************************)
(* One JSON file of the application directory and the repository calls on  *)
(* it that may overlap.  The repositories write their files the same way:  *)
(* the new text goes to "<file>.tmp", the old file is deleted, the new one *)
(* renamed.  Every file operation is an await, and the operations of two   *)
(* calls interleave: no repository has a queue or a lock, and all calls    *)
(* share one ".tmp".                                                       *)
(*                                                                         *)
(* A descriptor follows its file when that is renamed, so where a writer's *)
(* text goes is kept in `at`.  The stored JSON is abstracted to the        *)
(* identities of the items in it.                                          *)
(***************************************************************************)
CONSTANTS
    Calls,      \* slots for repository calls in flight
    Ids,        \* identities of stored items
    Kinds,      \* which calls this repository offers, see below
    Serial,     \* callers wait for a call to end before they make the next
    Troubles    \* what may interrupt a call: "death", "error"

(* "put" replaces the whole file (interview, draft, evidence, product      *)
(* state), "add" and "remove" read and rewrite a list (simulations,        *)
(* document evidence), "clear" deletes the file.                           *)
ASSUME FileAssumption ==
    /\ Kinds \subseteq {"put", "add", "remove", "clear"}
    /\ Serial \in BOOLEAN
    /\ Troubles \subseteq {"death", "error"}

\* A file: absent, complete JSON, nothing yet, or a mixture no parser accepts.
Texts == [form : {"missing", "whole", "empty", "torn"}, items : SUBSET Ids]
Whole(items) == [form |-> "whole", items |-> items]
Broken(form) == [form |-> form, items |-> {}]
Missing == Broken("missing")

Jobs == [kind : Kinds, id : Ids]
NoJob == [kind |-> "none"]

Awaits == {"idle", "exists", "read", "open", "write", "check", "delete",
            "create", "replace"}   \* rename, of a new file or after the delete

VARIABLES
    file,           \* "<file>" and "<file>.tmp"; "gone" is any deleted file
    job, pc, buf,   \* per call: its job, its await, the items it will write
    at              \* the file that its open descriptor belongs to

call == <<job, pc, buf>>
vars == <<file, call, at>>

Init ==
    /\ file = [name \in {"main", "staged", "gone"} |-> Missing]
    /\ job = [c \in Calls |-> NoJob]
    /\ pc = [c \in Calls |-> "idle"]
    /\ buf = [c \in Calls |-> {}]
    /\ at = [c \in Calls |-> "none"]
-----------------------------------------------------------------------------
\* What a call makes of the items it found.
Edited(j, items) ==
    CASE j.kind = "put"    -> {j.id}
      [] j.kind = "add"    -> items \cup {j.id}
      [] j.kind = "remove" -> items \ {j.id}
      [] j.kind = "clear"  -> {}

Goto(c, await) ==
    /\ pc' = [pc EXCEPT ![c] = await]
    /\ UNCHANGED <<job, buf>>

\* The call returns, or throws and its caller shows that or ignores it.
Ends(c) ==
    /\ job' = [job EXCEPT ![c] = NoJob]
    /\ pc' = [pc EXCEPT ![c] = "idle"]
    /\ buf' = [buf EXCEPT ![c] = {}]

\* The items to write are known; writeAsString is next.
Compose(c, items) ==
    /\ buf' = [buf EXCEPT ![c] = Edited(job[c], items)]
    /\ pc' = [pc EXCEPT ![c] = "open"]
    /\ UNCHANGED job
-----------------------------------------------------------------------------
Begin(c) ==
    /\ job[c] = NoJob
    /\ Serial => \A d \in Calls : job[d] = NoJob
    /\ \E j \in Jobs :
          /\ job' = [job EXCEPT ![c] = j]
          /\ buf' = [buf EXCEPT ![c] = IF j.kind = "put" THEN Edited(j, {}) ELSE {}]
          /\ pc' = [pc EXCEPT ![c] = CASE j.kind = "put"   -> "open"
                                       [] j.kind = "clear" -> "check"
                                       [] OTHER            -> "exists"]
    /\ UNCHANGED <<file, at>>

\* `_read`: no file is an empty list.
LookForFile(c) ==
    /\ pc[c] = "exists"
    /\ IF file["main"] = Missing THEN Compose(c, {}) ELSE Goto(c, "read")
    /\ UNCHANGED <<file, at>>

\* Mutant: the list that was read is not kept.
ReadForgets(c) ==
    /\ pc[c] = "read"
    /\ Compose(c, {})
    /\ UNCHANGED <<file, at>>

\* readAsString and jsonDecode: an empty text is an empty list (of simulations;
\* the document evidence throws), a torn file or one that is gone by now throws.
ReadFile(c) ==
    /\ pc[c] = "read"
    /\ IF file["main"].form \in {"whole", "empty"}
       THEN Compose(c, file["main"].items) ELSE Ends(c)
    /\ UNCHANGED <<file, at>>

\* Mutant: the file itself is opened for writing.
OpenInPlace(c) ==
    /\ pc[c] = "open"
    /\ file' = [file EXCEPT !["main"] = Broken("empty")]
    /\ at' = [at EXCEPT ![c] = "main"]
    /\ Goto(c, "write")

\* writeAsString opens: it creates the file, or truncates the one that is there
\* whoever else is writing it.
OpenStaged(c) ==
    /\ pc[c] = "open"
    /\ file' = [file EXCEPT !["staged"] = Broken("empty")]
    /\ at' = [at EXCEPT ![c] = "staged"]
    /\ Goto(c, "write")

\* What a descriptor's file becomes: over another call's text it may be torn.
Overwritten(text, items) ==
    CASE text.form = "missing" -> {Missing}
      [] text.form = "empty"   -> {Whole(items)}
      [] OTHER                 -> {Whole(items), Broken("torn")}

\* Mutant: the file is not closed before it is renamed.
WriteUnclosed(c) ==
    /\ pc[c] = "write"
    /\ \E text \in Overwritten(file[at[c]], buf[c]) :
           file' = [file EXCEPT ![at[c]] = text]
    /\ UNCHANGED at
    /\ Goto(c, "check")

WriteStaged(c) ==
    /\ pc[c] = "write"
    /\ \E text \in Overwritten(file[at[c]], buf[c]) :
           file' = [file EXCEPT ![at[c]] = text]
    /\ at' = [at EXCEPT ![c] = "none"]
    /\ Goto(c, "check")

CheckFile(c) ==
    /\ pc[c] = "check"
    /\ \/ file["main"] # Missing /\ Goto(c, "delete")
       \/ file["main"] = Missing /\ job[c].kind = "clear" /\ Ends(c)
       \/ file["main"] = Missing /\ job[c].kind # "clear" /\ Goto(c, "create")
    /\ UNCHANGED <<file, at>>

\* Deleting a file that another call has deleted throws.
DeleteFile(c) ==
    /\ pc[c] = "delete"
    /\ file' = [file EXCEPT !["main"] = Missing]
    /\ at' = [d \in Calls |-> IF at[d] = "main" THEN "gone" ELSE at[d]]
    /\ IF file["main"] = Missing \/ job[c].kind = "clear"
       THEN Ends(c) ELSE Goto(c, "replace")

\* Renaming one that another call has renamed throws too.
RenameStaged(c) ==
    /\ pc[c] \in {"create", "replace"}
    /\ IF file["staged"] = Missing THEN UNCHANGED <<file, at>>
       ELSE /\ file' = [file EXCEPT !["main"] = file["staged"], !["staged"] = Missing]
            /\ at' = [d \in Calls |-> CASE at[d] = "staged" -> "main"
                                        [] at[d] = "main"   -> "gone"
                                        [] OTHER            -> at[d]]
    /\ Ends(c)
-----------------------------------------------------------------------------
\* The text of an interrupted write.
Interrupted(text) == IF text = Missing THEN {text} ELSE {text, Broken("torn")}

\* The disk is full, or another error of the file system: the call throws.
IoError(c) ==
    /\ "error" \in Troubles /\ pc[c] # "idle"
    /\ IF pc[c] # "write" THEN UNCHANGED file
       ELSE \E text \in Interrupted(file[at[c]]) : file' = [file EXCEPT ![at[c]] = text]
    /\ at' = [at EXCEPT ![c] = "none"]
    /\ Ends(c)

\* Android kills the process.
Killed ==
    /\ "death" \in Troubles
    /\ \E names \in SUBSET {at[c] : c \in {d \in Calls : pc[d] = "write"}} :
          file' = [name \in DOMAIN file |->
                     IF name \in names /\ file[name] # Missing
                     THEN Broken("torn") ELSE file[name]]
    /\ job' = [c \in Calls |-> NoJob]
    /\ pc' = [c \in Calls |-> "idle"]
    /\ buf' = [c \in Calls |-> {}]
    /\ at' = [c \in Calls |-> "none"]

Step(c) ==
    \/ LookForFile(c) \/ ReadFile(c) \/ OpenStaged(c) \/ WriteStaged(c)
    \/ CheckFile(c) \/ DeleteFile(c) \/ RenameStaged(c)

Next == (\E c \in Calls : Begin(c) \/ Step(c) \/ IoError(c)) \/ Killed

Spec == Init /\ [][Next]_vars
-----------------------------------------------------------------------------
(* Properties.                                                             *)

\* Each file has a form, a call is at one of its awaits with a job, and an open
\* descriptor belongs to a file that has been truncated or written.
FileType ==
    /\ file \in [{"main", "staged", "gone"} -> Texts]
    /\ \A name \in {"main", "staged"} :
          file[name].form # "whole" => file[name].items = {}
    /\ file["gone"] = Missing
CallType ==
    /\ job \in [Calls -> Jobs \cup {NoJob}]
    /\ pc \in [Calls -> Awaits]
    /\ buf \in [Calls -> SUBSET Ids]
    /\ at \in [Calls -> {"none", "staged", "main", "gone"}]
    /\ \A c \in Calls :
          /\ job[c] = NoJob <=> pc[c] = "idle"
          /\ at[c] # "none" <=> pc[c] = "write"
          /\ at[c] \in {"staged", "main"} => file[at[c]] # Missing
TypeOK == FileType /\ CallType

\* "Uses a temporary file and rename so as never to leave data partially written"
\* (LocalSimulationRepository): when no call is in flight, or the process has
\* died, the file is absent or complete.
NeverLeftPartial ==
    (\A c \in Calls : pc[c] = "idle") => file["main"].form \in {"missing", "whole"}

\* What the file stands for; once a call has deleted the old file to replace it,
\* that is what the call staged, and the call has taken effect.
Replacing == \E c \in Calls : pc[c] = "replace"
Value == IF Replacing THEN file["staged"].items ELSE file["main"].items
Asked == [c \in Calls |-> IF pc[c] = "replace" THEN NoJob ELSE job[c]]

Store == INSTANCE JsonStore WITH value <- Value, asked <- Asked

\* Of calls that wait for each other, each changes the stored items once, by what
\* it was asked for; one that is interrupted keeps them all or loses them all.
EditsOrLosesAll == Store!Spec

\* "Progress is atomically written": an interrupted call changes nothing.
Atomic == Store!AtomicSpec
=============================================================================
