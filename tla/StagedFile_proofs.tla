-------------------------- MODULE StagedFile_proofs --------------------------
(***************************************************************************)
(* The types of StagedFile, for calls that overlap in any way: where each  *)
(* open descriptor points when files are deleted and renamed under it.     *)
(***************************************************************************)
EXTENDS StagedFile, TLAPS

\* The text that a write leaves behind, whether it ends or not.
LEMMA WrittenText ==
  ASSUME NEW text \in Texts, NEW items \in SUBSET Ids,
         NEW new \in Overwritten(text, items) \cup Interrupted(text),
         text.form # "whole" => text.items = {}
  PROVE  /\ new \in Texts
         /\ new.form # "whole" => new.items = {}
         /\ new = Missing <=> text = Missing
         /\ text = Broken("empty") /\ new \in Overwritten(text, items) => new = Whole(items)
<1>1. text.form = "missing" <=> text = Missing
  BY DEF Texts, Missing, Broken
<1>2. CASE new \in Overwritten(text, items)
  <2>1. CASE text.form = "missing"
    BY <1>1, <1>2, <2>1 DEF Overwritten, Texts, Missing, Broken
  <2>2. CASE text.form = "empty"
    BY <1>1, <1>2, <2>2 DEF Overwritten, Texts, Missing, Broken, Whole
  <2>3. CASE text.form \notin {"missing", "empty"}
    BY <1>1, <1>2, <2>3 DEF Overwritten, Texts, Missing, Broken, Whole
  <2> QED BY <2>1, <2>2, <2>3
<1>3. CASE new \in Interrupted(text) /\ new \notin Overwritten(text, items)
  BY <1>1, <1>3 DEF Interrupted, Texts, Missing, Broken
<1> QED BY <1>2, <1>3

\* A file keeps its place in the types when a write changes its text.
SameKind(new, text) ==
    /\ new \in Texts
    /\ new.form # "whole" => new.items = {}
    /\ new = Missing <=> text = Missing

LEMMA FileTypeKept ==
  ASSUME FileType, NEW name \in {"main", "staged", "gone"}, NEW text,
         SameKind(text, file[name]), file' = [file EXCEPT ![name] = text]
  PROVE  FileType' /\ \A n \in DOMAIN file : file'[n] = Missing <=> file[n] = Missing
<1>1. file' \in [{"main", "staged", "gone"} -> Texts]
  BY DEF FileType, SameKind
<1>2. \A n \in {"main", "staged", "gone"} : file'[n] = IF n = name THEN text ELSE file[n]
  BY DEF FileType
<1>3. Missing.items = {}
  BY DEF Missing, Broken
<1> QED BY <1>1, <1>2, <1>3 DEF FileType, SameKind

LEMMA TypeStep == TypeOK /\ [Next]_vars => TypeOK'
<1> SUFFICES ASSUME TypeOK, [Next]_vars PROVE TypeOK'
  OBVIOUS
<1> USE DEF TypeOK, FileType, CallType, Texts, Awaits, Missing, Broken, Whole, NoJob, Jobs
<1>1. ASSUME NEW c \in Calls, Begin(c) PROVE TypeOK'
  BY <1>1, FileAssumption DEF Begin, Edited
<1>2. ASSUME NEW c \in Calls, NEW items \in SUBSET Ids, job[c] # NoJob
      PROVE  Edited(job[c], items) \in SUBSET Ids
  BY <1>2, FileAssumption DEF Edited
<1>3. ASSUME NEW c \in Calls, Step(c) PROVE TypeOK'
  <2>1. CASE LookForFile(c)
    BY <2>1, <1>2 DEF LookForFile, Compose, Goto
  <2>2. CASE ReadFile(c)
    BY SMTT(20), <2>2, <1>2 DEF ReadFile, Compose, Ends
  <2>3. CASE OpenStaged(c)
    BY <2>3 DEF OpenStaged, Goto
  <2>4. CASE WriteStaged(c)
    <3>1. PICK text \in Overwritten(file[at[c]], buf[c]) :
             file' = [file EXCEPT ![at[c]] = text]
      BY <2>4 DEF WriteStaged
    <3>2. /\ at[c] \in {"main", "staged", "gone"} /\ buf[c] \in SUBSET Ids
          /\ file[at[c]] \in Texts
          /\ file[at[c]].form # "whole" => file[at[c]].items = {}
      BY <2>4 DEF WriteStaged
    <3>3. SameKind(text, file[at[c]])
      <4> HIDE DEF TypeOK, FileType, CallType, Texts, Missing
      <4> QED BY <3>1, <3>2, WrittenText DEF SameKind
    <3>4. FileType' /\ \A name \in DOMAIN file : file'[name] = Missing <=> file[name] = Missing
      BY <3>1, <3>2, <3>3, FileTypeKept
    <3>5. CallType'
      <4>1. /\ job' = job /\ buf' = buf /\ pc[c] = "write"
            /\ at' = [at EXCEPT ![c] = "none"] /\ pc' = [pc EXCEPT ![c] = "check"]
        BY <2>4 DEF WriteStaged, Goto
      <4>2. \A d \in Calls : at'[d] \in {"staged", "main"} => at'[d] = at[d] /\ at[d] \in DOMAIN file
        BY <4>1
      <4> HIDE DEF FileType, Texts, Missing, Broken, Whole, NoJob, Jobs
      <4> QED BY <3>4, <4>1, <4>2
    <3> QED BY <3>4, <3>5
  <2>5. CASE CheckFile(c)
    BY <2>5 DEF CheckFile, Goto, Ends
  <2>6. CASE DeleteFile(c)
    BY SMTT(20), <2>6 DEF DeleteFile, Goto, Ends
  <2>7. CASE RenameStaged(c)
    <3>0. ASSUME file["staged"] # Missing PROVE FileType'
      <4>1. file' = [file EXCEPT !["main"] = file["staged"], !["staged"] = Missing]
        BY <2>7, <3>0 DEF RenameStaged
      <4>2. /\ file' \in [{"main", "staged", "gone"} -> Texts]
            /\ file'["main"] = file["staged"] /\ file'["staged"] = Missing
            /\ file'["gone"] = Missing
        BY <4>1
      <4>3. /\ file'["main"].form # "whole" => file'["main"].items = {}
            /\ file'["staged"].items = {}
        BY <4>2
      <4> HIDE DEF Texts, Missing, Broken
      <4> QED BY <4>2, <4>3 DEF FileType
    <3>1. FileType'
      BY <2>7, <3>0 DEF RenameStaged
    <3>2. CASE file["staged"] = Missing
      BY <2>7, <3>1, <3>2 DEF RenameStaged, Ends
    <3>3. CASE file["staged"] # Missing
      <4>1. \A d \in Calls : /\ at[d] = "staged" => at'[d] = "main"
                             /\ at[d] = "main" => at'[d] = "gone"
                             /\ at[d] \in {"none", "gone"} => at'[d] = at[d]
        BY <2>7, <3>3 DEF RenameStaged
      <4>2. file'["main"] # Missing /\ at' \in [Calls -> {"none", "staged", "main", "gone"}]
        BY <2>7, <3>3, <4>1 DEF RenameStaged
      <4>3. \A d \in Calls : pc[d] # "write" => at'[d] = "none"
        BY <2>7, <3>3 DEF RenameStaged
      <4>4. pc[c] # "write"
        BY <2>7 DEF RenameStaged
      <4>5. job' = [job EXCEPT ![c] = NoJob] /\ pc' = [pc EXCEPT ![c] = "idle"]
            /\ buf' = [buf EXCEPT ![c] = {}]
        BY <2>7 DEF RenameStaged, Ends
      <4>6. \A d \in Calls : job'[d] = NoJob <=> pc'[d] = "idle"
        BY <4>5
      <4>7. \A d \in Calls : /\ at'[d] # "none" <=> pc'[d] = "write"
                             /\ at'[d] \in {"staged", "main"} => file'[at'[d]] # Missing
        BY <4>1, <4>2, <4>3, <4>4, <4>5
      <4> QED BY <3>1, <4>2, <4>5, <4>6, <4>7
    <3> QED BY <3>2, <3>3
  <2> QED BY <1>3, <2>1, <2>2, <2>3, <2>4, <2>5, <2>6, <2>7 DEF Step
<1>4. ASSUME NEW c \in Calls, IoError(c) PROVE TypeOK'
  <2>1. CASE pc[c] # "write"
    BY <1>4, <2>1 DEF IoError, Ends
  <2>2. CASE pc[c] = "write"
    <3>1. PICK text \in Interrupted(file[at[c]]) : file' = [file EXCEPT ![at[c]] = text]
      BY <1>4, <2>2 DEF IoError
    <3>2. /\ at[c] \in {"main", "staged", "gone"} /\ buf[c] \in SUBSET Ids
          /\ file[at[c]] \in Texts
          /\ file[at[c]].form # "whole" => file[at[c]].items = {}
      BY <2>2
    <3>3. SameKind(text, file[at[c]])
      <4> HIDE DEF TypeOK, FileType, CallType, Texts, Missing
      <4> QED BY <3>1, <3>2, WrittenText DEF SameKind
    <3>4. FileType' /\ \A name \in DOMAIN file : file'[name] = Missing <=> file[name] = Missing
      BY <3>1, <3>2, <3>3, FileTypeKept
    <3>5. CallType'
      BY ZenonT(20), <1>4, <3>2, <3>4 DEF IoError, Ends
    <3> QED BY <3>4, <3>5
  <2> QED BY <2>1, <2>2
<1>5. CASE Killed
  BY <1>5 DEF Killed
<1>6. CASE UNCHANGED vars
  BY <1>6 DEF vars, call
<1> QED BY <1>1, <1>3, <1>4, <1>5, <1>6 DEF Next

\* The files and the calls keep their types, however many calls overlap.
THEOREM TypeCorrect == Spec => []TypeOK
<1>1. Init => TypeOK
  BY DEF Init, TypeOK, FileType, CallType, Texts, Awaits, Missing, Broken, NoJob, Jobs
<1> QED BY <1>1, TypeStep, PTL DEF Spec
=============================================================================
