------------------------ MODULE EvidenceWriterProofs ------------------------
(***************************************************************************)
(* Proofs about EvidenceWriter, for any number of runs and documents.      *)
(*                                                                         *)
(* That documents are complete rests on what a run has staged              *)
(* (StagedSoFar, StagedComplete) and holds for runs at the same time too.  *)
(* That they are of one run and never replaced rests on Places: what a run *)
(* has found free or renamed itself; nobody else writes there meanwhile    *)
(* (Alone), which is where the assumption of sequential runs enters.       *)
(***************************************************************************)
EXTENDS EvidenceWriter, TLAPS

StagedSoFar ==
    \A w \in Writers :
        /\ pc[w] = "idle" => at[w] = 1 /\ staged[w] = {}
        /\ pc[w] \in {"stage", "write"} => staged[w] = 1..(at[w] - 1)

StagedComplete == \A t \in temps : t.of \in staged[t.by] => t.complete

StagedInv == TypeOK /\ StagedSoFar /\ StagedComplete /\ DocumentsAreComplete

Alone == \A v, w \in Writers : Running(v) /\ Running(w) => v = w

FoundFree(w) ==
    /\ pc[w] \in {"stage", "write"} => \A d \in 1..(at[w] - 1) : files[d] = Absent
    /\ pc[w] = "write" => files[at[w]] = Absent

RenamedHere(w) ==
    pc[w] = "rename" =>
        \A d \in Documents :
            IF d < at[w] THEN files[d] # Absent /\ files[d][1] = w ELSE files[d] = Absent

Places == \A w \in Writers : FoundFree(w) /\ RenamedHere(w)

SealedInv == Alone /\ Places /\ OneRunsEvidence

-----------------------------------------------------------------------------
(***************************************************************************)
(* Runs at the same time or not: types and completeness.                   *)
(***************************************************************************)
LEMMA InitStaged == Init => StagedInv
<1> SUFFICES ASSUME Init PROVE StagedInv
  OBVIOUS
<1> USE WriterAssumption DEF Init
<1>1. TypeOK
  BY DEF TypeOK, Pcs, Documents
<1>2. StagedSoFar /\ StagedComplete /\ DocumentsAreComplete
  BY DEF StagedSoFar, StagedComplete, DocumentsAreComplete
<1>3. QED
  BY <1>1, <1>2 DEF StagedInv

LEMMA TempType ==
    ASSUME NEW w \in Writers, NEW d \in Documents, NEW b \in BOOLEAN
    PROVE  Temp(w, d, b) \in TempFiles
BY DEF Temp, TempFiles

LEMMA StepTypeOK == TypeOK /\ [Next]_vars => TypeOK'
<1> SUFFICES ASSUME TypeOK, [Next]_vars PROVE TypeOK'
  OBVIOUS
<1> USE WriterAssumption DEF TypeOK, disk, Goto, Pcs
<1>1. ASSUME NEW w \in Writers, Begin(w) PROVE TypeOK'
  BY <1>1 DEF Begin
<1>2. ASSUME NEW w \in Writers, Refuse(w) PROVE TypeOK'
  BY <1>2 DEF Refuse
<1>3. ASSUME NEW w \in Writers, CreateTemp(w) PROVE TypeOK'
  BY <1>3, TempType DEF CreateTemp
<1>4. ASSUME NEW w \in Writers, Write(w) PROVE TypeOK'
  <2>1. temps' \subseteq TempFiles
    BY <1>4, TempType DEF Write
  <2>2. at' \in [Writers -> Documents]
    BY <1>4 DEF Write, Advance, Documents
  <2>3. QED
    BY <1>4, <2>1, <2>2 DEF Write, Advance
<1>5. ASSUME NEW w \in Writers, Rename(w) PROVE TypeOK'
  <2>1. files' \in [Documents -> Contents \cup {Absent}]
    BY <1>5 DEF Rename, TempFiles, Contents
  <2>2. at' \in [Writers -> Documents]
    BY <1>5 DEF Rename, Advance, Documents
  <2>3. QED
    BY <1>5, <2>1, <2>2 DEF Rename, Advance
<1>6. ASSUME NEW w \in Writers, Raise(w) PROVE TypeOK'
  BY <1>6 DEF Raise
<1>7. ASSUME NEW w \in Writers, CleanUp(w) PROVE TypeOK'
  BY <1>7 DEF CleanUp
<1>8. ASSUME NEW w \in Writers, Crash(w) PROVE TypeOK'
  BY <1>8 DEF Crash
<1>9. CASE UNCHANGED vars
  BY <1>9 DEF vars
<1>10. QED
  BY <1>1, <1>2, <1>3, <1>4, <1>5, <1>6, <1>7, <1>8, <1>9 DEF Next

LEMMA StepStagedSoFar == TypeOK /\ StagedSoFar /\ [Next]_vars => StagedSoFar'
<1> SUFFICES ASSUME TypeOK, StagedSoFar, [Next]_vars PROVE StagedSoFar'
  OBVIOUS
<1> USE WriterAssumption DEF TypeOK, StagedSoFar, disk, Goto
<1>1. ASSUME NEW w \in Writers, Begin(w) PROVE StagedSoFar'
  <2>1. at[w] = 1 /\ staged[w] = {} /\ staged' = staged /\ at' = at
    BY <1>1 DEF Begin
  <2>2. pc'[w] = "stage" /\ \A v \in Writers \ {w} : pc'[v] = pc[v]
    BY <1>1 DEF Begin
  <2>3. 1..(1 - 1) = {}
    OBVIOUS
  <2>4. QED
    BY <2>1, <2>2, <2>3
<1>2. ASSUME NEW w \in Writers, Refuse(w) \/ Raise(w) \/ CleanUp(w) \/ Crash(w)
      PROVE StagedSoFar'
  BY <1>2 DEF Refuse, Raise, CleanUp, Crash
<1>3. ASSUME NEW w \in Writers, CreateTemp(w) PROVE StagedSoFar'
  BY <1>3 DEF CreateTemp
<1>4. ASSUME NEW w \in Writers, Write(w) PROVE StagedSoFar'
  <2>1. at[w] \in Documents /\ staged[w] = 1..(at[w] - 1)
    BY <1>4 DEF Write
  <2>2. staged'[w] = 1..at[w]
    BY <1>4, <2>1 DEF Write, Documents
  <2>3. at[w] # Last => at'[w] = at[w] + 1
    BY <1>4 DEF Write, Advance
  <2>4. pc'[w] = IF at[w] = Last THEN "rename" ELSE "stage"
    BY <1>4 DEF Write, Advance
  <2>5. at[w] # Last => staged'[w] = 1..(at'[w] - 1)
    BY <2>1, <2>2, <2>3 DEF Documents
  <2>6. ASSUME NEW v \in Writers, v # w
        PROVE pc'[v] = pc[v] /\ at'[v] = at[v] /\ staged'[v] = staged[v]
    BY <1>4, <2>6 DEF Write, Advance
  <2>7. QED
    BY <2>4, <2>5, <2>6
<1>5. ASSUME NEW w \in Writers, Rename(w) PROVE StagedSoFar'
  BY <1>5 DEF Rename, Advance
<1>6. CASE UNCHANGED vars
  BY <1>6 DEF vars
<1>7. QED
  BY <1>1, <1>2, <1>3, <1>4, <1>5, <1>6 DEF Next

LEMMA StepStagedComplete ==
    TypeOK /\ StagedSoFar /\ StagedComplete /\ [Next]_vars => StagedComplete'
<1> SUFFICES ASSUME TypeOK, StagedSoFar, StagedComplete, [Next]_vars PROVE StagedComplete'
  OBVIOUS
<1> USE WriterAssumption DEF TypeOK, StagedComplete, disk, Goto
<1>1. ASSUME NEW w \in Writers, Begin(w) \/ Refuse(w) \/ Raise(w) \/ CleanUp(w) \/ Crash(w)
      PROVE StagedComplete'
  BY <1>1 DEF Begin, Refuse, Raise, CleanUp, Crash
<1>2. ASSUME NEW w \in Writers, CreateTemp(w) PROVE StagedComplete'
  \* The new file is of a document that the run has not staged.
  <2>1. at[w] \notin staged[w]
    BY <1>2 DEF CreateTemp, StagedSoFar, Documents
  <2>2. QED
    BY <1>2, <2>1 DEF CreateTemp, Temp
<1>3. ASSUME NEW w \in Writers, Write(w) PROVE StagedComplete'
  <2> SUFFICES ASSUME NEW t \in temps', t.of \in staged'[t.by] PROVE t.complete
    OBVIOUS
  <2>1. CASE t = Temp(w, at[w], TRUE)
    BY <2>1 DEF Temp
  <2>2. CASE t \in temps /\ t # Temp(w, at[w], FALSE)
    <3>1. t \in TempFiles
      BY <2>2
    <3>2. CASE t.by = w /\ t.of = at[w]
      BY <2>2, <3>1, <3>2 DEF Temp, TempFiles
    <3>3. CASE ~(t.by = w /\ t.of = at[w])
      <4>1. t.of \in staged[t.by]
        BY <1>3, <3>1, <3>3 DEF Write, TempFiles
      <4>2. QED
        BY <2>2, <4>1
    <3>4. QED
      BY <3>2, <3>3
  <2>3. QED
    BY <1>3, <2>1, <2>2 DEF Write
<1>4. ASSUME NEW w \in Writers, Rename(w) PROVE StagedComplete'
  BY <1>4 DEF Rename
<1>5. CASE UNCHANGED vars
  BY <1>5 DEF vars
<1>6. QED
  BY <1>1, <1>2, <1>3, <1>4, <1>5 DEF Next

LEMMA StepComplete ==
    TypeOK /\ StagedComplete /\ DocumentsAreComplete /\ [Next]_vars => DocumentsAreComplete'
<1> SUFFICES ASSUME TypeOK, StagedComplete, DocumentsAreComplete, [Next]_vars
             PROVE DocumentsAreComplete'
  OBVIOUS
<1> USE DEF DocumentsAreComplete, disk
<1>1. ASSUME NEW w \in Writers, Rename(w) PROVE DocumentsAreComplete'
  <2>1. PICK t \in temps : /\ t.by = w /\ t.of = at[w] /\ at[w] \in staged[w]
                           /\ files' = [files EXCEPT ![at[w]] = <<w, t.complete>>]
    BY <1>1 DEF Rename
  <2>2. t.complete
    BY <2>1 DEF StagedComplete
  <2>3. QED
    BY <2>1, <2>2 DEF TypeOK
<1>2. ASSUME UNCHANGED files PROVE DocumentsAreComplete'
  BY <1>2
<1>3. QED
  BY <1>1, <1>2 DEF Next, Begin, Refuse, CreateTemp, Write, Raise, CleanUp, Crash, vars

LEMMA StepStaged == StagedInv /\ [Next]_vars => StagedInv'
BY StepTypeOK, StepStagedSoFar, StepStagedComplete, StepComplete DEF StagedInv

LEMMA Staged == Spec => []StagedInv
BY InitStaged, StepStaged, PTL DEF Spec

\* Type correctness.
THEOREM TypeCorrect == Spec => []TypeOK
<1>1. StagedInv => TypeOK
  BY DEF StagedInv
<1>2. QED
  BY Staged, <1>1, PTL

\* A document under its final name is complete, whatever fails or crashes and
\* however many runs there are at the same time.
THEOREM CompleteDocuments == Spec => []DocumentsAreComplete
<1>1. StagedInv => DocumentsAreComplete
  BY DEF StagedInv
<1>2. QED
  BY Staged, <1>1, PTL

-----------------------------------------------------------------------------
(***************************************************************************)
(* Runs one after the other.                                               *)
(***************************************************************************)
LEMMA InitSealed == Init => SealedInv
BY DEF Init, SealedInv, Alone, Places, FoundFree, RenamedHere, OneRunsEvidence, Running

LEMMA StepAlone == ASSUME Sequential PROVE TypeOK /\ Alone /\ [Next]_vars => Alone'
<1> SUFFICES ASSUME TypeOK, Alone, [Next]_vars PROVE Alone'
  OBVIOUS
<1> USE DEF TypeOK, Alone, Running, Goto
<1>1. ASSUME NEW w \in Writers, Begin(w) PROVE Alone'
  BY <1>1 DEF Begin
<1>2. ASSUME NEW w \in Writers, Running(w), \A v \in Writers \ {w} : pc'[v] = pc[v]
      PROVE Alone'
  BY <1>2
<1>3. ASSUME NEW w \in Writers,
             Refuse(w) \/ CreateTemp(w) \/ Write(w) \/ Rename(w)
                 \/ Raise(w) \/ CleanUp(w) \/ Crash(w)
      PROVE Running(w) /\ \A v \in Writers \ {w} : pc'[v] = pc[v]
  BY <1>3 DEF Refuse, CreateTemp, Write, Rename, Advance, Raise, CleanUp, Crash
<1>4. CASE UNCHANGED vars
  BY <1>4 DEF vars
<1>5. QED
  BY <1>1, <1>2, <1>3, <1>4 DEF Next

\* Once a run is done, and before it begins, it claims no places; while another
\* one goes on, it is not going on itself.
LEMMA NoPlaces ==
    ASSUME NEW v \in Writers, pc'[v] \notin {"stage", "write", "rename"}
    PROVE  FoundFree(v)' /\ RenamedHere(v)'
BY DEF FoundFree, RenamedHere

LEMMA OthersPlaces ==
    ASSUME Alone, NEW w \in Writers, Running(w), NEW v \in Writers, v # w, pc'[v] = pc[v]
    PROVE  FoundFree(v)' /\ RenamedHere(v)'
<1>1. pc'[v] \notin {"stage", "write", "rename"}
  BY DEF Alone, Running
<1>2. QED
  BY <1>1, NoPlaces

LEMMA StepPlaces ==
    ASSUME Sequential
    PROVE  TypeOK /\ StagedSoFar /\ Alone /\ Places /\ [Next]_vars => Places'
<1> SUFFICES ASSUME TypeOK, StagedSoFar, Alone, Places, [Next]_vars PROVE Places'
  OBVIOUS
<1> USE WriterAssumption DEF Goto, disk
<1>1. ASSUME NEW w \in Writers, Begin(w) PROVE Places'
  <2>1. at'[w] = 1 /\ pc'[w] = "stage"
    BY <1>1 DEF Begin, StagedSoFar, TypeOK
  <2>2. FoundFree(w)' /\ RenamedHere(w)'
    BY <2>1 DEF FoundFree, RenamedHere
  <2>3. ASSUME NEW v \in Writers, v # w PROVE FoundFree(v)' /\ RenamedHere(v)'
    BY <1>1, <2>3, NoPlaces DEF Begin, Running, TypeOK
  <2>4. QED
    BY <2>2, <2>3 DEF Places
<1>2. ASSUME NEW w \in Writers, Running(w), FoundFree(w)' /\ RenamedHere(w)',
             \A v \in Writers \ {w} : pc'[v] = pc[v]
      PROVE Places'
  BY <1>2, OthersPlaces DEF Places
<1>3. ASSUME NEW w \in Writers, Refuse(w) \/ Raise(w) \/ CleanUp(w) \/ Crash(w) PROVE Places'
  <2>1. Running(w) /\ \A v \in Writers \ {w} : pc'[v] = pc[v]
    BY <1>3 DEF Refuse, Raise, CleanUp, Crash, Running, TypeOK
  <2>2. pc'[w] \notin {"stage", "write", "rename"}
    BY <1>3 DEF Refuse, Raise, CleanUp, Crash, TypeOK
  <2>3. QED
    BY <1>2, <2>1, <2>2, NoPlaces
<1>4. ASSUME NEW w \in Writers, CreateTemp(w) PROVE Places'
  <2>1. Running(w) /\ \A v \in Writers \ {w} : pc'[v] = pc[v]
    BY <1>4 DEF CreateTemp, Running, TypeOK
  <2>2. FoundFree(w)' /\ RenamedHere(w)'
    BY <1>4 DEF CreateTemp, FoundFree, RenamedHere, Places, TypeOK
  <2>3. QED
    BY <1>2, <2>1, <2>2
<1>5. ASSUME NEW w \in Writers, Write(w) PROVE Places'
  <2>1. Running(w) /\ \A v \in Writers \ {w} : pc'[v] = pc[v]
    BY <1>5 DEF Write, Advance, Running, TypeOK
  <2>2. at[w] \in Documents /\ \A d \in 1..at[w] : files[d] = Absent
    BY <1>5 DEF Write, Places, FoundFree, TypeOK, Documents
  <2>3. files' = files /\ pc'[w] = IF at[w] = Last THEN "rename" ELSE "stage"
    BY <1>5 DEF Write, Advance, TypeOK
  <2>4. at'[w] = IF at[w] = Last THEN 1 ELSE at[w] + 1
    BY <1>5 DEF Write, Advance, TypeOK
  <2>5. FoundFree(w)'
    BY <2>2, <2>3, <2>4 DEF FoundFree, Documents
  <2>6. RenamedHere(w)'
    BY <2>2, <2>3, <2>4 DEF RenamedHere, Documents
  <2>7. QED
    BY <1>2, <2>1, <2>5, <2>6
<1>6. ASSUME NEW w \in Writers, Rename(w) PROVE Places'
  <2>1. Running(w) /\ \A v \in Writers \ {w} : pc'[v] = pc[v]
    BY <1>6 DEF Rename, Advance, Running, TypeOK
  <2>2. PICK b \in BOOLEAN : files' = [files EXCEPT ![at[w]] = <<w, b>>]
    BY <1>6 DEF Rename, TypeOK, TempFiles
  <2>3. pc[w] = "rename" /\ pc'[w] = IF at[w] = Last THEN "done" ELSE "rename"
    BY <1>6 DEF Rename, Advance, TypeOK
  <2>4. at[w] \in Documents /\ at'[w] = IF at[w] = Last THEN 1 ELSE at[w] + 1
    BY <1>6 DEF Rename, Advance, TypeOK
  <2>5. <<w, b>> # Absent
    OBVIOUS
  <2>6. RenamedHere(w)'
    <3> SUFFICES ASSUME at[w] # Last, NEW d \in Documents
                 PROVE  IF d < at[w] + 1 THEN files'[d] # Absent /\ files'[d][1] = w
                                         ELSE files'[d] = Absent
      BY <2>3, <2>4 DEF RenamedHere
    <3>1. IF d < at[w] THEN files[d] # Absent /\ files[d][1] = w ELSE files[d] = Absent
      BY <2>3 DEF Places, RenamedHere
    <3>2. files'[d] = IF d = at[w] THEN <<w, b>> ELSE files[d]
      BY <2>2 DEF TypeOK
    <3>3. QED
      BY <2>4, <2>5, <3>1, <3>2 DEF Documents
  <2>7. FoundFree(w)'
    BY <2>3 DEF FoundFree
  <2>8. QED
    BY <1>2, <2>1, <2>6, <2>7
<1>7. CASE UNCHANGED vars
  BY <1>7 DEF vars, Places, FoundFree, RenamedHere
<1>8. QED
  BY <1>1, <1>3, <1>4, <1>5, <1>6, <1>7 DEF Next

\* A run renames onto places it has found free, after its own documents only.
LEMMA RenameOnFree ==
    ASSUME TypeOK, Places, NEW w \in Writers, Rename(w)
    PROVE  /\ at[w] \in Documents /\ files[at[w]] = Absent
           /\ \A d \in Documents : files[d] # Absent => files[d][1] = w
           /\ \E b \in BOOLEAN : files' = [files EXCEPT ![at[w]] = <<w, b>>]
<1>1. pc[w] = "rename" /\ at[w] \in Documents
  BY DEF Rename, TypeOK
<1>2. \A d \in Documents :
         IF d < at[w] THEN files[d] # Absent /\ files[d][1] = w ELSE files[d] = Absent
  BY <1>1 DEF Places, RenamedHere
<1>3. files[at[w]] = Absent
  BY <1>1, <1>2 DEF Documents
<1>4. \A d \in Documents : files[d] # Absent => files[d][1] = w
  BY <1>2
<1>5. QED
  BY <1>1, <1>3, <1>4 DEF Rename, TypeOK, TempFiles

LEMMA OtherStepsKeepFiles ==
    ASSUME [Next]_vars, ~\E w \in Writers : Rename(w)
    PROVE  files' = files
BY DEF Next, Begin, Refuse, CreateTemp, Write, Raise, CleanUp, Crash, vars, disk

LEMMA StepOneRun == TypeOK /\ Places /\ OneRunsEvidence /\ [Next]_vars => OneRunsEvidence'
<1> SUFFICES ASSUME TypeOK, Places, OneRunsEvidence, [Next]_vars PROVE OneRunsEvidence'
  OBVIOUS
<1>1. ASSUME NEW w \in Writers, Rename(w) PROVE OneRunsEvidence'
  <2>1. PICK b \in BOOLEAN : files' = [files EXCEPT ![at[w]] = <<w, b>>]
    BY <1>1, RenameOnFree
  <2>2. \A d \in Documents : files'[d] # Absent => files'[d][1] = w
    BY <1>1, <2>1, RenameOnFree DEF TypeOK
  <2>3. QED
    BY <2>2 DEF OneRunsEvidence
<1>2. CASE files' = files
  BY <1>2 DEF OneRunsEvidence
<1>3. QED
  BY <1>1, <1>2, OtherStepsKeepFiles

LEMMA Sealed == ASSUME Sequential PROVE Spec => [](StagedInv /\ SealedInv)
<1>1. Init => StagedInv /\ SealedInv
  BY InitStaged, InitSealed
<1>2. StagedInv /\ SealedInv /\ [Next]_vars => (StagedInv /\ SealedInv)'
  BY StepStaged, StepAlone, StepPlaces, StepOneRun DEF StagedInv, SealedInv
<1>3. QED
  BY <1>1, <1>2, PTL DEF Spec

\* Runs one after the other never mix their documents, whatever a run that
\* failed or crashed has left behind.
THEOREM OneRun == ASSUME Sequential PROVE Spec => []OneRunsEvidence
<1>1. SealedInv => OneRunsEvidence
  BY DEF SealedInv
<1>2. QED
  BY Sealed, <1>1, PTL

\* Nor does one ever replace or remove a document under its final name.
THEOREM NeverOverwritten == ASSUME Sequential PROVE Spec => SealedNeverOverwritten
<1>1. StagedInv /\ SealedInv /\ [Next]_vars =>
         [\A d \in Documents : files[d] # Absent => files'[d] = files[d]]_vars
  <2> SUFFICES ASSUME StagedInv, SealedInv, [Next]_vars,
                      NEW d \in Documents, files[d] # Absent
               PROVE  files'[d] = files[d]
    OBVIOUS
  <2>1. ASSUME NEW w \in Writers, Rename(w) PROVE files'[d] = files[d]
    BY <2>1, RenameOnFree DEF StagedInv, SealedInv, TypeOK
  <2>2. QED
    BY <2>1, OtherStepsKeepFiles
<1>2. QED
  BY Sealed, <1>1, PTL DEF Spec, SealedNeverOverwritten

-----------------------------------------------------------------------------
(***************************************************************************)
(* The implementation of SealedEvidence: a renaming seals the document,    *)
(* and every other step leaves the directory as a reader sees it.          *)
(***************************************************************************)
Sealings == [d \in Documents |-> IF files[d] = Absent THEN Absent
                                 ELSE [by |-> files[d][1], whole |-> files[d][2]]]

\* The place is free, and those before it are taken by the same run.
LEMMA RenameSeals ==
    ASSUME StagedInv, SealedInv, NEW w \in Writers, Rename(w)
    PROVE  /\ at[w] \in Documents /\ files[at[w]] = Absent
           /\ \A e \in 1..(at[w] - 1) : files[e] # Absent /\ files[e][1] = w
           /\ files' = [files EXCEPT ![at[w]] = <<w, TRUE>>]
<1> USE DEF StagedInv, SealedInv
<1>1. pc[w] = "rename" /\ at[w] \in Documents
  BY DEF Rename, TypeOK
<1>2. PICK t \in temps : /\ t.by = w /\ t.of = at[w] /\ at[w] \in staged[w]
                         /\ files' = [files EXCEPT ![at[w]] = <<w, t.complete>>]
  BY DEF Rename
<1>3. t.complete
  BY <1>2 DEF StagedComplete
<1>4. t.complete = TRUE
  BY <1>2, <1>3 DEF TypeOK, TempFiles
<1>5. \A e \in 1..(at[w] - 1) : files[e] # Absent /\ files[e][1] = w
  BY <1>1, WriterAssumption DEF Places, RenamedHere, Documents
<1>6. QED
  BY <1>1, <1>2, <1>4, <1>5, RenameOnFree

LEMMA RenameMaps ==
    ASSUME StagedInv, SealedInv, NEW w \in Writers, Rename(w)
    PROVE  Sealing!Seal(at[w], w)
<1>1. /\ at[w] \in Documents /\ files[at[w]] = Absent
      /\ \A e \in 1..(at[w] - 1) : files[e] # Absent /\ files[e][1] = w
      /\ files' = [files EXCEPT ![at[w]] = <<w, TRUE>>]
  BY RenameSeals
<1>2. Sealings[at[w]] = Absent
  BY <1>1 DEF Sealings
<1>3. ASSUME NEW e \in 1..(at[w] - 1) PROVE Sealings[e] # Absent /\ Sealings[e].by = w
  <2>1. e \in Documents /\ files[e] # Absent /\ files[e][1] = w
    BY <1>1, WriterAssumption DEF Documents
  <2>2. files[e] \in Writers \X BOOLEAN
    BY <2>1 DEF StagedInv, TypeOK, Contents
  <2>3. Sealings[e] = [by |-> files[e][1], whole |-> files[e][2]]
    BY <2>1 DEF Sealings
  <2>4. Sealings[e] \in [by : Writers, whole : BOOLEAN]
    BY <2>2, <2>3
  <2>5. QED
    BY <2>1, <2>3, <2>4, WriterAssumption
<1>4. Sealings' = [Sealings EXCEPT ![at[w]] = [by |-> w, whole |-> TRUE]]
  <2>1. <<w, TRUE>> # Absent
    <3>1. \A b \in BOOLEAN : <<w, b>> # Absent
      BY WriterAssumption
    <3>2. TRUE \in BOOLEAN
      OBVIOUS
    <3>3. QED
      BY <3>1, <3>2
  <2>2. ASSUME NEW d \in Documents
        PROVE  (IF files[d] = Absent THEN Absent
                ELSE [by |-> files[d][1], whole |-> files[d][2]])'
                = IF d = at[w] THEN [by |-> w, whole |-> TRUE] ELSE Sealings[d]
    <3>1. files'[d] = IF d = at[w] THEN <<w, TRUE>> ELSE files[d]
      BY <1>1 DEF StagedInv, TypeOK
    <3>2. CASE d = at[w]
      <4>1. files'[d] = <<w, TRUE>>
        BY <3>1, <3>2
      <4>2. files'[d][1] = w /\ files'[d][2] = TRUE
        BY <4>1
      <4>3. QED
        BY <2>1, <3>2, <4>1, <4>2
    <3>3. CASE d # at[w]
      BY <3>1, <3>3 DEF Sealings
    <3>4. QED
      BY <3>2, <3>3
  <2>3. Sealings' = [d \in Documents |->
                       IF d = at[w] THEN [by |-> w, whole |-> TRUE] ELSE Sealings[d]]
    BY <2>2 DEF Sealings
  <2>4. DOMAIN Sealings = Documents
    BY DEF Sealings
  <2>5. QED
    BY <2>3, <2>4
<1>5. QED
  BY <1>2, <1>3, <1>4 DEF Sealings, Sealing!Seal, Sealing!Sealed

LEMMA InitMaps == Init => Sealing!Init
BY DEF Init, Sealing!Init, Sealing!Documents, Documents

LEMMA StepMaps ==
    StagedInv /\ SealedInv /\ [Next]_vars => Sealing!Next \/ Sealings' = Sealings
<1> SUFFICES ASSUME StagedInv, SealedInv, [Next]_vars
             PROVE  Sealing!Next \/ Sealings' = Sealings
  OBVIOUS
<1>1. ASSUME NEW w \in Writers, Rename(w) PROVE Sealing!Next
  <2>1. at[w] \in Sealing!Documents
    BY <1>1, RenameSeals DEF Documents, Sealing!Documents
  <2>2. Sealing!Seal(at[w], w)
    BY <1>1, RenameMaps
  <2>3. QED
    BY <2>1, <2>2 DEF Sealing!Next
<1>2. ASSUME files' = files PROVE Sealings' = Sealings
  BY <1>2 DEF Sealings
<1>3. QED
  BY <1>1, <1>2, OtherStepsKeepFiles

\* Runs one after the other implement SealedEvidence: the documents appear in
\* their order, each once and complete, all from one run.
THEOREM SealsInOrder == ASSUME Sequential PROVE Spec => SealsEvidence
<1>1. StagedInv /\ SealedInv /\ [Next]_vars =>
         [Sealing!Next]_[d \in Documents |-> IF files[d] = Absent THEN Absent
                            ELSE [by |-> files[d][1], whole |-> files[d][2]]]
  BY StepMaps DEF Sealings
<1>2. QED
  BY Sealed, InitMaps, <1>1, PTL DEF Spec, SealsEvidence, Sealing!Spec
=============================================================================
