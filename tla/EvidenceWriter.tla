---------------------------- MODULE EvidenceWriter ----------------------------
(***************************************************************************)
(* write_documents() (wealthbuilder_certification/evidence.py): a run      *)
(* stages the four documents of the certification in temporary files of    *)
(* its output directory and then renames them into place, one by one.      *)
(* Each writer is one run of the certification command over the same       *)
(* directory; it can fail at any file operation, and its process can end   *)
(* at any moment.  Not modelled: a failure of the whole machine, which may *)
(* undo renames whose directory entries the code has not synced.           *)
(*                                                                         *)
(* The contents are abstracted to the run that wrote them and to whether   *)
(* they are complete, a temporary file to the run and the document.        *)
(***************************************************************************)
EXTENDS Naturals

CONSTANTS
    Writers,    \* runs of the command
    Last,       \* OUTPUT_NAMES are the documents 1..Last
    Absent,     \* no file
    Sequential  \* whether a run begins only when no other is going on

ASSUME WriterAssumption ==
    /\ Last \in Nat \ {0} /\ Sequential \in BOOLEAN
    /\ Absent \notin Writers \X BOOLEAN /\ Absent \notin [by : Writers, whole : BOOLEAN]

VARIABLES
    files,      \* what is in each destination: the run and whether it is complete
    temps,      \* temporary files in the directory
    pc,
    at,         \* the document each run has reached
    staged      \* the documents in the list of that name of each run

disk == <<files, temps>>
vars == <<disk, pc, at, staged>>

Documents == 1..Last

Contents == Writers \X BOOLEAN

TempFiles == [by : Writers, of : Documents, complete : BOOLEAN]

Temp(w, d, complete) == [by |-> w, of |-> d, complete |-> complete]

Pcs == {"idle", "stage", "write", "rename", "cleanUp", "done", "raised", "crashed"}

Running(w) == pc[w] \in {"stage", "write", "rename", "cleanUp"}

-----------------------------------------------------------------------------
Init ==
    /\ files = [d \in Documents |-> Absent] /\ temps = {}
    /\ pc = [w \in Writers |-> "idle"] /\ at = [w \in Writers |-> 1]
    /\ staged = [w \in Writers |-> {}]

Goto(w, where) == pc' = [pc EXCEPT ![w] = where]

\* The next document of the first or the second loop over all of them.
Advance(w, loop, finished) ==
    /\ at' = [at EXCEPT ![w] = IF @ = Last THEN 1 ELSE @ + 1]
    /\ Goto(w, IF at[w] = Last THEN finished ELSE loop)

Begin(w) ==
    /\ pc[w] = "idle"
    /\ Sequential => \A v \in Writers : ~Running(v)
    /\ Goto(w, "stage")
    /\ UNCHANGED <<disk, at, staged>>

\* FileExistsError
Refuse(w) ==
    /\ pc[w] = "stage" /\ files[at[w]] # Absent
    /\ Goto(w, "cleanUp")
    /\ UNCHANGED <<disk, at, staged>>

\* Mutant: the destination is not looked at.
CreateTempUnchecked(w) ==
    /\ pc[w] = "stage"
    /\ temps' = temps \cup {Temp(w, at[w], FALSE)}
    /\ Goto(w, "write")
    /\ UNCHANGED <<files, at, staged>>

\* mkstemp(): an empty temporary file under a fresh name.
CreateTemp(w) ==
    /\ pc[w] = "stage" /\ files[at[w]] = Absent
    /\ temps' = temps \cup {Temp(w, at[w], FALSE)}
    /\ Goto(w, "write")
    /\ UNCHANGED <<files, at, staged>>

\* Mutant: the document is staged whatever has reached the disk.
WriteUnsynced(w) ==
    /\ pc[w] = "write"
    /\ \E complete \in BOOLEAN :
          temps' = (temps \ {Temp(w, at[w], FALSE)}) \cup {Temp(w, at[w], complete)}
    /\ staged' = [staged EXCEPT ![w] = @ \cup {at[w]}]
    /\ Advance(w, "stage", "rename")
    /\ UNCHANGED files

\* Write, flush and fsync have succeeded; after the last document, renaming
\* begins with the first.
Write(w) ==
    /\ pc[w] = "write"
    /\ temps' = (temps \ {Temp(w, at[w], FALSE)}) \cup {Temp(w, at[w], TRUE)}
    /\ staged' = [staged EXCEPT ![w] = @ \cup {at[w]}]
    /\ Advance(w, "stage", "rename")
    /\ UNCHANGED files

\* temporary.replace(destination), which does not look at the destination.
Rename(w) ==
    /\ pc[w] = "rename"
    /\ \E t \in temps :
          /\ t.by = w /\ t.of = at[w] /\ at[w] \in staged[w]
          /\ files' = [files EXCEPT ![at[w]] = <<w, t.complete>>]
          /\ temps' = temps \ {t}
    /\ Advance(w, "rename", "done")
    /\ UNCHANGED staged

\* Any file operation can raise.
Raise(w) ==
    /\ pc[w] \in {"stage", "write", "rename"}
    /\ Goto(w, "cleanUp")
    /\ UNCHANGED <<disk, at, staged>>

\* The staged files are removed in turn, those renamed already stay where they
\* are; the first removal that fails ends it.
CleanUp(w) ==
    /\ pc[w] = "cleanUp"
    /\ \E failing \in 1..(Last + 1) :
          temps' = {t \in temps : ~(t.by = w /\ t.of \in staged[w] /\ t.of < failing)}
    /\ Goto(w, "raised")
    /\ UNCHANGED <<files, at, staged>>

\* The process ends; what it has done to the files stays.
Crash(w) ==
    /\ Running(w)
    /\ Goto(w, "crashed")
    /\ UNCHANGED <<disk, at, staged>>

Next == \E w \in Writers :
    \/ Begin(w) \/ Refuse(w) \/ CreateTemp(w) \/ Write(w) \/ Rename(w)
    \/ Raise(w) \/ CleanUp(w) \/ Crash(w)

Spec == Init /\ [][Next]_vars

-----------------------------------------------------------------------------
TypeOK ==
    /\ files \in [Documents -> Contents \cup {Absent}] /\ temps \subseteq TempFiles
    /\ pc \in [Writers -> Pcs] /\ at \in [Writers -> Documents]
    /\ staged \in [Writers -> SUBSET Documents]

\* Whatever fails, and whenever a process ends, a document under its final name
\* is complete.
DocumentsAreComplete == \A d \in Documents : files[d] # Absent => files[d][2]

\* The documents in the directory are of one run: a run never adds its own to
\* those a crashed one has left.
OneRunsEvidence ==
    \A d, e \in Documents :
        files[d] # Absent /\ files[e] # Absent => files[d][1] = files[e][1]

\* A document under its final name never changes, nor disappears.
SealedNeverOverwritten ==
    [][\A d \in Documents : files[d] # Absent => files'[d] = files[d]]_vars

-----------------------------------------------------------------------------
(* The promise of SealedEvidence *)

Sealing == INSTANCE SealedEvidence WITH
    Runs <- Writers, Lossy <- FALSE,
    sealed <- [d \in Documents |-> IF files[d] = Absent THEN Absent
                                   ELSE [by |-> files[d][1], whole |-> files[d][2]]]

\* The four documents appear in their order, each once and complete, from one
\* run: a certification in the directory has all it certifies beside it.
SealsEvidence == Sealing!Spec

-----------------------------------------------------------------------------
\* Stated by the project, refuted by the code (see README, findings).

\* The documents appear together: no run that is over has left some of them.
AllOrNothing ==
    (\A w \in Writers : ~Running(w)) =>
        \A d, e \in Documents : files[d] = Absent => files[e] = Absent
=============================================================================
