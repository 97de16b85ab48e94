----------------------------- MODULE TickEvidence -----------------------------
(***************************************************************************)
(* The price evidence of the certification and the three commands that     *)
(* make it: the tick export (stage_4e2_3_mt5_tick_export.py) writes a      *)
(* table of ticks and the manifest that describes it, the tick audit       *)
(* (stage_4e2_3_tick_evidence_audit.py) compares both and reports on them, *)
(* the deal audit (stage_4e2_4_execution_provenance_audit.py) reconciles   *)
(* the manifest with the broker's deals.  Each audit writes a report and a *)
(* certification.  A command can fail at any operation and be killed at    *)
(* any moment; nothing it writes is synced, so a power failure can damage  *)
(* any file.                                                               *)
(*                                                                         *)
(* A hash is the content hashed.  The result of one event's tick query is  *)
(* what the audits ask of it: whether there are ticks, whether the nearest *)
(* is at most two seconds away, and whether its price is within a point.   *)
(***************************************************************************)
EXTENDS Naturals, Sequences

CONSTANTS
    Exports, TickAudits, DealAudits,    \* runs of the three commands
    Outcomes,       \* what one event's query can give
    MaxEvents,      \* bound on the price exceptions of the gap document
    Required,       \* the 52 events the deal audit counts
    Absent,         \* no file
    Torn,           \* a manifest whose writing was interrupted
    Mixed,          \* a table that several runs have written to
    Sequential,     \* whether a run begins only when no other of its command is on
    MaxFailures     \* bound on power failures

Audits == TickAudits \cup DealAudits
Commands == Exports \cup Audits

Tables == [by : Exports \cup {Mixed}, whole : BOOLEAN]

Manifests == [by : Exports, whole : BOOLEAN, table : Tables, events : Seq(Outcomes)]

Payloads == [by : Audits, whole : BOOLEAN, loaded : Manifests, manifest : Manifests \cup {Torn},
             table : Tables \cup {Absent}, agreed : SUBSET Nat, certified : BOOLEAN]

ASSUME EvidenceAssumption ==
    /\ Outcomes \subseteq {o \in [ticks : BOOLEAN, near : BOOLEAN, match : BOOLEAN] :
                               o.near \/ o.match => o.ticks}
    /\ MaxEvents \in Nat /\ Required \in Nat \ {0} /\ MaxFailures \in Nat
    /\ Sequential \in BOOLEAN
    /\ Exports \cap Audits = {} /\ TickAudits \cap DealAudits = {}
    /\ Mixed \notin Exports

\* No file is not a file, and one torn is none that can be read.
ASSUME FilesAssumption ==
    /\ Absent \notin Exports \cup {Mixed} /\ Absent # Torn
    /\ \A file \in {Absent, Torn} :
          /\ file \notin Tables /\ file \notin Manifests /\ file \notin Payloads
          /\ file \notin [by : Commands \cup {Mixed}, whole : BOOLEAN]

VARIABLES
    partial,    \* whose rows are in the export's .csv.partial
    table,      \* the tick table (.csv)
    manifest,   \* the manifest of the table
    drafts,     \* the audits' .json.partial files
    documents,  \* the audits' reports and certifications
    pc,
    count,      \* the events of each export
    summary,    \* the results of its queries
    view,       \* of an export the table hashed, of an audit the manifest loaded
    result,     \* the payload of each audit
    at,         \* the document each audit has reached
    failures

exportFiles == <<partial, table, manifest>>
auditFiles == <<drafts, documents>>
locals == <<count, summary, view, result, at>>
vars == <<exportFiles, auditFiles, pc, locals, failures>>

\* The documents of a kind of audit: 1 the report, 2 the certification.
Names == {"tick", "deal"} \X (1..2)

KindOf(a) == IF a \in TickAudits THEN "tick" ELSE "deal"

SameCommand(c) ==
    IF c \in Exports THEN Exports ELSE IF c \in TickAudits THEN TickAudits ELSE DealAudits

Running(c) == pc[c] \notin {"idle", "done", "failed"}

Damaged(file) == IF file \in {Absent, Torn} THEN file ELSE [file EXCEPT !.whole = FALSE]

-----------------------------------------------------------------------------
Init ==
    /\ partial = Absent /\ table = Absent /\ manifest = Absent
    /\ drafts = [n \in Names |-> Absent] /\ documents = [n \in Names |-> Absent]
    /\ pc = [c \in Commands |-> "idle"]
    /\ count = [e \in Exports |-> 0] /\ summary = [e \in Exports |-> <<>>]
    /\ view = [c \in Commands |-> Absent] /\ result = [a \in Audits |-> Absent]
    /\ at = [a \in Audits |-> 1]
    /\ failures = 0

Goto(c, where) == pc' = [pc EXCEPT ![c] = where]

MayBegin(c) ==
    /\ pc[c] = "idle"
    /\ Sequential => \A d \in SameCommand(c) : ~Running(d)

\* What the processes of these commands had in memory is gone.
Forget(ended) ==
    /\ pc' = [c \in Commands |-> IF c \in ended THEN "failed" ELSE pc[c]]
    /\ count' = [e \in Exports |-> IF e \in ended THEN 0 ELSE count[e]]
    /\ summary' = [e \in Exports |-> IF e \in ended THEN <<>> ELSE summary[e]]
    /\ view' = [c \in Commands |-> IF c \in ended THEN Absent ELSE view[c]]
    /\ result' = [a \in Audits |-> IF a \in ended THEN Absent ELSE result[a]]
    /\ at' = [a \in Audits |-> IF a \in ended THEN 1 ELSE at[a]]

\* An exception ends the command, or it is killed: the files it has written stay.
Fail(c) ==
    /\ Running(c)
    /\ Forget({c})
    /\ UNCHANGED <<exportFiles, auditFiles, failures>>

\* Whatever runs is ended, and the files are not synced.
PowerFailure ==
    /\ failures < MaxFailures /\ failures' = failures + 1
    /\ Forget({c \in Commands : Running(c)})
    /\ table' \in {table, Damaged(table)} /\ manifest' \in {manifest, Damaged(manifest)}
    /\ \E lost \in SUBSET Names :
          documents' = [n \in Names |->
              IF n \in lost THEN Damaged(documents[n]) ELSE documents[n]]
    /\ UNCHANGED <<partial, drafts>>

-----------------------------------------------------------------------------
(* The tick export *)

\* The inputs are read; without events there is nothing to query.
BeginExport(e) ==
    /\ MayBegin(e)
    /\ \E n \in 0..MaxEvents :
          /\ count' = [count EXCEPT ![e] = n]
          /\ Goto(e, IF n = 0 THEN "failed" ELSE "look")
    /\ UNCHANGED <<exportFiles, auditFiles, summary, view, result, at, failures>>

\* Mutant: only the manifest counts as evidence.
LookForManifest(e) ==
    /\ pc[e] = "look"
    /\ Goto(e, IF manifest = Absent THEN "open" ELSE "failed")
    /\ UNCHANGED <<exportFiles, auditFiles, locals, failures>>

\* FileExistsError when the table or the manifest is there.
LookForEvidence(e) ==
    /\ pc[e] = "look"
    /\ Goto(e, IF table = Absent /\ manifest = Absent THEN "open" ELSE "failed")
    /\ UNCHANGED <<exportFiles, auditFiles, locals, failures>>

\* Mutant: the partial file is opened to append.
OpenToAppend(e) ==
    /\ pc[e] = "open"
    /\ partial' = IF partial = Absent THEN e ELSE Mixed
    /\ Goto(e, "query")
    /\ UNCHANGED <<table, manifest, auditFiles, locals, failures>>

\* The partial file has a fixed name: what a crashed run left is truncated, and
\* so is what another run is writing.
OpenPartial(e) ==
    /\ pc[e] = "open"
    /\ partial' = e
    /\ Goto(e, "query")
    /\ UNCHANGED <<table, manifest, auditFiles, locals, failures>>

\* One event: its ticks are written as rows and summed up.
Query(e) ==
    /\ pc[e] = "query" /\ Len(summary[e]) < count[e]
    /\ \E o \in Outcomes :
          /\ summary' = [summary EXCEPT ![e] = Append(@, o)]
          /\ partial' = IF o.ticks /\ partial # e THEN Mixed ELSE partial
    /\ UNCHANGED <<table, manifest, auditFiles, pc, count, view, result, at, failures>>

\* partial.replace(csv_path), which (on Windows, where the terminal's library
\* runs) fails if the file is gone or another run has it open.
ReplaceTable(e) ==
    /\ pc[e] = "query" /\ Len(summary[e]) = count[e]
    /\ partial # Absent /\ \A f \in Exports \ {e} : pc[f] # "query"
    /\ table' = [by |-> partial, whole |-> TRUE] /\ partial' = Absent
    /\ Goto(e, "hash")
    /\ UNCHANGED <<manifest, auditFiles, locals, failures>>

\* The table is hashed, and write_text() has opened the manifest.
HashTable(e) ==
    /\ pc[e] = "hash" /\ table # Absent
    /\ view' = [view EXCEPT ![e] = table]
    /\ manifest' = Torn
    /\ Goto(e, "manifest")
    /\ UNCHANGED <<partial, table, auditFiles, count, summary, result, at, failures>>

WriteManifest(e) ==
    /\ pc[e] = "manifest"
    /\ manifest' = [by |-> e, whole |-> TRUE, table |-> view[e], events |-> summary[e]]
    /\ Goto(e, "done")
    /\ UNCHANGED <<partial, table, auditFiles, locals, failures>>

-----------------------------------------------------------------------------
(* The audits *)

\* A manifest that is missing, torn or damaged is no JSON object of the stage.
LoadManifest(a) ==
    /\ MayBegin(a)
    /\ IF manifest \notin {Absent, Torn} /\ manifest.whole
       THEN /\ view' = [view EXCEPT ![a] = manifest]
            /\ Goto(a, IF a \in TickAudits THEN "compare" ELSE "judge")
       ELSE Goto(a, "failed") /\ UNCHANGED view
    /\ UNCHANGED <<exportFiles, auditFiles, count, summary, result, at, failures>>

\* Mutant: the table is looked for and not compared.
CompareNothing(a) ==
    /\ pc[a] = "compare"
    /\ Goto(a, IF table # Absent THEN "judge" ELSE "failed")
    /\ UNCHANGED <<exportFiles, auditFiles, locals, failures>>

\* Hash, size and row count of the table against the manifest.
CompareTable(a) ==
    /\ pc[a] = "compare"
    /\ Goto(a, IF table # Absent /\ table = view[a].table THEN "judge" ELSE "failed")
    /\ UNCHANGED <<exportFiles, auditFiles, locals, failures>>

\* Mutant: a match anywhere near is enough.
TicksNear(events) == \A i \in DOMAIN events : events[i].near

\* The nearest tick of every event has the execution price.
TicksCertified(events) == \A i \in DOMAIN events : events[i].match

\* Every check of every one of the required events has passed: the deal is the
\* broker's, and a tick is near.
DealsCertified(events, agreed) ==
    /\ Len(events) = Required
    /\ \A i \in DOMAIN events : i \in agreed /\ events[i].ticks /\ events[i].near

\* The payload; the files are hashed again for its provenance.
Verdict(a, agreed, certified) ==
    [by |-> a, whole |-> TRUE, loaded |-> view[a], manifest |-> manifest,
     table |-> IF a \in TickAudits THEN table ELSE Absent,
     agreed |-> agreed, certified |-> certified]

JudgeTicks(a) ==
    /\ a \in TickAudits /\ pc[a] = "judge" /\ manifest # Absent /\ table # Absent
    /\ result' = [result EXCEPT ![a] = Verdict(a, {}, TicksCertified(view[a].events))]
    /\ Goto(a, "write")
    /\ UNCHANGED <<exportFiles, auditFiles, count, summary, view, at, failures>>

\* Exactly one deal is known for each event (or it raises); those agreed are the
\* events whose symbol, type, price and reason are the deal's.
JudgeDeals(a) ==
    /\ a \in DealAudits /\ pc[a] = "judge" /\ manifest # Absent
    /\ \E agreed \in SUBSET DOMAIN view[a].events :
          result' = [result EXCEPT ![a] =
              Verdict(a, agreed, DealsCertified(view[a].events, agreed))]
    /\ Goto(a, "write")
    /\ UNCHANGED <<exportFiles, auditFiles, count, summary, view, at, failures>>

DocumentOf(a) == <<KindOf(a), at[a]>>

\* Mutant: a document that is there is kept, and the next one written.
DraftMissing(a) ==
    /\ pc[a] = "write"
    /\ IF documents[DocumentOf(a)] = Absent
       THEN /\ drafts' = [drafts EXCEPT ![DocumentOf(a)] = result[a]]
            /\ Goto(a, "replace") /\ UNCHANGED at
       ELSE /\ at' = [at EXCEPT ![a] = 2]
            /\ Goto(a, IF at[a] = 2 THEN "done" ELSE "write") /\ UNCHANGED drafts
    /\ UNCHANGED <<exportFiles, documents, count, summary, view, result, failures>>

\* Mutant: the destination is not looked at.
DraftUnchecked(a) ==
    /\ pc[a] = "write"
    /\ drafts' = [drafts EXCEPT ![DocumentOf(a)] = result[a]]
    /\ Goto(a, "replace")
    /\ UNCHANGED <<exportFiles, documents, locals, failures>>

\* The destination is looked at, and the document written under a fixed
\* temporary name, over whatever is there.
Draft(a) ==
    /\ pc[a] = "write"
    /\ IF documents[DocumentOf(a)] = Absent
       THEN /\ drafts' = [drafts EXCEPT ![DocumentOf(a)] = result[a]]
            /\ Goto(a, "replace")
       ELSE Goto(a, "failed") /\ UNCHANGED drafts
    /\ UNCHANGED <<exportFiles, documents, locals, failures>>

Replace(a) ==
    /\ pc[a] = "replace" /\ drafts[DocumentOf(a)] # Absent
    /\ documents' = [documents EXCEPT ![DocumentOf(a)] = drafts[DocumentOf(a)]]
    /\ drafts' = [drafts EXCEPT ![DocumentOf(a)] = Absent]
    /\ at' = [at EXCEPT ![a] = 2]
    /\ Goto(a, IF at[a] = 2 THEN "done" ELSE "write")
    /\ UNCHANGED <<exportFiles, count, summary, view, result, failures>>

-----------------------------------------------------------------------------
Export(e) ==
    \/ BeginExport(e) \/ LookForEvidence(e) \/ OpenPartial(e) \/ Query(e)
    \/ ReplaceTable(e) \/ HashTable(e) \/ WriteManifest(e)

Audit(a) ==
    \/ LoadManifest(a) \/ CompareTable(a) \/ JudgeTicks(a) \/ JudgeDeals(a)
    \/ Draft(a) \/ Replace(a)

Next ==
    \/ \E e \in Exports : Export(e)
    \/ \E a \in Audits : Audit(a)
    \/ \E c \in Commands : Fail(c)
    \/ PowerFailure

Spec == Init /\ [][Next]_vars
-----------------------------------------------------------------------------
TypeOK ==
    /\ partial \in Exports \cup {Mixed, Absent} /\ table \in Tables \cup {Absent}
    /\ manifest \in Manifests \cup {Torn, Absent}
    /\ drafts \in [Names -> Payloads \cup {Absent}] /\ documents \in [Names -> Payloads \cup {Absent}]
    /\ pc \in [Commands -> {"idle", "look", "open", "query", "hash", "manifest", "compare",
                            "judge", "write", "replace", "done", "failed"}]
    /\ count \in [Exports -> 0..MaxEvents] /\ summary \in [Exports -> Seq(Outcomes)]
    /\ view \in [Commands -> Tables \cup Manifests \cup {Absent}]
    /\ \A e \in Exports : view[e] \in Tables \cup {Absent}
    /\ \A a \in Audits : view[a] \in Manifests \cup {Absent}
    /\ result \in [Audits -> Payloads \cup {Absent}] /\ at \in [Audits -> 1..2]
    /\ failures \in 0..MaxFailures

Written(file) == file \notin {Absent, Torn}

\* A manifest that can be read stands beside the table it describes, of the same
\* run, and lists every event of that run, whatever has been killed before.
ManifestDescribesTable ==
    Written(manifest) =>
        /\ Written(table) /\ table.by = manifest.by
        /\ manifest.table = [by |-> manifest.by, whole |-> TRUE]
        /\ Len(manifest.events) = count[manifest.by]

\* What an audit has sealed is about the evidence that is still there: the
\* manifest it loaded is the one it hashed and the one on the disk, and the table
\* the tick audit hashed is the one the manifest describes.
CertificationsTraceable ==
    \A n \in Names : documents[n] # Absent =>
        LET doc == documents[n] IN
        /\ doc.manifest = doc.loaded /\ doc.loaded.whole
        /\ Written(manifest) /\ manifest.by = doc.loaded.by
        /\ manifest.events = doc.loaded.events
        /\ n[1] = "tick" => doc.table = doc.loaded.table

\* A certification is given exactly when the queries of the run whose table it
\* is about have returned what its criterion asks of every event.
CertifiedMeansMatched ==
    \A n \in Names : documents[n] # Absent =>
        LET queried == summary[table.by] IN
        documents[n].certified <=>
            IF n[1] = "tick" THEN \A i \in 1..count[table.by] : queried[i].match
            ELSE /\ count[table.by] = Required
                 /\ \A i \in 1..Required : queried[i].near /\ i \in documents[n].agreed

\* A command that exits with zero has left both its documents, and they are its
\* own.  (That they are whole is not claimed: a power failure may damage them.)
DoneMeansSealed ==
    /\ \A e \in Exports : pc[e] = "done" =>
           Written(table) /\ table.by = e /\ Written(manifest) /\ manifest.by = e
    /\ \A a \in Audits : pc[a] = "done" => \A d \in 1..2 :
           documents[<<KindOf(a), d>>] # Absent /\ documents[<<KindOf(a), d>>].by = a

-----------------------------------------------------------------------------
(* The promise of SealedEvidence, for the documents of each command *)

Shown(file) ==
    IF Written(file) THEN [by |-> file.by, whole |-> file.whole] ELSE Absent

ExportSealing == INSTANCE SealedEvidence WITH
    Last <- 2, Runs <- Exports, Lossy <- TRUE,
    sealed <- [d \in 1..2 |-> IF d = 1 THEN Shown(table) ELSE Shown(manifest)]

TickSealing == INSTANCE SealedEvidence WITH
    Last <- 2, Runs <- TickAudits, Lossy <- TRUE,
    sealed <- [d \in 1..2 |-> Shown(documents[<<"tick", d>>])]

DealSealing == INSTANCE SealedEvidence WITH
    Last <- 2, Runs <- DealAudits, Lossy <- TRUE,
    sealed <- [d \in 1..2 |-> Shown(documents[<<"deal", d>>])]

\* Table and manifest appear in this order, each once, from one run.
ExportSealsEvidence == ExportSealing!Spec

\* So do the report and the certification of each audit: a certification without
\* its report, or beside another run's, is never seen.
AuditsSealEvidence == TickSealing!Spec /\ DealSealing!Spec

-----------------------------------------------------------------------------
\* Hoped for, and not so in the code (see README, findings).

\* An export that was interrupted can be repeated: no table is left without a
\* manifest that can be read.
TableNeverAbandoned ==
    (\A e \in Exports : ~Running(e)) /\ Written(table) => Written(manifest)
=============================================================================
