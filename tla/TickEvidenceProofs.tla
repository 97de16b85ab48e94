--------------------------- MODULE TickEvidenceProofs ---------------------------
(***************************************************************************)
(* Proofs about TickEvidence, for any number of runs of the commands, of   *)
(* events, of documents that a power failure damages and of such failures. *)
(*                                                                         *)
(* Type correctness rests on what a command has loaded when it uses it     *)
(* (Loaded).  What an export leaves behind rests on the places it has      *)
(* found free (Exporting), what an audit certifies on the manifest not     *)
(* changing under it (Auditing); both need the runs of a command to go one *)
(* after the other (Alone).                                                *)
(***************************************************************************)
EXTENDS TickEvidence, TLAPS

Loaded ==
    /\ \A e \in Exports : pc[e] = "manifest" => view[e] # Absent
    /\ \A a \in Audits : pc[a] \in {"compare", "judge"} => view[a] # Absent

TypeInv == TypeOK /\ Loaded

-----------------------------------------------------------------------------
(***************************************************************************)
(* Files                                                                   *)
(***************************************************************************)
LEMMA DamagedTable ==
    ASSUME NEW f \in Tables
    PROVE  /\ Damaged(f) \in Tables /\ Damaged(f) # Absent /\ Damaged(f).by = f.by
           /\ Damaged(f).whole = FALSE
<1>1. f \notin {Absent, Torn}
  BY FilesAssumption
<1>2. Damaged(f) = [f EXCEPT !.whole = FALSE]
  BY <1>1 DEF Damaged
<1>3. Damaged(f) \in Tables /\ Damaged(f).by = f.by
  BY <1>2 DEF Tables
<1>4. Damaged(f).whole = FALSE
  BY <1>2 DEF Tables
<1>5. QED
  BY <1>3, <1>4, FilesAssumption

LEMMA DamagedManifest ==
    ASSUME NEW f \in Manifests
    PROVE  /\ Damaged(f) \in Manifests /\ Damaged(f) \notin {Absent, Torn}
           /\ Damaged(f).by = f.by /\ Damaged(f).table = f.table
           /\ Damaged(f).events = f.events /\ Damaged(f).whole = FALSE
<1>1. f \notin {Absent, Torn}
  BY FilesAssumption
<1>2. Damaged(f) = [f EXCEPT !.whole = FALSE]
  BY <1>1 DEF Damaged
<1>3. Damaged(f) \in Manifests /\ Damaged(f).by = f.by
      /\ Damaged(f).table = f.table /\ Damaged(f).events = f.events
  BY <1>2 DEF Manifests
<1>4. Damaged(f).whole = FALSE
  BY <1>2 DEF Manifests
<1>5. QED
  BY <1>3, <1>4, FilesAssumption

LEMMA DamagedPayload ==
    ASSUME NEW f \in Payloads
    PROVE  /\ Damaged(f) \in Payloads /\ Damaged(f) \notin {Absent, Torn}
           /\ Damaged(f).by = f.by /\ Damaged(f).whole = FALSE
           /\ Damaged(f).loaded = f.loaded /\ Damaged(f).manifest = f.manifest
           /\ Damaged(f).table = f.table /\ Damaged(f).agreed = f.agreed
           /\ Damaged(f).certified = f.certified
<1>1. f \notin {Absent, Torn}
  BY FilesAssumption
<1>2. Damaged(f) = [f EXCEPT !.whole = FALSE]
  BY <1>1 DEF Damaged
<1>3. Damaged(f) \in Payloads /\ Damaged(f).by = f.by
      /\ Damaged(f).loaded = f.loaded /\ Damaged(f).manifest = f.manifest
      /\ Damaged(f).table = f.table /\ Damaged(f).agreed = f.agreed
  BY <1>2 DEF Payloads
<1>4. Damaged(f).whole = FALSE /\ Damaged(f).certified = f.certified
  BY <1>2 DEF Payloads
<1>5. QED
  BY <1>3, <1>4, FilesAssumption

\* Damage neither makes a file nor removes one.
LEMMA DamagedNothing == Damaged(Absent) = Absent /\ Damaged(Torn) = Torn
BY DEF Damaged

-----------------------------------------------------------------------------
(***************************************************************************)
(* Types                                                                   *)
(***************************************************************************)
LEMMA InitTypes == Init => TypeInv
<1> SUFFICES ASSUME Init PROVE TypeInv
  OBVIOUS
<1>1. TypeOK
  BY EvidenceAssumption DEF Init, TypeOK, Commands
<1>2. Loaded
  BY DEF Init, Loaded, Commands
<1>3. QED
  BY <1>1, <1>2 DEF TypeInv

LEMMA ForgetTypes ==
    ASSUME TypeInv, NEW ended \in SUBSET Commands, Forget(ended)
    PROVE  /\ pc' \in [Commands -> {"idle", "look", "open", "query", "hash", "manifest",
                                    "compare", "judge", "write", "replace", "done", "failed"}]
           /\ count' \in [Exports -> 0..MaxEvents] /\ summary' \in [Exports -> Seq(Outcomes)]
           /\ view' \in [Commands -> Tables \cup Manifests \cup {Absent}]
           /\ \A e \in Exports : view'[e] \in Tables \cup {Absent}
           /\ \A a \in Audits : view'[a] \in Manifests \cup {Absent}
           /\ result' \in [Audits -> Payloads \cup {Absent}] /\ at' \in [Audits -> 1..2]
           /\ Loaded'
<1> USE EvidenceAssumption DEF TypeInv, TypeOK, Forget, Commands
<1>1. pc' \in [Commands -> {"idle", "look", "open", "query", "hash", "manifest",
                            "compare", "judge", "write", "replace", "done", "failed"}]
  OBVIOUS
<1>2. count' \in [Exports -> 0..MaxEvents] /\ summary' \in [Exports -> Seq(Outcomes)]
  <2>1. <<>> \in Seq(Outcomes)
    OBVIOUS
  <2>2. QED
    BY <2>1
<1>3. /\ view' \in [Commands -> Tables \cup Manifests \cup {Absent}]
      /\ \A e \in Exports : view'[e] \in Tables \cup {Absent}
      /\ \A a \in Audits : view'[a] \in Manifests \cup {Absent}
  OBVIOUS
<1>4. result' \in [Audits -> Payloads \cup {Absent}] /\ at' \in [Audits -> 1..2]
  OBVIOUS
<1>5. Loaded'
  BY DEF Loaded
<1>6. QED
  BY <1>1, <1>2, <1>3, <1>4, <1>5

LEMMA ExportTypes ==
    ASSUME TypeInv, NEW e \in Exports, Export(e)
    PROVE  TypeInv'
<1> USE EvidenceAssumption
    DEF TypeInv, TypeOK, Loaded, Commands, exportFiles, auditFiles, locals, Goto
<1>1. CASE BeginExport(e)
  BY <1>1 DEF BeginExport
<1>2. CASE LookForEvidence(e)
  BY <1>2 DEF LookForEvidence
<1>3. CASE OpenPartial(e)
  BY <1>3 DEF OpenPartial
<1>4. CASE Query(e)
  BY <1>4 DEF Query
<1>5. CASE ReplaceTable(e)
  <2>1. table' \in Tables
    BY <1>5 DEF ReplaceTable, Tables
  <2>2. QED
    BY <1>5, <2>1 DEF ReplaceTable
<1>6. CASE HashTable(e)
  <2>1. view' \in [Commands -> Tables \cup Manifests \cup {Absent}]
    BY <1>6 DEF HashTable
  <2>2. /\ \A f \in Exports : view'[f] \in Tables \cup {Absent}
        /\ \A a \in Audits : view'[a] \in Manifests \cup {Absent}
    BY <1>6 DEF HashTable
  <2>3. Loaded'
    BY <1>6 DEF HashTable
  <2>4. QED
    BY <1>6, <2>1, <2>2, <2>3 DEF HashTable
<1>7. CASE WriteManifest(e)
  <2>1. view[e] \in Tables /\ summary[e] \in Seq(Outcomes)
    BY <1>7 DEF WriteManifest
  <2>2. manifest' \in Manifests
    BY <1>7, <2>1 DEF WriteManifest, Manifests
  <2>3. QED
    BY <1>7, <2>2 DEF WriteManifest
<1>8. QED
  BY <1>1, <1>2, <1>3, <1>4, <1>5, <1>6, <1>7 DEF Export

\* A payload is one of an audit of its two kinds, about a manifest it has loaded.
LEMMA VerdictType ==
    ASSUME TypeInv, NEW a \in Audits, view[a] # Absent, manifest # Absent,
           a \in TickAudits => table # Absent,
           NEW agreed \in SUBSET Nat, NEW certified \in BOOLEAN
    PROVE  Verdict(a, agreed, certified) \in Payloads
<1>1. view[a] \in Manifests /\ manifest \in Manifests \cup {Torn}
  BY DEF TypeInv, TypeOK
<1>2. (IF a \in TickAudits THEN table ELSE Absent) \in Tables \cup {Absent}
  BY DEF TypeInv, TypeOK
<1>3. QED
  BY <1>1, <1>2 DEF Verdict, Payloads

\* So the result of an audit that has judged is one.
LEMMA JudgedType ==
    ASSUME TypeInv, NEW a \in Audits, JudgeTicks(a) \/ JudgeDeals(a)
    PROVE  result'[a] \in Payloads
<1>1. view[a] # Absent
  BY DEF JudgeTicks, JudgeDeals, TypeInv, Loaded
<1>2. CASE JudgeTicks(a)
  <2>1. {} \in SUBSET Nat /\ TicksCertified(view[a].events) \in BOOLEAN
    BY DEF TicksCertified
  <2>2. Verdict(a, {}, TicksCertified(view[a].events)) \in Payloads
    BY <1>1, <1>2, <2>1, VerdictType DEF JudgeTicks
  <2>3. QED
    BY <1>2, <2>2 DEF JudgeTicks, TypeInv, TypeOK
<1>3. CASE JudgeDeals(a)
  <2>1. PICK agreed \in SUBSET DOMAIN view[a].events :
           result' = [result EXCEPT ![a] =
              Verdict(a, agreed, DealsCertified(view[a].events, agreed))]
    BY <1>3 DEF JudgeDeals
  <2>2. view[a].events \in Seq(Outcomes)
    BY <1>1 DEF Manifests, TypeInv, TypeOK
  <2>3. agreed \in SUBSET Nat /\ DealsCertified(view[a].events, agreed) \in BOOLEAN
    BY <2>1, <2>2 DEF DealsCertified
  <2>4. Verdict(a, agreed, DealsCertified(view[a].events, agreed)) \in Payloads
    BY <1>1, <1>3, <2>3, VerdictType, EvidenceAssumption DEF JudgeDeals
  <2>5. QED
    BY <2>1, <2>4 DEF TypeInv, TypeOK
<1>4. QED
  BY <1>2, <1>3

LEMMA AuditTypes ==
    ASSUME TypeInv, NEW a \in Audits, Audit(a)
    PROVE  TypeInv'
<1> USE EvidenceAssumption
    DEF TypeInv, TypeOK, Loaded, Commands, exportFiles, auditFiles, locals, Goto
<1>0. DocumentOf(a) \in Names
  BY DEF DocumentOf, Names, KindOf
<1>1. CASE LoadManifest(a)
  <2>1. CASE manifest \notin {Absent, Torn} /\ manifest.whole
    <3>1. manifest \in Manifests
      BY <2>1
    <3>2. view' = [view EXCEPT ![a] = manifest]
      BY <1>1, <2>1 DEF LoadManifest
    <3>3. view' \in [Commands -> Tables \cup Manifests \cup {Absent}]
      BY <3>1, <3>2
    <3>4. /\ \A f \in Exports : view'[f] \in Tables \cup {Absent}
          /\ \A b \in Audits : view'[b] \in Manifests \cup {Absent}
      BY <3>1, <3>2
    <3>5. pc' = [pc EXCEPT ![a] = IF a \in TickAudits THEN "compare" ELSE "judge"]
      BY <1>1, <2>1 DEF LoadManifest
    <3>6. Loaded'
      BY <2>1, <3>2, <3>5
    <3>7. QED
      BY <1>1, <3>3, <3>4, <3>5, <3>6 DEF LoadManifest
  <2>2. CASE ~(manifest \notin {Absent, Torn} /\ manifest.whole)
    BY <1>1, <2>2 DEF LoadManifest
  <2>3. QED
    BY <2>1, <2>2
<1>2. CASE CompareTable(a)
  BY <1>2 DEF CompareTable
<1>3. CASE JudgeTicks(a)
  <2>1. result'[a] \in Payloads
    BY <1>3, JudgedType
  <2>2. QED
    BY <1>3, <2>1 DEF JudgeTicks
<1>4. CASE JudgeDeals(a)
  <2>1. result'[a] \in Payloads
    BY <1>4, JudgedType
  <2>2. QED
    BY <1>4, <2>1 DEF JudgeDeals
<1>5. CASE Draft(a)
  BY <1>0, <1>5 DEF Draft
<1>6. CASE Replace(a)
  <2>1. documents' \in [Names -> Payloads \cup {Absent}]
    BY <1>0, <1>6 DEF Replace
  <2>2. drafts' \in [Names -> Payloads \cup {Absent}]
    BY <1>0, <1>6 DEF Replace
  <2>3. QED
    BY <1>6, <2>1, <2>2 DEF Replace
<1>7. QED
  BY <1>1, <1>2, <1>3, <1>4, <1>5, <1>6 DEF Audit

LEMMA FailTypes ==
    ASSUME TypeInv, NEW c \in Commands, Fail(c)
    PROVE  TypeInv'
<1>1. {c} \in SUBSET Commands /\ Forget({c})
  BY DEF Fail
<1>2. QED
  BY <1>1, ForgetTypes DEF Fail, exportFiles, auditFiles, TypeInv, TypeOK

LEMMA PowerFailureTypes == TypeInv /\ PowerFailure => TypeInv'
<1> SUFFICES ASSUME TypeInv, PowerFailure PROVE TypeInv'
  OBVIOUS
<1>1. {c \in Commands : Running(c)} \in SUBSET Commands
  OBVIOUS
<1>2. Forget({c \in Commands : Running(c)})
  BY DEF PowerFailure
<1>3. table' \in Tables \cup {Absent}
  BY DamagedTable, DamagedNothing DEF PowerFailure, TypeInv, TypeOK
<1>4. manifest' \in Manifests \cup {Torn, Absent}
  BY DamagedManifest, DamagedNothing DEF PowerFailure, TypeInv, TypeOK
<1>5. documents' \in [Names -> Payloads \cup {Absent}]
  <2>1. PICK lost \in SUBSET Names :
           documents' = [n \in Names |->
              IF n \in lost THEN Damaged(documents[n]) ELSE documents[n]]
    BY DEF PowerFailure
  <2>2. \A n \in Names : documents[n] \in Payloads \cup {Absent}
    BY DEF TypeInv, TypeOK
  <2>3. \A n \in Names : Damaged(documents[n]) \in Payloads \cup {Absent}
    BY <2>2, DamagedPayload, DamagedNothing
  <2>4. QED
    BY <2>1, <2>2, <2>3
<1>6. failures' \in 0..MaxFailures
  BY EvidenceAssumption DEF PowerFailure, TypeInv, TypeOK
<1>7. UNCHANGED <<partial, drafts>>
  BY DEF PowerFailure
<1>8. QED
  BY <1>1, <1>2, <1>3, <1>4, <1>5, <1>6, <1>7, ForgetTypes DEF TypeInv, TypeOK

LEMMA StepTypes == TypeInv /\ [Next]_vars => TypeInv'
<1> SUFFICES ASSUME TypeInv, [Next]_vars PROVE TypeInv'
  OBVIOUS
<1>1. CASE UNCHANGED vars
  BY <1>1 DEF vars, exportFiles, auditFiles, locals, TypeInv, TypeOK, Loaded
<1>2. QED
  BY <1>1, ExportTypes, AuditTypes, FailTypes, PowerFailureTypes DEF Next

\* Type correctness, of runs of a command at the same time too.
THEOREM EvidenceTypeCorrect == Spec => []TypeOK
<1>1. TypeInv => TypeOK
  BY DEF TypeInv
<1>2. QED
  BY InitTypes, StepTypes, <1>1, PTL DEF Spec

-----------------------------------------------------------------------------
(***************************************************************************)
(* Exports one after the other                                             *)
(***************************************************************************)
Alone ==
    \A c, d \in Commands : Running(c) /\ Running(d) /\ d \in SameCommand(c) => c = d

\* What an export that is going on has found or made.
Exporting(e) ==
    /\ pc[e] \in {"open", "query"} => table = Absent /\ manifest = Absent
    /\ pc[e] = "query" => partial = e
    /\ pc[e] \in {"hash", "manifest"} =>
           table = [by |-> e, whole |-> TRUE] /\ Len(summary[e]) = count[e]
    /\ pc[e] = "hash" => manifest = Absent
    /\ pc[e] = "manifest" => manifest = Torn /\ view[e] = table

\* What one that is over has left.
Exported(e) ==
    pc[e] = "done" =>
        /\ table \in Tables /\ table.by = e
        /\ manifest \in Manifests /\ manifest.by = e
        /\ manifest.table = [by |-> e, whole |-> TRUE]
        /\ manifest.events = summary[e] /\ Len(summary[e]) = count[e]

Described == manifest \in Manifests => pc[manifest.by] = "done"

ExportInv == (\A e \in Exports : Exporting(e) /\ Exported(e)) /\ Described

LEMMA InitAlone == Init => Alone
BY DEF Init, Alone, Running, Commands

LEMMA OnlyOneMoves ==
    ASSUME TypeInv, NEW c \in Commands, Fail(c) \/ (c \in Exports /\ Export(c))
                                        \/ (c \in Audits /\ Audit(c))
    PROVE  /\ \A d \in Commands \ {c} : pc'[d] = pc[d]
           /\ Running(c) \/ MayBegin(c)
<1> USE DEF TypeInv, TypeOK, Commands, Running, Goto
<1>1. CASE Fail(c)
  BY <1>1 DEF Fail, Forget
<1>2. CASE c \in Exports /\ Export(c)
  BY <1>2 DEF Export, BeginExport, LookForEvidence, OpenPartial, Query, ReplaceTable,
              HashTable, WriteManifest
<1>3. CASE c \in Audits /\ Audit(c)
  BY <1>3 DEF Audit, LoadManifest, CompareTable, JudgeTicks, JudgeDeals, Draft, Replace,
              locals
<1>4. QED
  BY <1>1, <1>2, <1>3

LEMMA SameSame ==
    ASSUME NEW c \in Commands, NEW d \in Commands, d \in SameCommand(c)
    PROVE  c \in SameCommand(d)
BY EvidenceAssumption DEF SameCommand, Commands, Audits

LEMMA StepAlone ==
    ASSUME Sequential PROVE TypeInv /\ Alone /\ [Next]_vars => Alone'
<1> SUFFICES ASSUME TypeInv, Alone, [Next]_vars PROVE Alone'
  OBVIOUS
<1>1. ASSUME NEW c \in Commands, \A d \in Commands \ {c} : pc'[d] = pc[d],
             Running(c) \/ MayBegin(c)
      PROVE  Alone'
  BY <1>1, SameSame DEF Alone, Running, MayBegin
<1>2. CASE PowerFailure
  BY <1>2 DEF PowerFailure, Forget, Alone, Running
<1>3. CASE UNCHANGED vars
  BY <1>3 DEF vars, Alone, Running
<1>4. QED
  BY <1>1, <1>2, <1>3, OnlyOneMoves DEF Next, Commands

LEMMA InitExport == Init => ExportInv
<1> SUFFICES ASSUME Init PROVE ExportInv
  OBVIOUS
<1>1. \A e \in Exports : pc[e] = "idle"
  BY DEF Init, Commands
<1>2. manifest \notin Manifests
  BY FilesAssumption DEF Init
<1>3. QED
  BY <1>1, <1>2 DEF ExportInv, Exporting, Exported, Described

\* While one export goes on, no other does.
LEMMA OthersNotExporting ==
    ASSUME Alone, NEW e \in Exports, Running(e), NEW f \in Exports, f # e
    PROVE  pc[f] \notin {"look", "open", "query", "hash", "manifest"}
BY DEF Alone, Running, Commands, SameCommand

\* As long as there is no manifest, no export is over.
LEMMA NoneExported ==
    ASSUME ExportInv, manifest \in {Absent, Torn}, NEW f \in Exports
    PROVE  pc[f] # "done"
BY FilesAssumption DEF ExportInv, Exported

LEMMA BeginStep ==
    ASSUME TypeInv, ExportInv, NEW e \in Exports, BeginExport(e)
    PROVE  ExportInv'
<1>1. /\ \A f \in Exports \ {e} : pc'[f] = pc[f] /\ count'[f] = count[f]
      /\ pc[e] = "idle" /\ pc'[e] \in {"look", "failed"}
      /\ UNCHANGED <<partial, table, manifest, summary, view>>
  BY DEF BeginExport, MayBegin, Goto, exportFiles, TypeInv, TypeOK, Commands
<1>2. ASSUME NEW f \in Exports PROVE Exporting(f)' /\ Exported(f)'
  BY <1>1 DEF ExportInv, Exporting, Exported
<1>3. Described'
  BY <1>1 DEF ExportInv, Described, Manifests
<1>4. QED
  BY <1>2, <1>3 DEF ExportInv

\* A step of the export going on that leaves the manifest unreadable.
LEMMA ExportGoesOn ==
    ASSUME Alone, ExportInv, NEW e \in Exports, Running(e), manifest \in {Absent, Torn},
           manifest' \in {Absent, Torn}, \A f \in Exports \ {e} : pc'[f] = pc[f],
           pc'[e] # "done", Exporting(e)'
    PROVE  ExportInv'
<1>1. ASSUME NEW f \in Exports PROVE Exporting(f)' /\ Exported(f)'
  <2>1. CASE f = e
    BY <2>1 DEF Exported
  <2>2. CASE f # e
    <3>1. pc'[f] \notin {"open", "query", "hash", "manifest", "done"}
      BY <2>2, OthersNotExporting, NoneExported
    <3>2. QED
      BY <3>1 DEF Exporting, Exported
  <2>3. QED
    BY <2>1, <2>2
<1>2. Described'
  BY FilesAssumption DEF Described
<1>3. QED
  BY <1>1, <1>2 DEF ExportInv

LEMMA LookStep ==
    ASSUME TypeInv, Alone, ExportInv, NEW e \in Exports, LookForEvidence(e)
    PROVE  ExportInv'
<1>1. /\ \A f \in Exports \ {e} : pc'[f] = pc[f]
      /\ pc[e] = "look" /\ pc'[e] = IF table = Absent /\ manifest = Absent
                                    THEN "open" ELSE "failed"
      /\ UNCHANGED <<partial, table, manifest, summary, view, count>>
  BY DEF LookForEvidence, Goto, exportFiles, locals, TypeInv, TypeOK, Commands
<1>2. ASSUME NEW f \in Exports PROVE Exporting(f)' /\ Exported(f)'
  BY <1>1 DEF ExportInv, Exporting, Exported
<1>3. Described'
  BY <1>1 DEF ExportInv, Described, Manifests
<1>4. QED
  BY <1>2, <1>3 DEF ExportInv

LEMMA OpenStep ==
    ASSUME TypeInv, Alone, ExportInv, NEW e \in Exports, OpenPartial(e)
    PROVE  ExportInv'
<1>1. /\ \A f \in Exports \ {e} : pc'[f] = pc[f]
      /\ pc[e] = "open" /\ pc'[e] = "query" /\ partial' = e
      /\ UNCHANGED <<table, manifest>>
  BY DEF OpenPartial, Goto, TypeInv, TypeOK, Commands
<1>2. table = Absent /\ manifest = Absent
  BY <1>1 DEF ExportInv, Exporting
<1>3. Exporting(e)'
  BY <1>1, <1>2 DEF Exporting
<1>4. QED
  BY <1>1, <1>2, <1>3, ExportGoesOn DEF Running

LEMMA QueryStep ==
    ASSUME TypeInv, Alone, ExportInv, NEW e \in Exports, Query(e)
    PROVE  ExportInv'
<1>1. pc[e] = "query" /\ UNCHANGED <<pc, table, manifest>>
  BY DEF Query
<1>2. table = Absent /\ manifest = Absent /\ partial = e
  BY <1>1 DEF ExportInv, Exporting
<1>3. partial' = e
  BY <1>2 DEF Query
<1>4. Exporting(e)'
  BY <1>1, <1>2, <1>3 DEF Exporting
<1>5. QED
  BY <1>1, <1>2, <1>4, ExportGoesOn DEF Running

LEMMA ReplaceTableStep ==
    ASSUME TypeInv, Alone, ExportInv, NEW e \in Exports, ReplaceTable(e)
    PROVE  ExportInv' /\ table = Absent /\ manifest = Absent /\ manifest' = manifest
           /\ table' = [by |-> e, whole |-> TRUE]
<1>1. /\ \A f \in Exports \ {e} : pc'[f] = pc[f]
      /\ pc[e] = "query" /\ pc'[e] = "hash" /\ Len(summary[e]) = count[e]
      /\ table' = [by |-> partial, whole |-> TRUE]
      /\ UNCHANGED <<manifest, summary, count>>
  BY DEF ReplaceTable, Goto, locals, TypeInv, TypeOK, Commands
<1>2. table = Absent /\ manifest = Absent /\ partial = e
  BY <1>1 DEF ExportInv, Exporting
<1>3. Exporting(e)'
  BY <1>1, <1>2 DEF Exporting
<1>4. QED
  BY <1>1, <1>2, <1>3, ExportGoesOn DEF Running

LEMMA HashStep ==
    ASSUME TypeInv, Alone, ExportInv, NEW e \in Exports, HashTable(e)
    PROVE  ExportInv' /\ manifest = Absent /\ manifest' = Torn /\ table' = table
<1>1. /\ \A f \in Exports \ {e} : pc'[f] = pc[f]
      /\ pc[e] = "hash" /\ pc'[e] = "manifest" /\ view'[e] = table /\ manifest' = Torn
      /\ UNCHANGED <<table, summary, count>>
  BY DEF HashTable, Goto, TypeInv, TypeOK, Commands
<1>2. manifest = Absent /\ table = [by |-> e, whole |-> TRUE] /\ Len(summary[e]) = count[e]
  BY <1>1 DEF ExportInv, Exporting
<1>3. Exporting(e)'
  BY <1>1, <1>2 DEF Exporting
<1>4. QED
  BY <1>1, <1>2, <1>3, ExportGoesOn DEF Running

LEMMA ManifestStep ==
    ASSUME TypeInv, Alone, ExportInv, NEW e \in Exports, WriteManifest(e)
    PROVE  /\ ExportInv' /\ manifest = Torn /\ table' = table
           /\ table = [by |-> e, whole |-> TRUE] /\ manifest' \in Manifests
           /\ manifest'.by = e /\ manifest'.whole = TRUE
<1>1. /\ \A f \in Exports \ {e} : pc'[f] = pc[f]
      /\ pc[e] = "manifest" /\ pc'[e] = "done"
      /\ manifest' = [by |-> e, whole |-> TRUE, table |-> view[e], events |-> summary[e]]
      /\ UNCHANGED <<table, summary, count>>
  BY DEF WriteManifest, Goto, locals, TypeInv, TypeOK, Commands
<1>2. /\ manifest = Torn /\ view[e] = table /\ table = [by |-> e, whole |-> TRUE]
      /\ Len(summary[e]) = count[e]
  BY <1>1 DEF ExportInv, Exporting
<1>3. table \in Tables
  BY <1>2 DEF Tables
<1>4. summary[e] \in Seq(Outcomes)
  BY DEF TypeInv, TypeOK
<1>5. manifest' \in Manifests
  BY <1>1, <1>2, <1>3, <1>4 DEF Manifests
<1>6. manifest'.by = e /\ manifest'.table = [by |-> e, whole |-> TRUE]
      /\ manifest'.events = summary[e]
  BY <1>1, <1>2
<1>7. Exporting(e)' /\ Exported(e)'
  BY <1>1, <1>2, <1>3, <1>5, <1>6 DEF Exporting, Exported
<1>8. ASSUME NEW f \in Exports, f # e PROVE Exporting(f)' /\ Exported(f)'
  <2>1. pc'[f] \notin {"open", "query", "hash", "manifest", "done"}
    BY <1>1, <1>2, <1>8, OthersNotExporting, NoneExported DEF Running
  <2>2. QED
    BY <2>1 DEF Exporting, Exported
<1>9. Described'
  BY <1>1, <1>6 DEF Described
<1>10. manifest'.whole = TRUE
  BY <1>1
<1>11. QED
  BY <1>1, <1>2, <1>5, <1>6, <1>7, <1>8, <1>9, <1>10 DEF ExportInv

\* What an audit does leaves the export and what it has made alone.
LEMMA AuditLeavesExports ==
    ASSUME TypeInv, NEW a \in Audits, Audit(a)
    PROVE  /\ UNCHANGED <<partial, table, manifest, count, summary>>
           /\ \A e \in Exports : pc'[e] = pc[e] /\ view'[e] = view[e]
<1> USE EvidenceAssumption
    DEF TypeInv, TypeOK, Commands, exportFiles, auditFiles, locals, Goto
<1>0. \A e \in Exports : e # a
  OBVIOUS
<1>1. CASE LoadManifest(a)
  BY <1>0, <1>1 DEF LoadManifest
<1>2. CASE CompareTable(a) \/ JudgeTicks(a) \/ JudgeDeals(a)
  BY <1>0, <1>2 DEF CompareTable, JudgeTicks, JudgeDeals
<1>3. CASE Draft(a) \/ Replace(a)
  BY <1>0, <1>3 DEF Draft, Replace
<1>4. QED
  BY <1>1, <1>2, <1>3 DEF Audit

LEMMA ExportsStay ==
    ASSUME ExportInv, UNCHANGED <<partial, table, manifest, count, summary>>,
           \A e \in Exports : pc'[e] = pc[e] /\ view'[e] = view[e]
    PROVE  ExportInv'
BY DEF ExportInv, Exporting, Exported, Described, Manifests

\* Killed, an export leaves its place; one that is over is never killed.
LEMMA ForgetExports ==
    ASSUME TypeInv, ExportInv, NEW ended \in SUBSET Commands, Forget(ended),
           \A c \in ended : Running(c), NEW e \in Exports
    PROVE  /\ e \in ended => pc[e] # "done" /\ pc'[e] = "failed"
           /\ e \notin ended => pc'[e] = pc[e] /\ view'[e] = view[e]
                                /\ summary'[e] = summary[e] /\ count'[e] = count[e]
BY DEF Forget, Running, Commands

LEMMA FailStep ==
    ASSUME TypeInv, ExportInv, NEW c \in Commands, Fail(c)
    PROVE  ExportInv' /\ UNCHANGED <<exportFiles, auditFiles>>
<1>1. /\ Forget({c}) /\ Running(c) /\ {c} \in SUBSET Commands
      /\ UNCHANGED <<exportFiles, auditFiles>>
  BY DEF Fail
<1>2. UNCHANGED <<partial, table, manifest>>
  BY <1>1 DEF exportFiles
<1>3. ASSUME NEW e \in Exports PROVE Exporting(e)' /\ Exported(e)'
  <2>1. CASE e = c
    BY <1>1, <2>1, ForgetExports DEF Exporting, Exported
  <2>2. CASE e # c
    <3>1. pc'[e] = pc[e] /\ view'[e] = view[e] /\ summary'[e] = summary[e]
          /\ count'[e] = count[e]
      BY <1>1, <2>2, ForgetExports
    <3>2. Exporting(e)'
      BY <1>2, <3>1 DEF ExportInv, Exporting
    <3>3. Exported(e)'
      BY <1>2, <3>1 DEF ExportInv, Exported
    <3>4. QED
      BY <3>2, <3>3
  <2>3. QED
    BY <2>1, <2>2
<1>4. Described'
  <2> SUFFICES ASSUME manifest \in Manifests PROVE pc'[manifest.by] = "done"
    BY <1>2 DEF Described
  <2>1. manifest.by \in Exports /\ pc[manifest.by] = "done"
    BY DEF ExportInv, Described, Manifests
  <2>2. QED
    BY <1>1, <2>1, ForgetExports
<1>5. QED
  BY <1>1, <1>3, <1>4 DEF ExportInv

\* What a power failure can do to table and manifest.
LEMMA Survives ==
    ASSUME TypeInv, PowerFailure
    PROVE  /\ table = Absent => table' = Absent
           /\ table \in Tables => table' \in Tables /\ table'.by = table.by
           /\ manifest \in {Absent, Torn} => manifest' = manifest
           /\ manifest \in Manifests =>
                 /\ manifest' \in Manifests /\ manifest'.by = manifest.by
                 /\ manifest'.table = manifest.table /\ manifest'.events = manifest.events
BY DamagedTable, DamagedManifest, DamagedNothing DEF PowerFailure

LEMMA PowerFailureStep ==
    ASSUME TypeInv, ExportInv, PowerFailure
    PROVE  ExportInv'
<1> DEFINE ended == {c \in Commands : Running(c)}
<1>1. Forget(ended) /\ ended \in SUBSET Commands /\ \A c \in ended : Running(c)
  BY DEF PowerFailure
<1> HIDE DEF ended
<1>2. ASSUME NEW e \in Exports PROVE pc'[e] \notin {"open", "query", "hash", "manifest"}
  <2>1. CASE e \in ended
    BY <1>1, <2>1, ForgetExports
  <2>2. CASE e \notin ended
    <3>1. pc[e] \in {"idle", "done", "failed"}
      BY <2>2 DEF ended, Running, Commands
    <3>2. QED
      BY <1>1, <2>2, <3>1, ForgetExports
  <2>3. QED
    BY <2>1, <2>2
<1>3. ASSUME NEW e \in Exports PROVE Exporting(e)' /\ Exported(e)'
  <2>1. Exporting(e)'
    BY <1>2 DEF Exporting
  <2>2. CASE e \in ended
    BY <1>1, <2>1, <2>2, ForgetExports DEF Exported
  <2>3. CASE e \notin ended
    <3>1. pc'[e] = pc[e] /\ summary'[e] = summary[e] /\ count'[e] = count[e]
      BY <1>1, <2>3, ForgetExports
    <3>2. Exported(e)
      BY DEF ExportInv
    <3>3. Exported(e)'
      BY <3>1, <3>2, Survives DEF Exported
    <3>4. QED
      BY <2>1, <3>3
  <2>4. QED
    BY <2>2, <2>3
<1>4. Described'
  <2> SUFFICES ASSUME manifest' \in Manifests PROVE pc'[manifest'.by] = "done"
    BY DEF Described
  <2>1. manifest \in Manifests
    BY Survives, FilesAssumption DEF TypeInv, TypeOK
  <2>2. manifest'.by = manifest.by /\ manifest.by \in Exports /\ pc[manifest.by] = "done"
    BY <2>1, Survives DEF ExportInv, Described, Manifests
  <2>3. manifest.by \notin ended
    BY <2>2 DEF ended, Running
  <2>4. QED
    BY <1>1, <2>2, <2>3, ForgetExports
<1>5. QED
  BY <1>3, <1>4 DEF ExportInv

LEMMA StepExport == TypeInv /\ Alone /\ ExportInv /\ [Next]_vars => ExportInv'
<1> SUFFICES ASSUME TypeInv, Alone, ExportInv, [Next]_vars PROVE ExportInv'
  OBVIOUS
<1>1. ASSUME NEW e \in Exports, Export(e) PROVE ExportInv'
  BY <1>1, BeginStep, LookStep, OpenStep, QueryStep, ReplaceTableStep, HashStep,
     ManifestStep DEF Export
<1>2. ASSUME NEW a \in Audits, Audit(a) PROVE ExportInv'
  BY <1>2, AuditLeavesExports, ExportsStay
<1>3. CASE UNCHANGED vars
  BY <1>3, ExportsStay DEF vars, exportFiles, locals
<1>4. QED
  BY <1>1, <1>2, <1>3, FailStep, PowerFailureStep DEF Next

LEMMA ExportsInvariant ==
    ASSUME Sequential PROVE Spec => [](TypeInv /\ Alone /\ ExportInv)
<1>1. Init => TypeInv /\ Alone /\ ExportInv
  BY InitTypes, InitAlone, InitExport
<1>2. TypeInv /\ Alone /\ ExportInv /\ [Next]_vars => (TypeInv /\ Alone /\ ExportInv)'
  BY StepTypes, StepAlone, StepExport
<1>3. QED
  BY <1>1, <1>2, PTL DEF Spec

\* A manifest that can be read describes the table beside it, of one run with
\* every event of that run, whatever was killed or cut off before.
THEOREM ManifestOfItsTable ==
    ASSUME Sequential PROVE Spec => []ManifestDescribesTable
<1>1. TypeInv /\ ExportInv => ManifestDescribesTable
  <2> SUFFICES ASSUME TypeInv, ExportInv, Written(manifest)
               PROVE  /\ Written(table) /\ table.by = manifest.by
                      /\ manifest.table = [by |-> manifest.by, whole |-> TRUE]
                      /\ Len(manifest.events) = count[manifest.by]
    BY DEF ManifestDescribesTable
  <2>1. manifest \in Manifests
    BY DEF Written, TypeInv, TypeOK
  <2>2. manifest.by \in Exports /\ pc[manifest.by] = "done" /\ Exported(manifest.by)
    BY <2>1 DEF ExportInv, Described, Manifests
  <2>3. QED
    BY <2>2, FilesAssumption DEF Exported, Written
<1>2. QED
  BY ExportsInvariant, <1>1, PTL

-----------------------------------------------------------------------------
(***************************************************************************)
(* The implementation of SealedEvidence by the export                      *)
(***************************************************************************)
ExportShown == [d \in 1..2 |-> IF d = 1 THEN Shown(table) ELSE Shown(manifest)]

LEMMA ShownFile ==
    ASSUME NEW f, f \in Tables \/ f \in Manifests \/ f \in Payloads
    PROVE  /\ Shown(f) = [by |-> f.by, whole |-> f.whole] /\ Shown(f).by = f.by
           /\ Shown(f) # Absent
<1>1. Shown(f) = [by |-> f.by, whole |-> f.whole]
  BY FilesAssumption DEF Shown, Written
<1>2. f.by \in Commands \cup {Mixed} /\ f.whole \in BOOLEAN
  BY DEF Tables, Manifests, Payloads, Commands
<1>3. Shown(f) \in [by : Commands \cup {Mixed}, whole : BOOLEAN]
  BY <1>1, <1>2
<1>4. QED
  BY <1>1, <1>3, FilesAssumption

LEMMA ShownNothing == Shown(Absent) = Absent /\ Shown(Torn) = Absent
BY DEF Shown, Written

LEMMA ExportSealingInit == Init => ExportSealing!Init
BY ShownNothing DEF Init, ExportSealing!Init, ExportSealing!Documents

LEMMA SealTable ==
    ASSUME TypeInv, Alone, ExportInv, NEW e \in Exports, ReplaceTable(e)
    PROVE  ExportSealing!Seal(1, e)
<1>1. table = Absent /\ manifest' = manifest /\ table' = [by |-> e, whole |-> TRUE]
  BY ReplaceTableStep
<1>2. table' \in Tables
  BY <1>1 DEF Tables
<1>3. Shown(table)' = [by |-> e, whole |-> TRUE]
  BY <1>1, <1>2, FilesAssumption DEF Shown, Written
<1>4. Shown(manifest)' = Shown(manifest)
  BY <1>1 DEF Shown, Written
<1>5. ExportShown' = [ExportShown EXCEPT ![1] = [by |-> e, whole |-> TRUE]]
  BY <1>3, <1>4 DEF ExportShown
<1>6. ExportShown[1] = Absent
  BY <1>1, ShownNothing DEF ExportShown
<1>7. 1..(1 - 1) = {}
  OBVIOUS
<1>8. QED
  BY <1>5, <1>6, <1>7 DEF ExportShown, ExportSealing!Seal, ExportSealing!Sealed

LEMMA SealManifest ==
    ASSUME TypeInv, Alone, ExportInv, NEW e \in Exports, WriteManifest(e)
    PROVE  ExportSealing!Seal(2, e)
<1>1. /\ manifest = Torn /\ table' = table /\ table = [by |-> e, whole |-> TRUE]
      /\ manifest' \in Manifests /\ manifest'.by = e /\ manifest'.whole = TRUE
  BY ManifestStep
<1>2. table \in Tables
  BY <1>1 DEF Tables
<1>3. Shown(table) # Absent /\ Shown(table).by = e
  BY <1>1, <1>2, ShownFile
<1>4. Shown(manifest)' = [by |-> e, whole |-> TRUE]
  BY <1>1, FilesAssumption DEF Shown, Written
<1>5. Shown(table)' = Shown(table)
  BY <1>1 DEF Shown, Written
<1>6. ExportShown' = [ExportShown EXCEPT ![2] = [by |-> e, whole |-> TRUE]]
  <2>1. ASSUME NEW d \in 1..2
        PROVE  (IF d = 1 THEN Shown(table) ELSE Shown(manifest))'
                = IF d = 2 THEN [by |-> e, whole |-> TRUE] ELSE ExportShown[d]
    <3>1. CASE d = 1
      BY <1>5, <3>1 DEF ExportShown
    <3>2. CASE d = 2
      BY <1>4, <3>2
    <3>3. QED
      BY <3>1, <3>2
  <2>2. ExportShown' = [d \in 1..2 |->
                          IF d = 2 THEN [by |-> e, whole |-> TRUE] ELSE ExportShown[d]]
    BY <2>1 DEF ExportShown
  <2>3. DOMAIN ExportShown = 1..2
    BY DEF ExportShown
  <2>4. QED
    BY <2>2, <2>3
<1>7. ExportShown[2] = Absent
  BY <1>1, ShownNothing DEF ExportShown
<1>8. \A d \in 1..(2 - 1) : ExportShown[d] # Absent /\ ExportShown[d].by = e
  BY <1>3 DEF ExportShown
<1>9. QED
  BY <1>6, <1>7, <1>8 DEF ExportShown, ExportSealing!Seal, ExportSealing!Sealed

\* A damaged file shows as a damaged document, an absent one as none.
LEMMA ShownDamaged ==
    ASSUME NEW f, f \in Tables \cup Manifests \cup Payloads \cup {Torn, Absent}
    PROVE  Shown(Damaged(f)) = IF Shown(f) # Absent
                               THEN [by |-> Shown(f).by, whole |-> FALSE] ELSE Shown(f)
<1>1. CASE f \in {Torn, Absent}
  BY <1>1, DamagedNothing, ShownNothing
<1>2. CASE f \in Tables \cup Manifests \cup Payloads
  <2>1. Damaged(f) \in Tables \cup Manifests \cup Payloads
        /\ Damaged(f).by = f.by /\ Damaged(f).whole = FALSE
    BY <1>2, DamagedTable, DamagedManifest, DamagedPayload
  <2>2. Shown(Damaged(f)) = [by |-> f.by, whole |-> FALSE]
    BY <2>1, ShownFile
  <2>3. Shown(f).by = f.by /\ Shown(f) # Absent
    BY <1>2, ShownFile
  <2>4. QED
    BY <2>2, <2>3
<1>3. QED
  BY <1>1, <1>2

LEMMA ExportStep ==
    ASSUME TypeInv, Alone, ExportInv, NEW e \in Exports, Export(e)
    PROVE  \/ UNCHANGED <<table, manifest>>
           \/ manifest = Absent /\ manifest' = Torn /\ table' = table
           \/ ReplaceTable(e) \/ WriteManifest(e)
BY HashStep DEF Export, BeginExport, LookForEvidence, OpenPartial, Query, exportFiles

LEMMA PowerFailureDamages ==
    ASSUME TypeInv, PowerFailure
    PROVE  \E lost \in SUBSET (1..2) : ExportSealing!Damage(lost)
<1> DEFINE lost == {d \in 1..2 : \/ d = 1 /\ table' = Damaged(table)
                                 \/ d = 2 /\ manifest' = Damaged(manifest)}
<1>1. table' \in {table, Damaged(table)} /\ manifest' \in {manifest, Damaged(manifest)}
  BY DEF PowerFailure
<1>2. Shown(table)' = IF 1 \in lost /\ Shown(table) # Absent
                      THEN [by |-> Shown(table).by, whole |-> FALSE] ELSE Shown(table)
  <2>1. CASE table' = Damaged(table)
    <3>1. Shown(table)' = Shown(Damaged(table))
      BY <2>1 DEF Shown, Written
    <3>2. QED
      BY <2>1, <3>1, ShownDamaged DEF TypeInv, TypeOK
  <2>2. CASE table' = table /\ table' # Damaged(table)
    BY <2>2 DEF Shown, Written
  <2>3. QED
    BY <1>1, <2>1, <2>2
<1>3. Shown(manifest)' = IF 2 \in lost /\ Shown(manifest) # Absent
                         THEN [by |-> Shown(manifest).by, whole |-> FALSE] ELSE Shown(manifest)
  <2>1. CASE manifest' = Damaged(manifest)
    <3>1. Shown(manifest)' = Shown(Damaged(manifest))
      BY <2>1 DEF Shown, Written
    <3>2. QED
      BY <2>1, <3>1, ShownDamaged DEF TypeInv, TypeOK
  <2>2. CASE manifest' = manifest /\ manifest' # Damaged(manifest)
    BY <2>2 DEF Shown, Written
  <2>3. QED
    BY <1>1, <2>1, <2>2
<1> HIDE DEF lost
<1>4. ASSUME NEW d \in 1..2
      PROVE  (IF d = 1 THEN Shown(table) ELSE Shown(manifest))'
              = IF d \in lost /\ ExportShown[d] # Absent
                THEN [by |-> ExportShown[d].by, whole |-> FALSE] ELSE ExportShown[d]
  <2>1. CASE d = 1
    BY <1>2, <2>1 DEF ExportShown
  <2>2. CASE d = 2
    BY <1>3, <2>2 DEF ExportShown
  <2>3. QED
    BY <2>1, <2>2
<1>5. ExportSealing!Damage(lost)
  <2>1. ExportShown' = [d \in 1..2 |->
                          IF d \in lost /\ ExportShown[d] # Absent
                          THEN [by |-> ExportShown[d].by, whole |-> FALSE] ELSE ExportShown[d]]
    <3>1. ExportShown' = [d \in 1..2 |-> (IF d = 1 THEN Shown(table) ELSE Shown(manifest))']
      BY DEF ExportShown
    <3>2. QED
      BY <1>4, <3>1
  <2>2. QED
    BY <2>1 DEF ExportShown, ExportSealing!Damage, ExportSealing!Documents
<1>6. lost \in SUBSET (1..2)
  BY DEF lost
<1>7. QED
  BY <1>5, <1>6 DEF ExportSealing!Damage

LEMMA ExportStepMaps ==
    TypeInv /\ Alone /\ ExportInv /\ [Next]_vars
        => ExportSealing!Next \/ ExportShown' = ExportShown
<1> SUFFICES ASSUME TypeInv, Alone, ExportInv, [Next]_vars
             PROVE  ExportSealing!Next \/ ExportShown' = ExportShown
  OBVIOUS
<1>1. ASSUME UNCHANGED <<table, manifest>> PROVE ExportShown' = ExportShown
  BY <1>1 DEF ExportShown, Shown, Written
<1>2. ASSUME NEW e \in Exports, Export(e)
      PROVE  ExportSealing!Next \/ ExportShown' = ExportShown
  <2>1. CASE manifest = Absent /\ manifest' = Torn /\ table' = table
    <3>1. Shown(manifest)' = Shown(manifest) /\ Shown(table)' = Shown(table)
      BY <2>1 DEF Shown, Written
    <3>2. QED
      BY <3>1 DEF ExportShown
  <2>2. CASE ReplaceTable(e)
    BY <2>2, SealTable DEF ExportSealing!Next, ExportSealing!Documents
  <2>3. CASE WriteManifest(e)
    BY <2>3, SealManifest DEF ExportSealing!Next, ExportSealing!Documents
  <2>4. QED
    BY <1>1, <1>2, <2>1, <2>2, <2>3, ExportStep
<1>3. ASSUME NEW a \in Audits, Audit(a) PROVE UNCHANGED <<table, manifest>>
  BY <1>3, AuditLeavesExports
<1>4. ASSUME NEW c \in Commands, Fail(c) PROVE UNCHANGED <<table, manifest>>
  BY <1>4 DEF Fail, exportFiles
<1>5. CASE PowerFailure
  BY <1>5, PowerFailureDamages DEF ExportSealing!Next, ExportSealing!Documents
<1>6. CASE UNCHANGED vars
  BY <1>1, <1>6 DEF vars, exportFiles
<1>7. QED
  BY <1>1, <1>2, <1>3, <1>4, <1>5, <1>6 DEF Next

\* Exports one after the other implement SealedEvidence: the table before its
\* manifest, each once and of one run, and only damage after that.
THEOREM ExportSealsInOrder ==
    ASSUME Sequential PROVE Spec => ExportSealsEvidence
<1>1. TypeInv /\ Alone /\ ExportInv /\ [Next]_vars =>
         [ExportSealing!Next]_[d \in 1..2 |->
                                 IF d = 1 THEN Shown(table) ELSE Shown(manifest)]
  BY ExportStepMaps DEF ExportShown
<1>2. QED
  BY ExportsInvariant, ExportSealingInit, <1>1, PTL DEF Spec, ExportSealsEvidence, ExportSealing!Spec

-----------------------------------------------------------------------------
(***************************************************************************)
(* Audits one after the other                                              *)
(***************************************************************************)
\* A payload about the manifest m, decided by its events.
Traceable(kind, doc, m) ==
    /\ doc.manifest = doc.loaded /\ doc.loaded \in Manifests /\ doc.loaded.whole
    /\ m.by = doc.loaded.by /\ m.events = doc.loaded.events
    /\ kind = "tick" => doc.table = doc.loaded.table
    /\ doc.certified = IF kind = "tick" THEN TicksCertified(doc.loaded.events)
                       ELSE DealsCertified(doc.loaded.events, doc.agreed)

HasWritten(a, d) ==
    documents[<<KindOf(a), d>>] # Absent /\ documents[<<KindOf(a), d>>].by = a

\* What an audit that is going on has loaded, decided and written.
Auditing(a) ==
    /\ pc[a] \in {"idle", "compare", "judge"} => at[a] = 1
    /\ pc[a] \in {"compare", "judge"} =>
           view[a] = manifest /\ manifest \in Manifests /\ manifest.whole
    /\ pc[a] = "judge" /\ a \in TickAudits => table = manifest.table
    /\ pc[a] \in {"write", "replace"} =>
           /\ result[a] \in Payloads /\ result[a].by = a /\ result[a].whole
           /\ manifest \in Manifests /\ Traceable(KindOf(a), result[a], manifest)
           /\ at[a] = 2 => HasWritten(a, 1)
    /\ pc[a] = "replace" =>
           drafts[DocumentOf(a)] = result[a] /\ documents[DocumentOf(a)] = Absent

Audited(a) == pc[a] = "done" => HasWritten(a, 1) /\ HasWritten(a, 2)

DocumentsTraceable ==
    \A n \in Names : documents[n] # Absent =>
        manifest \in Manifests /\ Traceable(n[1], documents[n], manifest)

AuditInv == (\A a \in Audits : Auditing(a) /\ Audited(a)) /\ DocumentsTraceable

LEMMA InitAudit == Init => AuditInv
BY DEF Init, AuditInv, Auditing, Audited, DocumentsTraceable, Commands

LEMMA DocumentName ==
    ASSUME TypeInv, NEW a \in Audits
    PROVE  /\ DocumentOf(a) \in Names /\ DocumentOf(a) = <<KindOf(a), at[a]>>
           /\ at[a] \in {1, 2} /\ KindOf(a) \in {"tick", "deal"}
BY DEF DocumentOf, Names, KindOf, TypeInv, TypeOK

\* Of another manifest with the same events, and of a damaged document, it says
\* the same.
LEMMA TraceableStays ==
    ASSUME NEW kind, NEW doc, NEW m, NEW n, Traceable(kind, doc, m),
           n.by = m.by, n.events = m.events
    PROVE  Traceable(kind, doc, n)
BY DEF Traceable

LEMMA TraceableDamaged ==
    ASSUME NEW kind, NEW doc \in Payloads, NEW m, Traceable(kind, doc, m)
    PROVE  Traceable(kind, Damaged(doc), m)
BY DamagedPayload DEF Traceable

\* What an export does leaves the audits and their documents alone.
LEMMA ExportLeavesAudits ==
    ASSUME TypeInv, NEW e \in Exports, Export(e)
    PROVE  /\ UNCHANGED <<drafts, documents, result, at>>
           /\ \A a \in Audits : pc'[a] = pc[a] /\ view'[a] = view[a]
<1> USE EvidenceAssumption
    DEF TypeInv, TypeOK, Commands, exportFiles, auditFiles, locals, Goto
<1>0. \A a \in Audits : e # a
  OBVIOUS
<1>1. CASE BeginExport(e) \/ LookForEvidence(e) \/ OpenPartial(e) \/ Query(e)
  BY <1>0, <1>1 DEF BeginExport, LookForEvidence, OpenPartial, Query
<1>2. CASE ReplaceTable(e) \/ HashTable(e) \/ WriteManifest(e)
  BY <1>0, <1>2 DEF ReplaceTable, HashTable, WriteManifest
<1>3. QED
  BY <1>1, <1>2 DEF Export

\* A manifest that can be read never changes under a command that goes on.
LEMMA ManifestStays ==
    ASSUME TypeInv, Alone, ExportInv, NEW e \in Exports, Export(e), manifest \in Manifests
    PROVE  UNCHANGED <<table, manifest>>
<1>1. manifest \notin {Absent, Torn}
  BY FilesAssumption
<1>2. QED
  BY <1>1, ExportStep, ReplaceTableStep, ManifestStep

LEMMA ExportAuditStep ==
    ASSUME TypeInv, Alone, ExportInv, AuditInv, NEW e \in Exports, Export(e)
    PROVE  AuditInv'
<1>1. /\ UNCHANGED <<drafts, documents, result, at>>
      /\ \A a \in Audits : pc'[a] = pc[a] /\ view'[a] = view[a]
  BY ExportLeavesAudits
<1>2. CASE manifest \in Manifests
  <2>1. UNCHANGED <<table, manifest>>
    BY <1>2, ManifestStays
  <2>2. ASSUME NEW a \in Audits PROVE Auditing(a)' /\ Audited(a)'
    BY <1>1, <2>1 DEF AuditInv, Auditing, Audited, HasWritten, DocumentOf, Traceable
  <2>3. DocumentsTraceable'
    BY <1>1, <2>1 DEF AuditInv, DocumentsTraceable, Traceable
  <2>4. QED
    BY <2>2, <2>3 DEF AuditInv
<1>3. CASE manifest \notin Manifests
  <2>1. \A n \in Names : documents[n] = Absent
    BY <1>3 DEF AuditInv, DocumentsTraceable
  <2>2. DocumentsTraceable'
    BY <1>1, <2>1 DEF DocumentsTraceable
  <2>3. ASSUME NEW a \in Audits PROVE Auditing(a)' /\ Audited(a)'
    <3>1. pc[a] \notin {"compare", "judge", "write", "replace"}
      BY <1>3 DEF AuditInv, Auditing
    <3>2. <<KindOf(a), 1>> \in Names
      BY DEF KindOf, Names
    <3>3. pc[a] # "done"
      BY <2>1, <3>2 DEF AuditInv, Audited, HasWritten
    <3>4. pc[a] = "idle" => at[a] = 1
      BY DEF AuditInv, Auditing
    <3>5. QED
      BY <1>1, <3>1, <3>3, <3>4 DEF Auditing, Audited
  <2>4. QED
    BY <2>2, <2>3 DEF AuditInv
<1>4. QED
  BY <1>2, <1>3

LEMMA FailAuditStep ==
    ASSUME TypeInv, ExportInv, AuditInv, NEW c \in Commands, Fail(c)
    PROVE  AuditInv'
<1>1. UNCHANGED <<table, manifest, drafts, documents>>
  BY DEF Fail, exportFiles, auditFiles
<1>2. ASSUME NEW a \in Audits PROVE Auditing(a)' /\ Audited(a)'
  <2>1. CASE a = c
    <3>1. pc'[a] = "failed"
      BY <2>1 DEF Fail, Forget
    <3>2. QED
      BY <3>1 DEF Auditing, Audited
  <2>2. CASE a # c
    <3>1. pc'[a] = pc[a] /\ view'[a] = view[a] /\ result'[a] = result[a] /\ at'[a] = at[a]
      BY <2>2 DEF Fail, Forget, Commands
    <3>2. QED
      BY <1>1, <3>1 DEF AuditInv, Auditing, Audited, HasWritten, DocumentOf, Traceable
  <2>3. QED
    BY <2>1, <2>2
<1>3. DocumentsTraceable'
  BY <1>1 DEF AuditInv, DocumentsTraceable, Traceable
<1>4. QED
  BY <1>2, <1>3 DEF AuditInv

\* Damage leaves a document in its place, and its author.
LEMMA DamageLeaves ==
    ASSUME TypeInv, PowerFailure, NEW n \in Names
    PROVE  /\ documents'[n] # Absent <=> documents[n] # Absent
           /\ documents[n] # Absent =>
                 /\ documents[n] \in Payloads /\ documents'[n].by = documents[n].by
                 /\ documents'[n] \in {documents[n], Damaged(documents[n])}
<1>1. documents'[n] \in {documents[n], Damaged(documents[n])}
  BY DEF PowerFailure
<1>2. documents[n] \in Payloads \cup {Absent}
  BY DEF TypeInv, TypeOK
<1>3. QED
  BY <1>1, <1>2, DamagedPayload, DamagedNothing

LEMMA PowerFailureAuditStep ==
    ASSUME TypeInv, ExportInv, AuditInv, PowerFailure
    PROVE  AuditInv'
<1>1. ASSUME NEW a \in Audits PROVE Auditing(a)' /\ Audited(a)'
  <2>1. CASE Running(a)
    <3>1. pc'[a] = "failed"
      BY <2>1 DEF PowerFailure, Forget, Commands
    <3>2. QED
      BY <3>1 DEF Auditing, Audited
  <2>2. CASE ~Running(a)
    <3>1. pc'[a] = pc[a] /\ at'[a] = at[a] /\ pc[a] \in {"idle", "done", "failed"}
      BY <2>2 DEF PowerFailure, Forget, Running, Commands
    <3>2. Auditing(a)'
      BY <3>1 DEF AuditInv, Auditing
    <3>3. <<KindOf(a), 1>> \in Names /\ <<KindOf(a), 2>> \in Names
      BY DEF KindOf, Names
    <3>4. ASSUME pc[a] = "done" PROVE HasWritten(a, 1)' /\ HasWritten(a, 2)'
      BY <3>3, <3>4, DamageLeaves DEF AuditInv, Audited, HasWritten
    <3>5. QED
      BY <3>1, <3>2, <3>4 DEF Audited
  <2>3. QED
    BY <2>1, <2>2
<1>2. ASSUME NEW n \in Names, documents'[n] # Absent
      PROVE  manifest' \in Manifests /\ Traceable(n[1], documents'[n], manifest')
  <2>1. /\ documents[n] \in Payloads
        /\ documents'[n] \in {documents[n], Damaged(documents[n])}
        /\ manifest \in Manifests /\ Traceable(n[1], documents[n], manifest)
    BY <1>2, DamageLeaves DEF AuditInv, DocumentsTraceable
  <2>2. /\ manifest' \in Manifests /\ manifest'.by = manifest.by
        /\ manifest'.events = manifest.events
    BY <2>1, Survives
  <2>3. Traceable(n[1], documents[n], manifest')
    BY <2>1, <2>2, TraceableStays
  <2>4. QED
    BY <2>1, <2>2, <2>3, TraceableDamaged
<1>3. DocumentsTraceable'
  BY <1>2 DEF DocumentsTraceable, Traceable
<1>4. QED
  BY <1>1, <1>3 DEF AuditInv

\* What the step of an audit leaves alone.
LEMMA AuditFrame ==
    ASSUME TypeInv, NEW a \in Audits, Audit(a)
    PROVE  /\ UNCHANGED <<table, manifest>>
           /\ \A b \in Audits \ {a} :
                 pc'[b] = pc[b] /\ view'[b] = view[b] /\ result'[b] = result[b]
                 /\ at'[b] = at[b]
           /\ Draft(a) \/ Replace(a) \/ UNCHANGED <<drafts, documents>>
<1> USE DEF TypeInv, TypeOK, Commands, exportFiles, auditFiles, locals, Goto
<1>1. CASE LoadManifest(a)
  BY <1>1 DEF LoadManifest
<1>2. CASE CompareTable(a) \/ JudgeTicks(a) \/ JudgeDeals(a)
  BY <1>2 DEF CompareTable, JudgeTicks, JudgeDeals
<1>3. CASE Draft(a) \/ Replace(a)
  BY <1>3 DEF Draft, Replace
<1>4. QED
  BY <1>1, <1>2, <1>3 DEF Audit

\* A step that writes no file: only the audit's own part has to be shown.
LEMMA AuditsGoOn ==
    ASSUME AuditInv, NEW a \in Audits, Auditing(a)', Audited(a)',
           UNCHANGED <<table, manifest, drafts, documents>>,
           \A b \in Audits \ {a} :
               pc'[b] = pc[b] /\ view'[b] = view[b] /\ result'[b] = result[b] /\ at'[b] = at[b]
    PROVE  AuditInv'
<1>1. ASSUME NEW b \in Audits, b # a PROVE Auditing(b)' /\ Audited(b)'
  BY <1>1 DEF AuditInv, Auditing, Audited, HasWritten, DocumentOf, Traceable
<1>2. DocumentsTraceable'
  BY DEF AuditInv, DocumentsTraceable, Traceable
<1>3. QED
  BY <1>1, <1>2 DEF AuditInv

LEMMA LoadStep ==
    ASSUME TypeInv, AuditInv, NEW a \in Audits, LoadManifest(a)
    PROVE  AuditInv'
<1>1. /\ UNCHANGED <<table, manifest, drafts, documents, at>> /\ pc[a] = "idle"
      /\ \A b \in Audits \ {a} :
            pc'[b] = pc[b] /\ view'[b] = view[b] /\ result'[b] = result[b] /\ at'[b] = at[b]
  BY AuditFrame DEF Audit, LoadManifest, MayBegin, auditFiles
<1>2. at[a] = 1
  BY <1>1 DEF AuditInv, Auditing
<1>3. CASE manifest \notin {Absent, Torn} /\ manifest.whole
  <2>1. view'[a] = manifest /\ manifest \in Manifests
    BY <1>3 DEF LoadManifest, TypeInv, TypeOK, Commands
  <2>2. pc'[a] = IF a \in TickAudits THEN "compare" ELSE "judge"
    BY <1>3 DEF LoadManifest, Goto, TypeInv, TypeOK, Commands
  <2>3. Auditing(a)' /\ Audited(a)'
    BY <1>1, <1>2, <1>3, <2>1, <2>2 DEF Auditing, Audited
  <2>4. QED
    BY <1>1, <2>3, AuditsGoOn
<1>4. CASE ~(manifest \notin {Absent, Torn} /\ manifest.whole)
  <2>1. pc'[a] = "failed"
    BY <1>4 DEF LoadManifest, Goto, TypeInv, TypeOK, Commands
  <2>2. Auditing(a)' /\ Audited(a)'
    BY <2>1 DEF Auditing, Audited
  <2>3. QED
    BY <1>1, <2>2, AuditsGoOn
<1>5. QED
  BY <1>3, <1>4

LEMMA CompareStep ==
    ASSUME TypeInv, AuditInv, NEW a \in Audits, CompareTable(a)
    PROVE  AuditInv'
<1>1. /\ UNCHANGED <<table, manifest, drafts, documents, at, view>> /\ pc[a] = "compare"
      /\ \A b \in Audits \ {a} :
            pc'[b] = pc[b] /\ view'[b] = view[b] /\ result'[b] = result[b] /\ at'[b] = at[b]
  BY AuditFrame DEF Audit, CompareTable, auditFiles, locals
<1>2. pc'[a] = IF table # Absent /\ table = view[a].table THEN "judge" ELSE "failed"
  BY DEF CompareTable, Goto, TypeInv, TypeOK, Commands
<1>3. view[a] = manifest /\ manifest \in Manifests /\ manifest.whole /\ at[a] = 1
  BY <1>1 DEF AuditInv, Auditing
<1>4. Auditing(a)' /\ Audited(a)'
  BY <1>1, <1>2, <1>3 DEF Auditing, Audited
<1>5. QED
  BY <1>1, <1>4, AuditsGoOn

\* The payload is about the manifest that is there, and decided by its events.
LEMMA VerdictTraceable ==
    ASSUME TypeInv, AuditInv, NEW a \in Audits, pc[a] = "judge", NEW agreed,
           NEW certified,
           certified = IF a \in TickAudits THEN TicksCertified(view[a].events)
                       ELSE DealsCertified(view[a].events, agreed)
    PROVE  /\ Traceable(KindOf(a), Verdict(a, agreed, certified), manifest)
           /\ Verdict(a, agreed, certified).by = a /\ Verdict(a, agreed, certified).whole
           /\ manifest \in Manifests
<1>1. /\ view[a] = manifest /\ manifest \in Manifests /\ manifest.whole
      /\ a \in TickAudits => table = manifest.table
  BY DEF AuditInv, Auditing
<1>2. /\ Verdict(a, agreed, certified).by = a
      /\ Verdict(a, agreed, certified).loaded = view[a]
      /\ Verdict(a, agreed, certified).manifest = manifest
      /\ Verdict(a, agreed, certified).table = IF a \in TickAudits THEN table ELSE Absent
      /\ Verdict(a, agreed, certified).agreed = agreed
  BY DEF Verdict
<1>3. /\ Verdict(a, agreed, certified).whole
      /\ Verdict(a, agreed, certified).certified = certified
  BY DEF Verdict
<1>4. KindOf(a) = "tick" <=> a \in TickAudits
  BY DEF KindOf
<1>5. Traceable(KindOf(a), Verdict(a, agreed, certified), manifest)
  BY <1>1, <1>2, <1>3, <1>4 DEF Traceable
<1>6. QED
  BY <1>1, <1>2, <1>3, <1>5

LEMMA JudgeStep ==
    ASSUME TypeInv, AuditInv, NEW a \in Audits, JudgeTicks(a) \/ JudgeDeals(a)
    PROVE  AuditInv'
<1>1. /\ UNCHANGED <<table, manifest, drafts, documents, at, view>> /\ pc[a] = "judge"
      /\ pc'[a] = "write"
      /\ \A b \in Audits \ {a} :
            pc'[b] = pc[b] /\ view'[b] = view[b] /\ result'[b] = result[b] /\ at'[b] = at[b]
  <2>1. /\ UNCHANGED <<table, manifest, drafts, documents, at, view>> /\ pc[a] = "judge"
        /\ pc'[a] = "write"
    BY EvidenceAssumption
       DEF JudgeTicks, JudgeDeals, exportFiles, auditFiles, Goto, TypeInv, TypeOK, Commands
  <2>2. QED
    BY <2>1, AuditFrame DEF Audit
<1>2. /\ result'[a].by = a /\ result'[a].whole /\ manifest \in Manifests
      /\ Traceable(KindOf(a), result'[a], manifest)
  <2>1. CASE JudgeTicks(a)
    <3>1. result'[a] = Verdict(a, {}, TicksCertified(view[a].events)) /\ a \in TickAudits
      BY <2>1 DEF JudgeTicks, TypeInv, TypeOK
    <3>2. QED
      BY <1>1, <3>1, VerdictTraceable
  <2>2. CASE JudgeDeals(a)
    <3>1. PICK agreed \in SUBSET DOMAIN view[a].events :
             result' = [result EXCEPT ![a] =
                Verdict(a, agreed, DealsCertified(view[a].events, agreed))]
      BY <2>2 DEF JudgeDeals
    <3>2. result'[a] = Verdict(a, agreed, DealsCertified(view[a].events, agreed))
          /\ a \notin TickAudits
      BY <2>2, <3>1, EvidenceAssumption DEF JudgeDeals, TypeInv, TypeOK
    <3>3. QED
      BY <1>1, <3>2, VerdictTraceable
  <2>3. QED
    BY <2>1, <2>2
<1>3. result'[a] \in Payloads
  BY JudgedType
<1>4. at[a] = 1
  BY <1>1 DEF AuditInv, Auditing
<1>5. Traceable(KindOf(a), result[a], manifest)'
  BY <1>1, <1>2 DEF Traceable
<1>6. Auditing(a)' /\ Audited(a)'
  BY <1>1, <1>2, <1>3, <1>4, <1>5 DEF Auditing, Audited
<1>7. QED
  BY <1>1, <1>6, AuditsGoOn

\* Of the audits of a kind only one is writing.
LEMMA OthersNotWriting ==
    ASSUME Alone, NEW a \in Audits, Running(a), NEW b \in Audits, b # a,
           KindOf(b) = KindOf(a)
    PROVE  pc[b] \in {"idle", "done", "failed"}
BY EvidenceAssumption DEF Alone, Running, Commands, Audits, SameCommand, KindOf

LEMMA DraftStep ==
    ASSUME TypeInv, Alone, AuditInv, NEW a \in Audits, Draft(a)
    PROVE  AuditInv'
<1>1. /\ UNCHANGED <<table, manifest, documents, at, result>> /\ pc[a] = "write"
      /\ \A b \in Audits \ {a} :
            pc'[b] = pc[b] /\ view'[b] = view[b] /\ result'[b] = result[b] /\ at'[b] = at[b]
  BY AuditFrame DEF Audit, Draft, locals
<1>2. pc'[a] = IF documents[DocumentOf(a)] = Absent THEN "replace" ELSE "failed"
  BY DEF Draft, Goto, TypeInv, TypeOK, Commands
<1>3. /\ documents[DocumentOf(a)] = Absent => drafts'[DocumentOf(a)] = result[a]
      /\ \A n \in Names : n # DocumentOf(a) => drafts'[n] = drafts[n]
  BY DocumentName DEF Draft, TypeInv, TypeOK
<1>4. DocumentOf(a)' = DocumentOf(a)
  BY <1>1 DEF DocumentOf
<1>5. /\ result[a] \in Payloads /\ result[a].by = a /\ result[a].whole
      /\ manifest \in Manifests /\ Traceable(KindOf(a), result[a], manifest)
      /\ at[a] = 2 => HasWritten(a, 1)
  BY <1>1 DEF AuditInv, Auditing
<1>6. Auditing(a)' /\ Audited(a)'
  BY <1>1, <1>2, <1>3, <1>4, <1>5 DEF Auditing, Audited, HasWritten, Traceable
<1>7. ASSUME NEW b \in Audits, b # a PROVE Auditing(b)' /\ Audited(b)'
  <2>1. DocumentOf(b)' = DocumentOf(b) /\ DocumentOf(b) \in Names
    BY <1>1, DocumentName DEF DocumentOf
  <2>2. pc[b] = "replace" => drafts'[DocumentOf(b)] = drafts[DocumentOf(b)]
    <3>1. pc[b] = "replace" => KindOf(b) # KindOf(a)
      BY <1>1, <1>7, OthersNotWriting DEF Running
    <3>2. KindOf(b) # KindOf(a) => DocumentOf(b) # DocumentOf(a)
      BY DEF DocumentOf
    <3>3. QED
      BY <1>3, <2>1, <3>1, <3>2
  <2>3. Auditing(b) /\ Audited(b)
    BY DEF AuditInv
  <2>4. QED
    BY <1>1, <1>7, <2>1, <2>2, <2>3 DEF Auditing, Audited, HasWritten, Traceable
<1>8. DocumentsTraceable'
  BY <1>1 DEF AuditInv, DocumentsTraceable, Traceable
<1>9. QED
  BY <1>6, <1>7, <1>8 DEF AuditInv

\* What replacing does: the place was free, and the payload comes to stand there.
LEMMA ReplaceWrites ==
    ASSUME TypeInv, AuditInv, NEW a \in Audits, Replace(a)
    PROVE  /\ documents[DocumentOf(a)] = Absent
           /\ documents' = [documents EXCEPT ![DocumentOf(a)] = result[a]]
           /\ result[a] \in Payloads /\ result[a].by = a /\ result[a].whole
           /\ manifest \in Manifests /\ Traceable(KindOf(a), result[a], manifest)
           /\ at[a] = 2 => HasWritten(a, 1)
<1>1. pc[a] = "replace" /\ drafts[DocumentOf(a)] = result[a]
  BY DEF Replace, AuditInv, Auditing
<1>2. QED
  BY <1>1 DEF Replace, AuditInv, Auditing

LEMMA ReplaceStep ==
    ASSUME TypeInv, Alone, AuditInv, NEW a \in Audits, Replace(a)
    PROVE  AuditInv'
<1>1. /\ UNCHANGED <<table, manifest, result>> /\ pc[a] = "replace"
      /\ pc'[a] = (IF at[a] = 2 THEN "done" ELSE "write") /\ at'[a] = 2
      /\ \A b \in Audits \ {a} :
            pc'[b] = pc[b] /\ view'[b] = view[b] /\ result'[b] = result[b] /\ at'[b] = at[b]
  <2>1. pc'[a] = (IF at[a] = 2 THEN "done" ELSE "write") /\ at'[a] = 2
    BY DEF Replace, Goto, TypeInv, TypeOK, Commands
  <2>2. QED
    BY <2>1, AuditFrame DEF Audit, Replace
<1>2. /\ DocumentOf(a) \in Names /\ DocumentOf(a) = <<KindOf(a), at[a]>> /\ at[a] \in {1, 2}
  BY DocumentName
<1>3. /\ documents[DocumentOf(a)] = Absent /\ documents'[DocumentOf(a)] = result[a]
      /\ \A n \in Names : n # DocumentOf(a) => documents'[n] = documents[n]
      /\ result[a] \in Payloads /\ result[a].by = a /\ result[a].whole
      /\ manifest \in Manifests /\ Traceable(KindOf(a), result[a], manifest)
      /\ at[a] = 2 => HasWritten(a, 1)
  BY <1>2, ReplaceWrites DEF TypeInv, TypeOK
<1>4. result[a] # Absent
  BY <1>3, FilesAssumption
<1>5. ASSUME NEW b \in Audits, NEW d \in {1, 2}, HasWritten(b, d) PROVE HasWritten(b, d)'
  <2>1. <<KindOf(b), d>> \in Names /\ documents[<<KindOf(b), d>>] # Absent
    BY <1>5 DEF HasWritten, KindOf, Names
  <2>2. documents'[<<KindOf(b), d>>] = documents[<<KindOf(b), d>>]
    BY <1>3, <2>1
  <2>3. QED
    BY <1>5, <2>2 DEF HasWritten
<1>6. Auditing(a)' /\ Audited(a)'
  <2>1. HasWritten(a, 1)' /\ (at[a] = 2 => HasWritten(a, 2)')
    <3>1. CASE at[a] = 1
      BY <1>2, <1>3, <1>4, <3>1 DEF HasWritten
    <3>2. CASE at[a] = 2
      BY <1>2, <1>3, <1>4, <1>5, <3>2 DEF HasWritten
    <3>3. QED
      BY <1>2, <3>1, <3>2
  <2>2. Traceable(KindOf(a), result[a], manifest)'
    BY <1>1, <1>3 DEF Traceable
  <2>3. QED
    BY <1>1, <1>3, <2>1, <2>2 DEF Auditing, Audited
<1>7. ASSUME NEW b \in Audits, b # a PROVE Auditing(b)' /\ Audited(b)'
  <2>1. Auditing(b) /\ Audited(b)
    BY DEF AuditInv
  <2>2. pc[b] = "replace" =>
            drafts'[DocumentOf(b)] = drafts[DocumentOf(b)]
            /\ documents'[DocumentOf(b)] = documents[DocumentOf(b)]
    <3>1. pc[b] = "replace" => KindOf(b) # KindOf(a)
      BY <1>1, <1>7, OthersNotWriting DEF Running
    <3>2. KindOf(b) # KindOf(a) => DocumentOf(b) # DocumentOf(a)
      BY DEF DocumentOf
    <3>3. DocumentOf(b) \in Names
      BY DocumentName
    <3>4. \A n \in Names : n # DocumentOf(a) => drafts'[n] = drafts[n]
      BY <1>2 DEF Replace, TypeInv, TypeOK
    <3>5. QED
      BY <1>3, <3>1, <3>2, <3>3, <3>4
  <2>3. DocumentOf(b)' = DocumentOf(b)
    BY <1>1, <1>7 DEF DocumentOf
  <2>4. Traceable(KindOf(b), result[b], manifest) => Traceable(KindOf(b), result[b], manifest)'
    BY <1>1 DEF Traceable
  <2>5. Auditing(b)'
    BY <1>1, <1>5, <1>7, <2>1, <2>2, <2>3, <2>4 DEF Auditing
  <2>6. Audited(b)'
    BY <1>1, <1>5, <1>7, <2>1 DEF Audited
  <2>7. QED
    BY <2>5, <2>6
<1>8. DocumentsTraceable'
  <2> SUFFICES ASSUME NEW n \in Names, documents'[n] # Absent
               PROVE  manifest \in Manifests /\ Traceable(n[1], documents'[n], manifest)
    BY <1>1 DEF DocumentsTraceable, Traceable
  <2>1. CASE n = DocumentOf(a)
    <3>1. n[1] = KindOf(a)
      BY <1>2, <2>1
    <3>2. QED
      BY <1>3, <2>1, <3>1
  <2>2. CASE n # DocumentOf(a)
    BY <1>3, <2>2 DEF AuditInv, DocumentsTraceable
  <2>3. QED
    BY <2>1, <2>2
<1>9. QED
  BY <1>6, <1>7, <1>8 DEF AuditInv

LEMMA StepAudit ==
    TypeInv /\ Alone /\ ExportInv /\ AuditInv /\ [Next]_vars => AuditInv'
<1> SUFFICES ASSUME TypeInv, Alone, ExportInv, AuditInv, [Next]_vars PROVE AuditInv'
  OBVIOUS
<1>1. ASSUME NEW a \in Audits, Audit(a) PROVE AuditInv'
  BY <1>1, LoadStep, CompareStep, JudgeStep, DraftStep, ReplaceStep DEF Audit
<1>2. CASE UNCHANGED vars
  BY <1>2 DEF vars, exportFiles, auditFiles, locals, AuditInv, Auditing, Audited, HasWritten,
              DocumentOf, DocumentsTraceable, Traceable
<1>3. QED
  BY <1>1, <1>2, ExportAuditStep, FailAuditStep, PowerFailureAuditStep DEF Next

EvidenceInv == TypeInv /\ Alone /\ ExportInv /\ AuditInv

THEOREM EvidenceInvariant == ASSUME Sequential PROVE Spec => []EvidenceInv
<1>1. Init => EvidenceInv
  BY InitTypes, InitAlone, InitExport, InitAudit DEF EvidenceInv
<1>2. EvidenceInv /\ [Next]_vars => EvidenceInv'
  BY StepTypes, StepAlone, StepExport, StepAudit DEF EvidenceInv
<1>3. QED
  BY <1>1, <1>2, PTL DEF Spec

\* What an audit has sealed is about the evidence that is still there, hashed as
\* it was loaded, whatever was killed or cut off since.
THEOREM TraceableCertifications ==
    ASSUME Sequential PROVE Spec => []CertificationsTraceable
<1>1. EvidenceInv => CertificationsTraceable
  <2> SUFFICES ASSUME EvidenceInv, NEW n \in Names, documents[n] # Absent
               PROVE  /\ documents[n].manifest = documents[n].loaded
                      /\ documents[n].loaded.whole
                      /\ Written(manifest) /\ manifest.by = documents[n].loaded.by
                      /\ manifest.events = documents[n].loaded.events
                      /\ n[1] = "tick" => documents[n].table = documents[n].loaded.table
    BY DEF CertificationsTraceable
  <2>1. manifest \in Manifests /\ Traceable(n[1], documents[n], manifest)
    BY DEF EvidenceInv, AuditInv, DocumentsTraceable
  <2>2. Written(manifest)
    BY <2>1, FilesAssumption DEF Written
  <2>3. QED
    BY <2>1, <2>2 DEF Traceable
<1>2. QED
  BY EvidenceInvariant, <1>1, PTL

LEMMA ElementType ==
    ASSUME NEW S, NEW s \in Seq(S), NEW i \in 1..Len(s)
    PROVE  s[i] \in S
OBVIOUS

\* A certification is given exactly when the queries behind the table allow it.
THEOREM CertifiedByItsQueries ==
    ASSUME Sequential PROVE Spec => []CertifiedMeansMatched
<1>1. EvidenceInv => CertifiedMeansMatched
  <2> SUFFICES ASSUME EvidenceInv, NEW n \in Names, documents[n] # Absent
               PROVE  documents[n].certified <=>
                 IF n[1] = "tick"
                 THEN \A i \in 1..count[table.by] : summary[table.by][i].match
                 ELSE /\ count[table.by] = Required
                      /\ \A i \in 1..Required :
                            summary[table.by][i].near /\ i \in documents[n].agreed
    BY DEF CertifiedMeansMatched
  <2>1. manifest \in Manifests /\ Traceable(n[1], documents[n], manifest)
    BY DEF EvidenceInv, AuditInv, DocumentsTraceable
  <2>2. manifest.by \in Exports /\ Exported(manifest.by) /\ pc[manifest.by] = "done"
    BY <2>1 DEF EvidenceInv, ExportInv, Described, Manifests
  <2>3. PICK e \in Exports : e = table.by /\ documents[n].loaded.events = summary[e]
                             /\ Len(summary[e]) = count[e]
    BY <2>1, <2>2 DEF Exported, Traceable
  <2>4. summary[e] \in Seq(Outcomes) /\ DOMAIN summary[e] = 1..count[e]
    BY <2>3 DEF EvidenceInv, TypeInv, TypeOK
  <2>5. \A i \in 1..count[e] :
           summary[e][i].near \/ summary[e][i].match => summary[e][i].ticks
    <3>1. \A i \in 1..count[e] : summary[e][i] \in Outcomes
      BY <2>3, <2>4, ElementType
    <3>2. \A o \in Outcomes : o.near \/ o.match => o.ticks
      BY EvidenceAssumption, Zenon
    <3>3. QED
      BY <3>1, <3>2
  <2>6. CASE n[1] = "tick"
    BY <2>1, <2>3, <2>4, <2>6 DEF Traceable, TicksCertified
  <2>7. CASE n[1] # "tick"
    <3>1. documents[n].certified = DealsCertified(summary[e], documents[n].agreed)
      BY <2>1, <2>3, <2>7 DEF Traceable
    <3>2. DealsCertified(summary[e], documents[n].agreed) <=>
             /\ count[e] = Required
             /\ \A i \in 1..Required : summary[e][i].near /\ i \in documents[n].agreed
      BY <2>3, <2>4, <2>5 DEF DealsCertified
    <3>3. QED
      BY <2>3, <2>7, <3>1, <3>2
  <2>8. QED
    BY <2>6, <2>7
<1>2. QED
  BY EvidenceInvariant, <1>1, PTL

\* A command that has exited with zero has left both its documents, its own.
THEOREM DoneIsSealed == ASSUME Sequential PROVE Spec => []DoneMeansSealed
<1>1. EvidenceInv => DoneMeansSealed
  <2> SUFFICES ASSUME EvidenceInv PROVE DoneMeansSealed
    OBVIOUS
  <2>1. ASSUME NEW e \in Exports, pc[e] = "done"
        PROVE  Written(table) /\ table.by = e /\ Written(manifest) /\ manifest.by = e
    BY <2>1, FilesAssumption DEF EvidenceInv, ExportInv, Exported, Written
  <2>2. ASSUME NEW a \in Audits, pc[a] = "done", NEW d \in 1..2
        PROVE  documents[<<KindOf(a), d>>] # Absent /\ documents[<<KindOf(a), d>>].by = a
    <3>1. d = 1 \/ d = 2
      OBVIOUS
    <3>2. HasWritten(a, 1) /\ HasWritten(a, 2)
      BY <2>2 DEF EvidenceInv, AuditInv, Audited
    <3>3. QED
      BY <3>1, <3>2 DEF HasWritten
  <2>3. QED
    BY <2>1, <2>2 DEF DoneMeansSealed
<1>2. QED
  BY EvidenceInvariant, <1>1, PTL

-----------------------------------------------------------------------------
(***************************************************************************)
(* The implementation of SealedEvidence by the audits                      *)
(***************************************************************************)
AuditShown(kind) == [d \in 1..2 |-> Shown(documents[<<kind, d>>])]

AuditSeals(kind, d, a) ==
    /\ AuditShown(kind)[d] = Absent
    /\ \A e \in 1..(d - 1) : AuditShown(kind)[e] # Absent /\ AuditShown(kind)[e].by = a
    /\ AuditShown(kind)' = [AuditShown(kind) EXCEPT ![d] = [by |-> a, whole |-> TRUE]]

AuditDamages(kind, lost) ==
    AuditShown(kind)' =
        [d \in 1..2 |->
            IF d \in lost /\ AuditShown(kind)[d] # Absent
            THEN [by |-> AuditShown(kind)[d].by, whole |-> FALSE] ELSE AuditShown(kind)[d]]

LEMMA ReplaceSeals ==
    ASSUME EvidenceInv, NEW a \in Audits, Replace(a)
    PROVE  AuditSeals(KindOf(a), at[a], a)
<1>1. /\ at[a] \in {1, 2} /\ DocumentOf(a) = <<KindOf(a), at[a]>> /\ DocumentOf(a) \in Names
      /\ KindOf(a) \in {"tick", "deal"}
  BY DocumentName DEF EvidenceInv
<1>2. /\ documents[DocumentOf(a)] = Absent
      /\ documents' = [documents EXCEPT ![DocumentOf(a)] = result[a]]
      /\ result[a] \in Payloads /\ result[a].by = a /\ result[a].whole
      /\ at[a] = 2 => HasWritten(a, 1)
  BY ReplaceWrites DEF EvidenceInv
<1>3. AuditShown(KindOf(a))[at[a]] = Absent
  BY <1>1, <1>2, ShownNothing DEF AuditShown
<1>4. ASSUME NEW e \in 1..(at[a] - 1)
      PROVE  AuditShown(KindOf(a))[e] # Absent /\ AuditShown(KindOf(a))[e].by = a
  <2>1. at[a] = 2 /\ e = 1
    BY <1>1
  <2>2. documents[<<KindOf(a), 1>>] \in Payloads /\ documents[<<KindOf(a), 1>>].by = a
    <3>1. <<KindOf(a), 1>> \in Names
      BY <1>1 DEF Names
    <3>2. QED
      BY <1>2, <2>1, <3>1 DEF HasWritten, EvidenceInv, TypeInv, TypeOK
  <2>3. QED
    BY <2>1, <2>2, ShownFile DEF AuditShown
<1>5. Shown(result[a]) = [by |-> a, whole |-> TRUE]
  <2>1. Shown(result[a]) = [by |-> result[a].by, whole |-> result[a].whole]
    BY <1>2, ShownFile
  <2>2. result[a].whole = TRUE
    BY <1>2 DEF Payloads
  <2>3. QED
    BY <1>2, <2>1, <2>2
<1>6. ASSUME NEW d \in 1..2
      PROVE  Shown(documents'[<<KindOf(a), d>>])
              = IF d = at[a] THEN [by |-> a, whole |-> TRUE] ELSE AuditShown(KindOf(a))[d]
  <2>1. <<KindOf(a), d>> \in Names
    BY <1>1 DEF Names
  <2>2. documents'[<<KindOf(a), d>>] =
           IF d = at[a] THEN result[a] ELSE documents[<<KindOf(a), d>>]
    BY <1>1, <1>2, <2>1 DEF EvidenceInv, TypeInv, TypeOK
  <2>3. CASE d = at[a]
    BY <1>5, <2>2, <2>3
  <2>4. CASE d # at[a]
    BY <2>2, <2>4 DEF AuditShown
  <2>5. QED
    BY <2>3, <2>4
<1>7. AuditShown(KindOf(a))' =
         [AuditShown(KindOf(a)) EXCEPT ![at[a]] = [by |-> a, whole |-> TRUE]]
  <2>1. AuditShown(KindOf(a))' = [d \in 1..2 |-> Shown(documents'[<<KindOf(a), d>>])]
    BY DEF AuditShown, Shown, Written
  <2>2. DOMAIN AuditShown(KindOf(a)) = 1..2
    BY DEF AuditShown
  <2>3. QED
    BY <1>6, <2>1, <2>2
<1>8. QED
  BY <1>3, <1>4, <1>7 DEF AuditSeals

LEMMA ReplaceOther ==
    ASSUME EvidenceInv, NEW a \in Audits, Replace(a), NEW kind, kind # KindOf(a),
           kind \in {"tick", "deal"}
    PROVE  AuditShown(kind)' = AuditShown(kind)
<1>1. DocumentOf(a) = <<KindOf(a), at[a]>>
  BY DEF DocumentOf
<1>2. \A d \in 1..2 : documents'[<<kind, d>>] = documents[<<kind, d>>]
  BY <1>1, ReplaceWrites DEF EvidenceInv, TypeInv, TypeOK, Names
<1>3. AuditShown(kind)' = [d \in 1..2 |-> Shown(documents'[<<kind, d>>])]
  BY DEF AuditShown, Shown, Written
<1>4. QED
  BY <1>2, <1>3 DEF AuditShown

LEMMA PowerFailureLoses ==
    ASSUME EvidenceInv, PowerFailure, NEW kind \in {"tick", "deal"}
    PROVE  \E lost \in SUBSET (1..2) : AuditDamages(kind, lost)
<1>1. PICK files \in SUBSET Names :
         documents' = [n \in Names |-> IF n \in files THEN Damaged(documents[n])
                                       ELSE documents[n]]
  BY DEF PowerFailure
<1> DEFINE lost == {d \in 1..2 : <<kind, d>> \in files}
<1>2. ASSUME NEW d \in 1..2
      PROVE  Shown(documents'[<<kind, d>>]) =
                IF d \in lost /\ AuditShown(kind)[d] # Absent
                THEN [by |-> AuditShown(kind)[d].by, whole |-> FALSE] ELSE AuditShown(kind)[d]
  <2>1. <<kind, d>> \in Names
    BY DEF Names
  <2>2. documents[<<kind, d>>] \in Payloads \cup {Absent}
    BY <2>1 DEF EvidenceInv, TypeInv, TypeOK
  <2>3. AuditShown(kind)[d] = Shown(documents[<<kind, d>>])
    BY DEF AuditShown
  <2>4. CASE d \in lost
    <3>1. documents'[<<kind, d>>] = Damaged(documents[<<kind, d>>])
      BY <1>1, <2>1, <2>4
    <3>2. QED
      BY <2>2, <2>3, <2>4, <3>1, ShownDamaged
  <2>5. CASE d \notin lost
    <3>1. documents'[<<kind, d>>] = documents[<<kind, d>>]
      BY <1>1, <2>1, <2>5
    <3>2. QED
      BY <2>3, <2>5, <3>1
  <2>6. QED
    BY <2>4, <2>5
<1> HIDE DEF lost
<1>3. AuditShown(kind)' = [d \in 1..2 |-> Shown(documents'[<<kind, d>>])]
  BY DEF AuditShown, Shown, Written
<1>4. AuditDamages(kind, lost)
  BY <1>2, <1>3 DEF AuditDamages
<1>5. lost \in SUBSET (1..2)
  BY DEF lost
<1>6. QED
  BY <1>4, <1>5 DEF AuditDamages

LEMMA AuditStepShown ==
    ASSUME EvidenceInv, [Next]_vars, NEW kind \in {"tick", "deal"}
    PROVE  \/ \E a \in Audits : KindOf(a) = kind /\ at[a] \in 1..2 /\ AuditSeals(kind, at[a], a)
           \/ \E lost \in SUBSET (1..2) : AuditDamages(kind, lost)
           \/ AuditShown(kind)' = AuditShown(kind)
<1>1. ASSUME UNCHANGED documents PROVE AuditShown(kind)' = AuditShown(kind)
  BY <1>1 DEF AuditShown, Shown, Written
<1>2. ASSUME NEW e \in Exports, Export(e) PROVE UNCHANGED documents
  BY <1>2, ExportLeavesAudits DEF EvidenceInv
<1>3. ASSUME NEW a \in Audits, Replace(a)
      PROVE  \/ KindOf(a) = kind /\ at[a] \in 1..2 /\ AuditSeals(kind, at[a], a)
             \/ AuditShown(kind)' = AuditShown(kind)
  BY <1>3, ReplaceSeals, ReplaceOther, DocumentName DEF EvidenceInv
<1>4. ASSUME NEW a \in Audits, Audit(a), ~Replace(a) PROVE UNCHANGED documents
  BY <1>4, AuditFrame DEF EvidenceInv, Draft
<1>5. ASSUME NEW c \in Commands, Fail(c) PROVE UNCHANGED documents
  BY <1>5 DEF Fail, auditFiles
<1>6. CASE PowerFailure
  BY <1>6, PowerFailureLoses
<1>7. CASE UNCHANGED vars
  BY <1>1, <1>7 DEF vars, auditFiles
<1>8. CASE \E a \in Audits : Audit(a)
  BY <1>1, <1>3, <1>4, <1>8 DEF AuditSeals
<1>9. QED
  BY <1>1, <1>2, <1>5, <1>6, <1>7, <1>8 DEF Next

LEMMA TickStepMaps ==
    EvidenceInv /\ [Next]_vars => TickSealing!Next \/ AuditShown("tick")' = AuditShown("tick")
<1> SUFFICES ASSUME EvidenceInv, [Next]_vars
             PROVE  TickSealing!Next \/ AuditShown("tick")' = AuditShown("tick")
  OBVIOUS
<1>1. ASSUME NEW a \in Audits, KindOf(a) = "tick", at[a] \in 1..2, AuditSeals("tick", at[a], a)
      PROVE  TickSealing!Next
  <2>1. a \in TickAudits
    BY <1>1 DEF KindOf
  <2>2. TickSealing!Seal(at[a], a)
    BY <1>1 DEF AuditSeals, AuditShown, TickSealing!Seal, TickSealing!Sealed
  <2>3. QED
    BY <1>1, <2>1, <2>2 DEF TickSealing!Next, TickSealing!Documents
<1>2. ASSUME NEW lost \in SUBSET (1..2), AuditDamages("tick", lost) PROVE TickSealing!Next
  <2>1. TickSealing!Damage(lost)
    BY <1>2 DEF AuditDamages, AuditShown, TickSealing!Damage, TickSealing!Documents
  <2>2. QED
    BY <2>1 DEF TickSealing!Next, TickSealing!Documents
<1>3. QED
  BY <1>1, <1>2, AuditStepShown

LEMMA DealStepMaps ==
    EvidenceInv /\ [Next]_vars => DealSealing!Next \/ AuditShown("deal")' = AuditShown("deal")
<1> SUFFICES ASSUME EvidenceInv, [Next]_vars
             PROVE  DealSealing!Next \/ AuditShown("deal")' = AuditShown("deal")
  OBVIOUS
<1>1. ASSUME NEW a \in Audits, KindOf(a) = "deal", at[a] \in 1..2, AuditSeals("deal", at[a], a)
      PROVE  DealSealing!Next
  <2>1. a \in DealAudits
    BY <1>1 DEF KindOf, Audits
  <2>2. DealSealing!Seal(at[a], a)
    BY <1>1 DEF AuditSeals, AuditShown, DealSealing!Seal, DealSealing!Sealed
  <2>3. QED
    BY <1>1, <2>1, <2>2 DEF DealSealing!Next, DealSealing!Documents
<1>2. ASSUME NEW lost \in SUBSET (1..2), AuditDamages("deal", lost) PROVE DealSealing!Next
  <2>1. DealSealing!Damage(lost)
    BY <1>2 DEF AuditDamages, AuditShown, DealSealing!Damage, DealSealing!Documents
  <2>2. QED
    BY <2>1 DEF DealSealing!Next, DealSealing!Documents
<1>3. QED
  BY <1>1, <1>2, AuditStepShown

LEMMA AuditSealingInit == Init => TickSealing!Init /\ DealSealing!Init
<1> SUFFICES ASSUME Init PROVE TickSealing!Init /\ DealSealing!Init
  OBVIOUS
<1>1. \A d \in 1..2 : Shown(documents[<<"tick", d>>]) = Absent
                      /\ Shown(documents[<<"deal", d>>]) = Absent
  BY ShownNothing DEF Init, Names
<1>2. QED
  BY <1>1 DEF TickSealing!Init, TickSealing!Documents, DealSealing!Init, DealSealing!Documents

\* Audits of a kind one after the other implement SealedEvidence: a certification
\* never stands without its report, nor beside another run's.
THEOREM AuditsSealInOrder ==
    ASSUME Sequential PROVE Spec => AuditsSealEvidence
<1>1. EvidenceInv /\ [Next]_vars =>
         [TickSealing!Next]_[d \in 1..2 |-> Shown(documents[<<"tick", d>>])]
  BY TickStepMaps DEF AuditShown
<1>2. EvidenceInv /\ [Next]_vars =>
         [DealSealing!Next]_[d \in 1..2 |-> Shown(documents[<<"deal", d>>])]
  BY DealStepMaps DEF AuditShown
<1>3. Spec => TickSealing!Spec
  BY EvidenceInvariant, AuditSealingInit, <1>1, PTL DEF Spec, TickSealing!Spec
<1>4. Spec => DealSealing!Spec
  BY EvidenceInvariant, AuditSealingInit, <1>2, PTL DEF Spec, DealSealing!Spec
<1>5. QED
  BY <1>3, <1>4 DEF AuditsSealEvidence
=============================================================================
