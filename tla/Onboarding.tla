------------------------------ MODULE Onboarding ------------------------------
(***************************************************************************)
(* The onboarding form of one employee: OnboardingService.saveMine,        *)
(* submitMine, review and uploadMine.                                      *)
(*                                                                         *)
(* A form is the scalar columns of the employee row and four sections, each*)
(* a table of its own.  saveMine updates the columns the save fills in and *)
(* then, section by section, deletes the rows and creates the new ones: up *)
(* to nine queries without a transaction.  A column and a row of a section *)
(* are named by the save that wrote them; saves are numbered, to tell their*)
(* contents apart.                                                         *)
(***************************************************************************)
EXTENDS Naturals, Sequences, FiniteSets

CONSTANTS
  Columns,      \* the scalar columns of the form
  Sections,     \* the sections in the order saveMine replaces them
  MaxSaves,     \* saves of the form
  MaxUploads,   \* documents uploaded
  FormCalls,    \* slots for calls in flight
  MaxCuts       \* calls that end at a query (query error, crash)

VARIABLES
  form,       \* onboardingStatus, and for each scalar column the save it comes from
  rows,       \* section -> saves whose rows it holds
  files,      \* uploads whose file is on disk
  documents,  \* uploads with a document row
  formCalls,  \* slot -> call in flight
  saves,      \* saves begun
  cuts,       \* calls cut short
  lone        \* history: the latest save, if no call ran while it did and none since

formVars == <<form, rows, files, documents, formCalls, saves, cuts, lone>>

FormIdle == [pc |-> "idle"]
SectionNames == {Sections[i] : i \in DOMAIN Sections}

ASSUME SectionsAssumption ==
  /\ Sections \in Seq(SectionNames)
  /\ \A i, j \in DOMAIN Sections : Sections[i] = Sections[j] => i = j

\* What a save says of a section: nothing, that it has no rows, or its rows.  Of
\* a column it gives a value or leaves it blank: '' as the page sends a cleared
\* field, or nothing.
Contents == [SectionNames -> {"absent", "empty", "filled"}]
NoSave == [n |-> 0]

FormInit ==
  /\ form = [status |-> "NOT_STARTED", scalars |-> [f \in Columns |-> 0]]
  /\ rows = [s \in SectionNames |-> {}]
  /\ files = {} /\ documents = {}
  /\ formCalls = [c \in FormCalls |-> FormIdle]
  /\ saves = 0 /\ cuts = 0
  /\ lone = NoSave

Saving(c) == formCalls[c].pc \in {"scalars", "delete", "create"}
FormReturn(c) == formCalls' = [formCalls EXCEPT ![c] = FormIdle]
FormStart(c, call) == formCalls[c] = FormIdle /\ formCalls' = [formCalls EXCEPT ![c] = call]

----------------------------------------------------------------------------
(* saveMine *)

SaveStart(c) ==
  /\ formCalls[c] = FormIdle /\ saves < MaxSaves
  /\ saves' = saves + 1
  /\ LET others == {d \in FormCalls : Saving(d)}
     IN \E sent \in Contents, filled \in SUBSET Columns :
          formCalls' =
            [d \in FormCalls |->
               IF d = c THEN [pc |-> "scalars", n |-> saves', sent |-> sent, filled |-> filled,
                              before |-> form.scalars, alone |-> others = {}]
               ELSE IF d \in others THEN [formCalls[d] EXCEPT !.alone = FALSE]
               ELSE formCalls[d]]
  /\ lone' = NoSave
  /\ UNCHANGED <<form, rows, files, documents, cuts>>

\* The sections a save still has to replace after the first i, in order.
Remaining(call, i) == {j \in DOMAIN Sections : j > i /\ call.sent[Sections[j]] # "absent"}

\* On to the next section the save names, or to the answer.
NextSection(c, i) ==
  LET call == formCalls[c]
      left == Remaining(call, i)
  IN IF left = {}
     THEN /\ FormReturn(c)
          /\ lone' = IF call.alone
                      THEN [n |-> call.n, sent |-> call.sent, filled |-> call.filled,
                            before |-> call.before]
                      ELSE NoSave
     ELSE /\ formCalls' = [formCalls EXCEPT ![c] =
               [pc |-> "delete", n |-> call.n, sent |-> call.sent, filled |-> call.filled,
                before |-> call.before, alone |-> call.alone,
                i |-> CHOOSE j \in left : \A k \in left : j <= k]]
          /\ UNCHANGED lone

\* employeeScalars leaves out what is blank: such a column keeps its value.
FilledIn(row, filled, n) == [f \in Columns |-> IF f \in filled THEN n ELSE row[f]]

SaveScalars(c) ==
  /\ formCalls[c].pc = "scalars"
  /\ form' = [status |-> "IN_PROGRESS",
              scalars |-> FilledIn(form.scalars, formCalls[c].filled, formCalls[c].n)]
  /\ NextSection(c, 0)
  /\ UNCHANGED <<rows, files, documents, saves, cuts>>

\* Seeded fault: a section sent without rows is left alone.
LeftByDeleteUnlessEmpty(held, content) == IF content = "empty" THEN held ELSE {}

\* deleteMany removes whatever the section holds.
LeftByDelete(held, content) == {}

DeleteRows(c) ==
  /\ formCalls[c].pc = "delete"
  /\ LET call == formCalls[c]
         s == Sections[call.i]
     IN /\ rows' = [rows EXCEPT ![s] = LeftByDelete(@, call.sent[s])]
        /\ IF call.sent[s] = "filled"
           THEN formCalls' = [formCalls EXCEPT ![c].pc = "create"] /\ UNCHANGED lone
           ELSE NextSection(c, call.i)
  /\ UNCHANGED <<form, files, documents, saves, cuts>>

CreateRows(c) ==
  /\ formCalls[c].pc = "create"
  /\ rows' = [rows EXCEPT ![Sections[formCalls[c].i]] = @ \cup {formCalls[c].n}]
  /\ NextSection(c, formCalls[c].i)
  /\ UNCHANGED <<form, files, documents, saves, cuts>>

----------------------------------------------------------------------------
(* submitMine, review, uploadMine *)

SubmitStart(c) ==
  /\ form.status # "APPROVED"
  /\ FormStart(c, [pc |-> "submit"])
  /\ UNCHANGED <<form, rows, files, documents, saves, cuts, lone>>

\* The status read at the start is not asked again.
Submit(c) ==
  /\ formCalls[c].pc = "submit"
  /\ form' = [form EXCEPT !.status = "SUBMITTED"]
  /\ FormReturn(c)
  /\ UNCHANGED <<rows, files, documents, saves, cuts, lone>>

ReviewForm(c) ==
  /\ formCalls[c] = FormIdle
  /\ \E decision \in {"APPROVED", "REJECTED"} : form' = [form EXCEPT !.status = decision]
  /\ UNCHANGED <<rows, files, documents, formCalls, saves, cuts, lone>>

\* The file is written to disk under a name of its own, then registered.
UploadStart(c) ==
  /\ Cardinality(files) < MaxUploads
  /\ LET file == Cardinality(files) + 1
     IN FormStart(c, [pc |-> "document", file |-> file]) /\ files' = files \cup {file}
  /\ UNCHANGED <<form, rows, documents, saves, cuts, lone>>

UploadDocument(c) ==
  /\ formCalls[c].pc = "document"
  /\ documents' = documents \cup {formCalls[c].file}
  /\ FormReturn(c)
  /\ UNCHANGED <<form, rows, files, saves, cuts, lone>>

\* A query fails or the process dies: what is written stays.
FormCut(c) ==
  /\ formCalls[c] # FormIdle /\ cuts < MaxCuts
  /\ cuts' = cuts + 1
  /\ FormReturn(c)
  /\ UNCHANGED <<form, rows, files, documents, saves, lone>>

FormNext ==
  \E c \in FormCalls :
    \/ SaveStart(c) \/ SaveScalars(c) \/ DeleteRows(c) \/ CreateRows(c)
    \/ SubmitStart(c) \/ Submit(c) \/ ReviewForm(c)
    \/ UploadStart(c) \/ UploadDocument(c) \/ FormCut(c)

FormSpec == FormInit /\ [][FormNext]_formVars

----------------------------------------------------------------------------
\* onboarding.service.ts:37: an answered save no other save overlapped leaves
\* the columns it filled in as it sent them, those it left blank as they were
\* when it began, and the sections it names exactly as it sent them, whatever
\* saves that overlapped or were cut short had left before it (both rows of two
\* saves in a section, or none); a section it does not name is not touched.  A
\* registered document has its file.
FormIsWhole ==
  /\ lone # NoSave =>
       /\ \A f \in Columns :
            form.scalars[f] = IF f \in lone.filled THEN lone.n ELSE lone.before[f]
       /\ \A s \in SectionNames :
            /\ lone.sent[s] = "filled" => rows[s] = {lone.n}
            /\ lone.sent[s] = "empty" => rows[s] = {}
            /\ lone.sent[s] = "absent" => lone.n \notin rows[s]
  /\ documents \subseteq files
=============================================================================
