----------------------------- MODULE SignedSheet -----------------------------
(***************************************************************************)
(* The signed job sheet of one job: presentJobSheet, sealJobSheet and      *)
(* amendJobSheet, the write-once store their PDFs go to, and the edits of  *)
(* the job card that the seal locks out.                                   *)
(*                                                                         *)
(* A seal reads the record, compares it with the sheet the customer was    *)
(* shown, renders it, stores the file, and only then writes its rows and   *)
(* commits.  The database rolls back and the store does not.               *)
(*                                                                         *)
(* A digest stands for what it is the digest of.  Left out: how a sheet is *)
(* rendered, the signature's image, and the customer's emailed copy.       *)
(***************************************************************************)
EXTENDS Naturals, Sequences

CONSTANTS
    Signers,        \* BOUND: pages and transactions that seal or amend at once
    Editors,        \* BOUND: transactions that edit the card at once
    None,
    MaxEdits,       \* BOUND: edits of the card, and of the report
    MaxSheets,      \* BOUND: the sheets of the job
    MaxFaults       \* BOUND: transactions lost for no reason of their own

ASSUME SignedSheetAssumption ==
    /\ MaxEdits \in Nat
    /\ MaxSheets \in Nat \ {0}
    /\ MaxFaults \in Nat

VARIABLES
    record,     \* what the sheet is made of: how often each half has changed
    editors,    \* the edits of the card that are made and not committed
    files,      \* the object store, by the sheet's sequence number
    sheets,     \* job_sheets: the original and its amendments, in sequence
    signers,    \* where each page or transaction is
    faults      \* transactions lost so far

vars == <<record, editors, files, sheets, signers, faults>>

-----------------------------------------------------------------------------
\* `card` counts the changes of the rows app_job_card_sealed guards, `report` those
\* of the technician's report and of the outcome, which the sheet shows too.
Record == [card : 0..MaxEdits, report : 0..MaxEdits]

\* A rendered sheet: what it shows, and whose signature or explanation is on it.
Bytes == [shows : Record, by : Signers]

ASSUME NoneIsNoBytes == None \notin Bytes

\* The local driver writes an object in two files, the bytes first.
File == [body : Bytes \cup {None}, sidecar : Bytes \cup {None}]

Sheet == [digest : Record, pdf : Bytes, by : Signers]

Numbers == 0..(MaxSheets - 1)

Pcs == {"idle", "presented", "rendered", "putting", "written", "stored"}

Signer == [pc : Pcs, shown : Record, number : Numbers, pdf : Bytes \cup {None}]

Blank == [card |-> 0, report |-> 0]

Idle == [pc |-> "idle", shown |-> Blank, number |-> 0, pdf |-> None]

\* The bytes a transaction has rendered.
Rendered(t) == [shows |-> signers[t].shown, by |-> t]

Sealed == sheets # <<>>

Init ==
    /\ record = Blank
    /\ editors = {}
    /\ files = [n \in Numbers |-> [body |-> None, sidecar |-> None]]
    /\ sheets = <<>>
    /\ signers = [t \in Signers |-> Idle]
    /\ faults = 0

-----------------------------------------------------------------------------
(* The record.                                                             *)

\* recordJobMaterial, recordVisitLabour and the other writers of the card: the
\* trigger looks for a committed original as the statement runs ...
EditCard(e) ==
    /\ e \notin editors
    /\ ~Sealed
    /\ editors' = editors \cup {e}
    /\ UNCHANGED <<record, files, sheets, signers, faults>>

\* ... and the transaction commits when it commits.
CommitEdit(e) ==
    /\ e \in editors
    /\ record.card < MaxEdits
    /\ record' = [record EXCEPT !.card = @ + 1]
    /\ editors' = editors \ {e}
    /\ UNCHANGED <<files, sheets, signers, faults>>

RollBackEdit(e) ==
    /\ e \in editors
    /\ editors' = editors \ {e}
    /\ UNCHANGED <<record, files, sheets, signers, faults>>

\* saveJobReport and recordJobOutcome: no trigger guards job_reports or jobs.
EditReport ==
    /\ record.report < MaxEdits
    /\ record' = [record EXCEPT !.report = @ + 1]
    /\ UNCHANGED <<editors, files, sheets, signers, faults>>

-----------------------------------------------------------------------------
(* Sealing and amending.                                                   *)

Continue(t, x) ==
    /\ signers' = [signers EXCEPT ![t] = x]
    /\ UNCHANGED <<record, editors, files, sheets, faults>>

\* jobSheetPresentation: the page shows the sheet and keeps its digest.
Present(t) ==
    /\ signers[t].pc = "idle"
    /\ ~Sealed
    /\ Continue(t, [Idle EXCEPT !.pc = "presented", !.shown = record])

\* sealJobSheet, up to the rendering: the digest is derived again and compared.
Seal(t) ==
    /\ signers[t].pc = "presented"
    /\ ~Sealed
    /\ signers[t].shown = record
    /\ Continue(t, [signers[t] EXCEPT !.pc = "rendered"])

\* amendJobSheet: the number after the largest.
Amend(t) ==
    /\ signers[t].pc = "idle"
    /\ Sealed
    /\ Len(sheets) < MaxSheets
    /\ Continue(t, [Idle EXCEPT !.pc = "rendered", !.shown = record, !.number = Len(sheets)])

\* A mutant of the next: the file is there, and its digest is taken to be that of
\* the bytes rendered again.
AdoptAsRendered(t) ==
    /\ signers[t].pc = "rendered"
    /\ files[signers[t].number].sidecar # None
    /\ Continue(t, [signers[t] EXCEPT !.pc = "stored", !.pdf = Rendered(t)])

\* store: adopt what is there ...
Adopt(t) ==
    LET file == files[signers[t].number] IN
    /\ signers[t].pc = "rendered"
    /\ file.sidecar # None
    /\ Continue(t, [signers[t] EXCEPT !.pc = "stored", !.pdf = file.sidecar])

\* ... or put it.
Put(t) ==
    /\ signers[t].pc = "rendered"
    /\ files[signers[t].number].sidecar = None
    /\ Continue(t, [signers[t] EXCEPT !.pc = "putting"])

\* A mutant of the next: writeFile without the flag that refuses to overwrite.
Overwrite(t) ==
    /\ signers[t].pc = "putting"
    /\ files' = [files EXCEPT ![signers[t].number].body = Rendered(t)]
    /\ signers' = [signers EXCEPT ![t].pc = "written"]
    /\ UNCHANGED <<record, editors, sheets, faults>>

WriteBody(t) ==
    /\ signers[t].pc = "putting"
    /\ files[signers[t].number].body = None
    /\ files' = [files EXCEPT ![signers[t].number].body = Rendered(t)]
    /\ signers' = [signers EXCEPT ![t].pc = "written"]
    /\ UNCHANGED <<record, editors, sheets, faults>>

WriteSidecar(t) ==
    /\ signers[t].pc = "written"
    /\ files' = [files EXCEPT ![signers[t].number].sidecar = Rendered(t)]
    /\ signers' = [signers EXCEPT ![t].pc = "stored", ![t].pdf = Rendered(t)]
    /\ UNCHANGED <<record, editors, sheets, faults>>

\* A mutant of the next: no unique index on the sequence.
AnyNumber(t) == TRUE

\* job_sheets_one_original and job_sheets_sequence_key.
NumberFree(t) == signers[t].number = Len(sheets)

\* The signature, the sheet and the audit note are written, and it commits.
CommitSheet(t) ==
    /\ signers[t].pc = "stored"
    /\ NumberFree(t)
    /\ sheets' = Append(sheets, [digest |-> signers[t].shown, pdf |-> signers[t].pdf, by |-> t])
    /\ signers' = [signers EXCEPT ![t] = Idle]
    /\ UNCHANGED <<record, editors, files, faults>>

\* A mutant of the next: a sheet that changed since it was shown is not refused,
\* and the page goes on asking for it.
RefuseOnlySealed(t) ==
    /\ \/ signers[t].pc = "presented" /\ Sealed
       \/ signers[t].pc = "putting" /\ files[signers[t].number].body # None
       \/ signers[t].pc = "stored" /\ ~NumberFree(t)
    /\ Continue(t, Idle)

\* A sheet that changed since it was shown or was signed meanwhile, a body that
\* exists without its sidecar, a number that is taken: the transaction ends.
Refuse(t) ==
    /\ \/ signers[t].pc = "presented" /\ (Sealed \/ signers[t].shown # record)
       \/ signers[t].pc = "putting" /\ files[signers[t].number].body # None
       \/ signers[t].pc = "stored" /\ ~NumberFree(t)
    /\ Continue(t, Idle)

\* The process dies, or the connection is lost, wherever it is.
Lose(t) ==
    /\ signers[t].pc # "idle"
    /\ faults < MaxFaults
    /\ faults' = faults + 1
    /\ signers' = [signers EXCEPT ![t] = Idle]
    /\ UNCHANGED <<record, editors, files, sheets>>

-----------------------------------------------------------------------------
Proceed(t) ==
    \/ Seal(t) \/ Adopt(t) \/ Put(t) \/ WriteBody(t) \/ WriteSidecar(t)
    \/ CommitSheet(t) \/ Refuse(t)

Next ==
    \/ \E e \in Editors : EditCard(e) \/ CommitEdit(e) \/ RollBackEdit(e)
    \/ EditReport
    \/ \E t \in Signers : Present(t) \/ Amend(t) \/ Proceed(t) \/ Lose(t)

Spec == Init /\ [][Next]_vars

\* A request runs to its end, and somebody asks for the signature again as long
\* as there is none.
FairSpec == Spec /\ \A t \in Signers : WF_vars(Proceed(t)) /\ WF_vars(Present(t))

-----------------------------------------------------------------------------
(* Properties.                                                             *)

\* The types of the variables.
TypeOK ==
    /\ record \in Record
    /\ editors \subseteq Editors
    /\ files \in [Numbers -> File]
    /\ sheets \in Seq(Sheet)
    /\ Len(sheets) <= MaxSheets
    /\ signers \in [Signers -> Signer]
    /\ faults \in 0..MaxFaults

\* Whatever fails between the file and the row, and whoever stores first, the
\* hash on a sheet is the hash of the file that can be downloaded for it.
HashIsOfTheFile ==
    \A k \in DOMAIN sheets :
        /\ files[k - 1].sidecar = sheets[k].pdf
        /\ files[k - 1].body = sheets[k].pdf

\* Evidence is only added: no sheet and no file is ever edited or replaced, not
\* even by the retry of a transaction that failed after it had stored its file.
EvidenceIsFinal ==
    [][/\ \A k \in DOMAIN sheets : k \in DOMAIN sheets' /\ sheets'[k] = sheets[k]
       /\ \A n \in Numbers :
             /\ files[n].body # None => files'[n].body = files[n].body
             /\ files[n].sidecar # None => files'[n].sidecar = files[n].sidecar]_vars

\* The bytes of the original are written and no one is about to file them.
Torn ==
    /\ files[0].body # None
    /\ files[0].sidecar = None
    /\ \A t \in Signers : ~(signers[t].pc = "written" /\ signers[t].number = 0)

\* The customer's signature is eventually recorded, whoever else signs, edits or
\* dies, unless the process died between the two files of the object.
SignedUnlessTorn == <>(Sealed \/ Torn)

\* "The retry produces byte-identical output and adopts its own orphan": the PDF
\* filed under a sheet shows what that sheet's signature was given to.
PdfShowsWhatWasSigned ==
    \A k \in DOMAIN sheets : sheets[k].pdf = [shows |-> sheets[k].digest, by |-> sheets[k].by]

\* "Machine-checkable proof that raising an amendment corrected what the record
\* means and did not touch what it says": an amendment's digest is the original's.
AmendmentSaysTheSame ==
    \A k \in DOMAIN sheets : sheets[k].digest = sheets[1].digest
=============================================================================
