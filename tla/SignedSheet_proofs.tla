-------------------------- MODULE SignedSheet_proofs --------------------------
(***************************************************************************)
(* Proofs about SignedSheet for any number of signers, editors, edits,     *)
(* sheets and lost transactions.                                           *)
(***************************************************************************)
EXTENDS SignedSheet, TLAPS

\* The sidecar is written after the body, by who wrote the body.
SidecarMatches ==
    \A n \in Numbers : files[n].sidecar # None => files[n].body = files[n].sidecar

\* Between the two writes of an object its bytes are the writer's own, and nobody
\* else takes them for finished.
WritersOwn ==
    \A t \in Signers : signers[t].pc = "written" =>
        /\ files[signers[t].number].body = Rendered(t)
        /\ files[signers[t].number].sidecar = None

\* What a transaction is about to file is the object that is there.
StoredMatches ==
    \A t \in Signers : signers[t].pc = "stored" =>
        /\ signers[t].pdf \in Bytes
        /\ files[signers[t].number].sidecar = signers[t].pdf

SheetInv ==
    /\ TypeOK
    /\ SidecarMatches
    /\ WritersOwn
    /\ StoredMatches
    /\ HashIsOfTheFile

-----------------------------------------------------------------------------
\* What the types say of one signer and one object.
LEMMA SignerFacts ==
    ASSUME TypeOK, NEW t \in Signers
    PROVE  /\ signers[t] \in Signer
           /\ signers[t].shown \in Record
           /\ signers[t].number \in Numbers
           /\ Rendered(t) \in Bytes
           /\ Rendered(t).by = t
           /\ Rendered(t) # None
<1>1. signers[t] \in Signer
  BY DEF TypeOK
<1>2. signers[t].shown \in Record /\ signers[t].number \in Numbers
  BY <1>1 DEF Signer
<1>3. Rendered(t) \in Bytes /\ Rendered(t).by = t
  BY <1>2 DEF Rendered, Bytes
<1> QED BY <1>1, <1>2, <1>3, NoneIsNoBytes

LEMMA FileFacts ==
    ASSUME TypeOK, NEW n \in Numbers
    PROVE  /\ files[n] \in File
           /\ files[n].body \in Bytes \cup {None}
           /\ files[n].sidecar \in Bytes \cup {None}
<1>1. files[n] \in File
  BY DEF TypeOK
<1> QED BY <1>1 DEF File

LEMMA ConstantFacts ==
    /\ Blank \in Record
    /\ 0 \in Numbers
    /\ Idle \in Signer /\ Idle.pc = "idle"
<1>1. Blank \in Record /\ 0 \in Numbers
  BY SignedSheetAssumption DEF Blank, Record, Numbers
<1> QED BY <1>1 DEF Idle, Signer, Pcs

\* The sheets have their numbers.
LEMMA SheetNumbers ==
    ASSUME TypeOK, NEW k \in DOMAIN sheets
    PROVE  k - 1 \in Numbers
BY SignedSheetAssumption DEF TypeOK, Numbers

\* A step of one signer that leaves files and sheets alone.
LEMMA SignerStep ==
    ASSUME SheetInv, NEW t \in Signers, NEW x \in Signer,
           signers' = [signers EXCEPT ![t] = x],
           UNCHANGED <<record, editors, files, sheets>>, faults' \in 0..MaxFaults,
           x.pc # "written",
           x.pc = "stored" => /\ x.pdf \in Bytes
                              /\ files[x.number].sidecar = x.pdf
    PROVE  SheetInv'
<1>1. /\ signers' \in [Signers -> Signer] /\ signers'[t] = x
      /\ \A q \in Signers \ {t} : signers'[q] = signers[q]
  BY DEF SheetInv, TypeOK
<1>2. TypeOK'
  BY <1>1 DEF SheetInv, TypeOK
<1>3. SidecarMatches' /\ HashIsOfTheFile'
  BY DEF SheetInv, SidecarMatches, HashIsOfTheFile
<1>4. WritersOwn'
  BY <1>1 DEF SheetInv, WritersOwn, Rendered
<1>5. StoredMatches'
  BY <1>1 DEF SheetInv, StoredMatches
<1> QED BY <1>2, <1>3, <1>4, <1>5 DEF SheetInv

\* A step of the record alone.
LEMMA RecordStep ==
    ASSUME SheetInv, record' \in Record, editors' \subseteq Editors,
           UNCHANGED <<files, sheets, signers, faults>>
    PROVE  SheetInv'
BY DEF SheetInv, TypeOK, SidecarMatches, WritersOwn, StoredMatches, HashIsOfTheFile, Rendered

LEMMA EditStep ==
    ASSUME SheetInv,
           EditReport \/ \E e \in Editors : EditCard(e) \/ CommitEdit(e) \/ RollBackEdit(e)
    PROVE  SheetInv'
<1>1. record \in Record /\ editors \subseteq Editors
  BY DEF SheetInv, TypeOK
<1>2. record.card \in 0..MaxEdits /\ record.report \in 0..MaxEdits
  BY <1>1 DEF Record
<1>3. CASE EditReport
  <2>1. record.report + 1 \in 0..MaxEdits
    BY <1>2, <1>3, SignedSheetAssumption DEF EditReport
  <2>2. record' \in Record
    BY <1>1, <1>3, <2>1 DEF EditReport, Record
  <2> QED BY <1>1, <1>3, <2>2, RecordStep DEF EditReport
<1>4. ASSUME NEW e \in Editors, CommitEdit(e) PROVE SheetInv'
  <2>1. record.card + 1 \in 0..MaxEdits
    BY <1>2, <1>4, SignedSheetAssumption DEF CommitEdit
  <2>2. record' \in Record /\ editors' \subseteq Editors
    BY <1>1, <1>4, <2>1 DEF CommitEdit, Record
  <2> QED BY <1>4, <2>2, RecordStep DEF CommitEdit
<1>5. ASSUME NEW e \in Editors, EditCard(e) \/ RollBackEdit(e) PROVE SheetInv'
  <2>1. record' \in Record /\ editors' \subseteq Editors
    BY <1>1, <1>5 DEF EditCard, RollBackEdit
  <2> QED BY <1>5, <2>1, RecordStep DEF EditCard, RollBackEdit
<1> QED BY <1>3, <1>4, <1>5

\* The steps that only move a signer on.
LEMMA MoveStep ==
    ASSUME SheetInv, NEW t \in Signers,
           Present(t) \/ Seal(t) \/ Amend(t) \/ Put(t) \/ Refuse(t) \/ Lose(t)
    PROVE  SheetInv'
<1>1. signers[t] \in Signer /\ record \in Record
  BY SignerFacts DEF SheetInv, TypeOK
<1>2. PICK x \in Signer : /\ signers' = [signers EXCEPT ![t] = x]
                          /\ x.pc \notin {"written", "stored"}
  <2>1. CASE Present(t)
    <3> DEFINE x == [Idle EXCEPT !.pc = "presented", !.shown = record]
    <3>1. x \in Signer /\ x.pc = "presented"
      BY <1>1, ConstantFacts DEF Signer, Pcs
    <3> QED BY <2>1, <3>1 DEF Present, Continue
  <2>2. CASE Seal(t)
    <3> DEFINE x == [signers[t] EXCEPT !.pc = "rendered"]
    <3>1. x \in Signer /\ x.pc = "rendered"
      BY <1>1 DEF Signer, Pcs
    <3> QED BY <2>2, <3>1 DEF Seal, Continue
  <2>3. CASE Amend(t)
    <3> DEFINE n == Len(sheets)
               x == [Idle EXCEPT !.pc = "rendered", !.shown = record, !.number = n]
    <3>1. n \in Numbers
      BY <2>3, SignedSheetAssumption DEF Amend, SheetInv, TypeOK, Numbers
    <3>2. signers' = [signers EXCEPT ![t] = x]
      BY <2>3 DEF Amend, Continue
    <3> HIDE DEF n
    <3>3. x \in Signer /\ x.pc = "rendered"
      BY <1>1, <3>1, ConstantFacts DEF Signer, Pcs
    <3> QED BY <3>2, <3>3
  <2>4. CASE Put(t)
    <3> DEFINE x == [signers[t] EXCEPT !.pc = "putting"]
    <3>1. x \in Signer /\ x.pc = "putting"
      BY <1>1 DEF Signer, Pcs
    <3> QED BY <2>4, <3>1 DEF Put, Continue
  <2>5. CASE Refuse(t) \/ Lose(t)
    BY <2>5, ConstantFacts DEF Refuse, Lose, Continue
  <2> QED BY <2>1, <2>2, <2>3, <2>4, <2>5
<1>3. UNCHANGED <<record, editors, files, sheets>>
  BY DEF Present, Seal, Amend, Put, Refuse, Lose, Continue
<1>4. faults' \in 0..MaxFaults
  BY SignedSheetAssumption
     DEF Present, Seal, Amend, Put, Refuse, Lose, Continue, SheetInv, TypeOK
<1> QED BY <1>2, <1>3, <1>4, SignerStep

LEMMA AdoptStep ==
    ASSUME SheetInv, NEW t \in Signers, Adopt(t)
    PROVE  SheetInv'
<1> DEFINE n == signers[t].number
           pdf == files[n].sidecar
           x == [signers[t] EXCEPT !.pc = "stored", !.pdf = pdf]
<1>1. signers[t] \in Signer /\ n \in Numbers /\ pdf \in Bytes /\ files[n].sidecar = pdf
  BY SignerFacts, FileFacts DEF SheetInv, Adopt
<1>2. /\ signers' = [signers EXCEPT ![t] = x]
      /\ UNCHANGED <<record, editors, files, sheets, faults>>
  BY DEF Adopt, Continue
<1> HIDE DEF pdf
<1>3. x \in Signer /\ x.pc = "stored" /\ x.pdf = pdf /\ x.number = n
  BY <1>1 DEF Signer, Pcs
<1> HIDE DEF x
<1>4. faults' \in 0..MaxFaults
  BY <1>2 DEF SheetInv, TypeOK
<1> QED BY <1>1, <1>2, <1>3, <1>4, SignerStep

\* The flag that refuses to overwrite: the body is written where there is none.
LEMMA WriteBodyStep ==
    ASSUME SheetInv, NEW t \in Signers, WriteBody(t)
    PROVE  SheetInv'
<1> DEFINE n == signers[t].number
           file == [files[n] EXCEPT !.body = Rendered(t)]
           x == [signers[t] EXCEPT !.pc = "written"]
<1>1. /\ signers[t] \in Signer /\ n \in Numbers /\ Rendered(t) \in Bytes
      /\ files[n] \in File /\ files[n].body = None
  BY SignerFacts, FileFacts DEF SheetInv, WriteBody
<1>2. files[n].sidecar = None
  BY <1>1 DEF SheetInv, SidecarMatches
<1>3. /\ files' = [files EXCEPT ![n] = file] /\ signers' = [signers EXCEPT ![t] = x]
      /\ UNCHANGED <<record, editors, sheets, faults>>
  BY DEF WriteBody
<1>4. file \in File /\ file.body = Rendered(t) /\ file.sidecar = None
  BY <1>1, <1>2 DEF File
<1>5. /\ x \in Signer /\ x.pc = "written" /\ x.number = n /\ x.shown = signers[t].shown
      /\ x.pdf = signers[t].pdf
  BY <1>1 DEF Signer, Pcs
<1> HIDE DEF file, x
<1>6. /\ files' \in [Numbers -> File] /\ files'[n] = file
      /\ \A m \in Numbers \ {n} : files'[m] = files[m]
      /\ signers' \in [Signers -> Signer] /\ signers'[t] = x
      /\ \A q \in Signers \ {t} : signers'[q] = signers[q]
  BY <1>1, <1>3, <1>4, <1>5 DEF SheetInv, TypeOK
<1> HIDE DEF n
<1>7. TypeOK'
  BY <1>3, <1>6 DEF SheetInv, TypeOK
<1>8. SidecarMatches'
  BY <1>4, <1>6 DEF SheetInv, SidecarMatches
<1>9. WritersOwn'
  <2>1. ASSUME NEW q \in Signers, signers'[q].pc = "written"
        PROVE  /\ files'[signers'[q].number].body = Rendered(q)'
               /\ files'[signers'[q].number].sidecar = None
    <3>1. CASE q = t
      BY <1>4, <1>5, <1>6, <3>1 DEF Rendered
    <3>2. CASE q # t
      <4>1. /\ signers[q].pc = "written" /\ signers[q].number \in Numbers
            /\ files[signers[q].number].body = Rendered(q) /\ Rendered(q) # None
            /\ files[signers[q].number].sidecar = None
        BY <1>6, <2>1, <3>2, SignerFacts DEF SheetInv, WritersOwn
      <4>2. signers[q].number # n
        BY <1>1, <4>1
      <4>3. Rendered(q)' = Rendered(q)
        BY <1>6, <3>2 DEF Rendered
      <4> QED BY <1>6, <3>2, <4>1, <4>2, <4>3
    <3> QED BY <3>1, <3>2
  <2> QED BY <2>1 DEF WritersOwn
<1>10. StoredMatches'
  <2>1. ASSUME NEW q \in Signers, signers'[q].pc = "stored"
        PROVE  /\ signers'[q].pdf \in Bytes
               /\ files'[signers'[q].number].sidecar = signers'[q].pdf
    <3>1. q # t
      BY <1>5, <1>6, <2>1
    <3>2. /\ signers[q].pdf \in Bytes /\ signers[q].number \in Numbers
          /\ files[signers[q].number].sidecar = signers[q].pdf
          /\ signers[q].pdf # None
      BY <1>6, <2>1, <3>1, SignerFacts, NoneIsNoBytes DEF SheetInv, StoredMatches
    <3>3. signers[q].number # n
      BY <1>2, <3>2
    <3> QED BY <1>6, <3>1, <3>2, <3>3
  <2> QED BY <2>1 DEF StoredMatches
<1>11. HashIsOfTheFile'
  <2>1. ASSUME NEW k \in DOMAIN sheets
        PROVE  files'[k - 1].sidecar = sheets[k].pdf /\ files'[k - 1].body = sheets[k].pdf
    <3>1. k - 1 \in Numbers
      BY SheetNumbers DEF SheetInv
    <3>2. files[k - 1].sidecar = sheets[k].pdf /\ files[k - 1].body = sheets[k].pdf
      BY DEF SheetInv, HashIsOfTheFile
    <3>3. sheets[k] \in Sheet
      BY DEF SheetInv, TypeOK
    <3>4. sheets[k].pdf # None
      BY <3>3, NoneIsNoBytes DEF Sheet
    <3>5. k - 1 # n
      BY <1>1, <3>2, <3>4
    <3> QED BY <1>6, <3>1, <3>2, <3>5
  <2> QED BY <1>3, <2>1 DEF HashIsOfTheFile
<1> QED BY <1>7, <1>8, <1>9, <1>10, <1>11 DEF SheetInv

\* The sidecar completes the writer's own object.
LEMMA WriteSidecarStep ==
    ASSUME SheetInv, NEW t \in Signers, WriteSidecar(t)
    PROVE  SheetInv'
<1> DEFINE n == signers[t].number
           pdf == Rendered(t)
           file == [files[n] EXCEPT !.sidecar = pdf]
           x == [signers[t] EXCEPT !.pc = "stored", !.pdf = pdf]
<1>1. /\ signers[t] \in Signer /\ n \in Numbers /\ pdf \in Bytes /\ pdf.by = t
      /\ files[n] \in File /\ files[n].body = pdf /\ files[n].sidecar = None
  BY SignerFacts, FileFacts DEF SheetInv, WriteSidecar, WritersOwn
<1>2. /\ files' = [files EXCEPT ![n] = file] /\ signers' = [signers EXCEPT ![t] = x]
      /\ UNCHANGED <<record, editors, sheets, faults>>
  BY DEF WriteSidecar
<1> HIDE DEF pdf
<1>3. file \in File /\ file.body = pdf /\ file.sidecar = pdf
  BY <1>1 DEF File
<1>4. x \in Signer /\ x.pc = "stored" /\ x.number = n /\ x.pdf = pdf
  BY <1>1 DEF Signer, Pcs
<1> HIDE DEF file, x
<1>5. /\ files' \in [Numbers -> File] /\ files'[n] = file
      /\ \A m \in Numbers \ {n} : files'[m] = files[m]
      /\ signers' \in [Signers -> Signer] /\ signers'[t] = x
      /\ \A q \in Signers \ {t} : signers'[q] = signers[q]
  BY <1>1, <1>2, <1>3, <1>4 DEF SheetInv, TypeOK
<1> HIDE DEF n
<1>6. TypeOK'
  BY <1>2, <1>5 DEF SheetInv, TypeOK
<1>7. SidecarMatches'
  BY <1>3, <1>5 DEF SheetInv, SidecarMatches
<1>8. WritersOwn'
  <2>1. ASSUME NEW q \in Signers, signers'[q].pc = "written"
        PROVE  /\ files'[signers'[q].number].body = Rendered(q)'
               /\ files'[signers'[q].number].sidecar = None
    <3>1. q # t
      BY <1>4, <1>5, <2>1
    <3>2. /\ signers[q].pc = "written" /\ signers[q].number \in Numbers
          /\ files[signers[q].number].body = Rendered(q) /\ Rendered(q).by = q
          /\ files[signers[q].number].sidecar = None
      BY <1>5, <2>1, <3>1, SignerFacts DEF SheetInv, WritersOwn
    <3>3. signers[q].number # n
      BY <1>1, <3>1, <3>2
    <3>4. Rendered(q)' = Rendered(q)
      BY <1>5, <3>1 DEF Rendered
    <3> QED BY <1>5, <3>1, <3>2, <3>3, <3>4
  <2> QED BY <2>1 DEF WritersOwn
<1>9. StoredMatches'
  <2>1. ASSUME NEW q \in Signers, signers'[q].pc = "stored"
        PROVE  /\ signers'[q].pdf \in Bytes
               /\ files'[signers'[q].number].sidecar = signers'[q].pdf
    <3>1. CASE q = t
      BY <1>1, <1>3, <1>4, <1>5, <3>1
    <3>2. CASE q # t
      <4>1. /\ signers[q].pdf \in Bytes /\ signers[q].number \in Numbers
            /\ files[signers[q].number].sidecar = signers[q].pdf
            /\ signers[q].pdf # None
        BY <1>5, <2>1, <3>2, SignerFacts, NoneIsNoBytes DEF SheetInv, StoredMatches
      <4>2. signers[q].number # n
        BY <1>1, <4>1
      <4> QED BY <1>5, <3>2, <4>1, <4>2
    <3> QED BY <3>1, <3>2
  <2> QED BY <2>1 DEF StoredMatches
<1>10. HashIsOfTheFile'
  <2>1. ASSUME NEW k \in DOMAIN sheets
        PROVE  files'[k - 1].sidecar = sheets[k].pdf /\ files'[k - 1].body = sheets[k].pdf
    <3>1. k - 1 \in Numbers
      BY SheetNumbers DEF SheetInv
    <3>2. files[k - 1].sidecar = sheets[k].pdf /\ files[k - 1].body = sheets[k].pdf
      BY DEF SheetInv, HashIsOfTheFile
    <3>3. sheets[k] \in Sheet
      BY DEF SheetInv, TypeOK
    <3>4. sheets[k].pdf # None
      BY <3>3, NoneIsNoBytes DEF Sheet
    <3>5. k - 1 # n
      BY <1>1, <3>2, <3>4
    <3> QED BY <1>5, <3>1, <3>2, <3>5
  <2> QED BY <1>2, <2>1 DEF HashIsOfTheFile
<1> QED BY <1>6, <1>7, <1>8, <1>9, <1>10 DEF SheetInv

\* The index takes the next number only, and the object under it is the stored one.
LEMMA CommitSheetStep ==
    ASSUME SheetInv, NEW t \in Signers, CommitSheet(t)
    PROVE  SheetInv'
<1> DEFINE n == signers[t].number
           sheet == [digest |-> signers[t].shown, pdf |-> signers[t].pdf, by |-> t]
<1>1. /\ signers[t].shown \in Record /\ signers[t].pdf \in Bytes /\ n \in Numbers
      /\ n = Len(sheets) /\ files[n].sidecar = signers[t].pdf
      /\ signers[t].pdf # None
  BY SignerFacts, NoneIsNoBytes DEF SheetInv, StoredMatches, CommitSheet, NumberFree
<1>2. files[n].body = signers[t].pdf
  BY <1>1 DEF SheetInv, SidecarMatches
<1>3. sheet \in Sheet /\ sheet.pdf = signers[t].pdf
  BY <1>1 DEF Sheet
<1>4. /\ sheets' = Append(sheets, sheet) /\ signers' = [signers EXCEPT ![t] = Idle]
      /\ UNCHANGED <<record, editors, files, faults>>
  BY DEF CommitSheet
<1> HIDE DEF sheet
<1>5. sheets \in Seq(Sheet) /\ n \in Nat /\ n < MaxSheets
  BY <1>1, SignedSheetAssumption DEF SheetInv, TypeOK, Numbers
<1>6. /\ sheets' \in Seq(Sheet) /\ Len(sheets') = n + 1 /\ sheets'[n + 1] = sheet
      /\ \A k \in DOMAIN sheets : sheets'[k] = sheets[k]
      /\ DOMAIN sheets' = DOMAIN sheets \cup {n + 1}
  BY <1>1, <1>3, <1>4, <1>5
<1>7. /\ signers' \in [Signers -> Signer] /\ signers'[t] = Idle
      /\ \A q \in Signers \ {t} : signers'[q] = signers[q]
  BY <1>4, ConstantFacts DEF SheetInv, TypeOK
<1>8. TypeOK'
  BY <1>4, <1>5, <1>6, <1>7, SignedSheetAssumption DEF SheetInv, TypeOK
<1>9. SidecarMatches'
  BY <1>4 DEF SheetInv, SidecarMatches
<1>10. WritersOwn' /\ StoredMatches'
  BY <1>4, <1>7, ConstantFacts DEF SheetInv, WritersOwn, StoredMatches, Rendered
<1>11. HashIsOfTheFile'
  <2>1. ASSUME NEW k \in DOMAIN sheets'
        PROVE  files[k - 1].sidecar = sheets'[k].pdf /\ files[k - 1].body = sheets'[k].pdf
    <3>1. CASE k = n + 1
      <4>1. k - 1 = n
        BY <1>5, <3>1
      <4> QED BY <1>1, <1>2, <1>3, <1>6, <3>1, <4>1
    <3>2. CASE k \in DOMAIN sheets
      BY <1>6, <3>2 DEF SheetInv, HashIsOfTheFile
    <3> QED BY <1>6, <3>1, <3>2
  <2> QED BY <1>4, <2>1 DEF HashIsOfTheFile
<1> QED BY <1>8, <1>9, <1>10, <1>11 DEF SheetInv

-----------------------------------------------------------------------------
LEMMA InitStep == Init => SheetInv
<1> SUFFICES ASSUME Init PROVE SheetInv
  OBVIOUS
<1>1. sheets = <<>> /\ \A t \in Signers : signers[t].pc = "idle"
  BY ConstantFacts DEF Init
<1>2. TypeOK
  BY ConstantFacts, SignedSheetAssumption DEF Init, TypeOK, File
<1>3. \A n \in Numbers : files[n].sidecar = None
  BY DEF Init
<1> QED BY <1>1, <1>2, <1>3
        DEF SheetInv, SidecarMatches, WritersOwn, StoredMatches, HashIsOfTheFile

LEMMA NextStep == SheetInv /\ [Next]_vars => SheetInv'
<1> SUFFICES ASSUME SheetInv, [Next]_vars PROVE SheetInv'
  OBVIOUS
<1>1. CASE EditReport \/ \E e \in Editors : EditCard(e) \/ CommitEdit(e) \/ RollBackEdit(e)
  BY <1>1, EditStep
<1>2. ASSUME NEW t \in Signers,
             Present(t) \/ Seal(t) \/ Amend(t) \/ Put(t) \/ Refuse(t) \/ Lose(t)
      PROVE  SheetInv'
  BY <1>2, MoveStep
<1>3. ASSUME NEW t \in Signers, Adopt(t) \/ WriteBody(t) \/ WriteSidecar(t) \/ CommitSheet(t)
      PROVE  SheetInv'
  BY <1>3, AdoptStep, WriteBodyStep, WriteSidecarStep, CommitSheetStep
<1>4. CASE UNCHANGED vars
  BY <1>4 DEF vars, SheetInv, TypeOK, SidecarMatches, WritersOwn, StoredMatches,
              HashIsOfTheFile, Rendered
<1> QED BY <1>1, <1>2, <1>3, <1>4 DEF Next, Proceed

\* SheetInv holds in every reachable state: an object's sidecar is its body's, a
\* half-written object is its writer's, and what is about to be filed is there.
THEOREM Invariance == Spec => []SheetInv
BY InitStep, NextStep, PTL DEF Spec

\* The shape of the state, for any signers, editors, edits and sheets (job_sheets,
\* LocalObjectStore).
THEOREM TypeCorrect == Spec => []TypeOK
<1>1. SheetInv => TypeOK
  BY DEF SheetInv
<1> QED BY <1>1, Invariance, PTL

\* However many pages seal and amend at once, and wherever a transaction is lost
\* between its file and its row, the hash on a sheet is its file's (sealJobSheet).
THEOREM HashesMatch == Spec => []HashIsOfTheFile
<1>1. SheetInv => HashIsOfTheFile
  BY DEF SheetInv
<1> QED BY <1>1, Invariance, PTL

-----------------------------------------------------------------------------
\* No step touches a sheet, or a part of an object that is there.
LEMMA FinalStep ==
    ASSUME SheetInv, [Next]_vars
    PROVE  /\ \A k \in DOMAIN sheets : k \in DOMAIN sheets' /\ sheets'[k] = sheets[k]
           /\ \A n \in Numbers :
                 /\ files[n].body # None => files'[n].body = files[n].body
                 /\ files[n].sidecar # None => files'[n].sidecar = files[n].sidecar
<1>1. sheets \in Seq(Sheet) /\ files \in [Numbers -> File]
  BY DEF SheetInv, TypeOK
<1>2. ASSUME NEW t \in Signers, WriteBody(t)
      PROVE  /\ UNCHANGED sheets
             /\ \A n \in Numbers :
                   /\ files[n].body # None => files'[n].body = files[n].body
                   /\ files[n].sidecar # None => files'[n].sidecar = files[n].sidecar
  BY <1>1, <1>2 DEF WriteBody, File
<1>3. ASSUME NEW t \in Signers, WriteSidecar(t)
      PROVE  /\ UNCHANGED sheets
             /\ \A n \in Numbers :
                   /\ files[n].body # None => files'[n].body = files[n].body
                   /\ files[n].sidecar # None => files'[n].sidecar = files[n].sidecar
  <2>1. files[signers[t].number].sidecar = None
    BY <1>3 DEF SheetInv, WritersOwn, WriteSidecar
  <2> QED BY <1>1, <1>3, <2>1 DEF WriteSidecar, File
<1>4. ASSUME NEW t \in Signers, CommitSheet(t)
      PROVE  /\ UNCHANGED files
             /\ \A k \in DOMAIN sheets : k \in DOMAIN sheets' /\ sheets'[k] = sheets[k]
  <2>1. sheets' = Append(sheets, [digest |-> signers[t].shown, pdf |-> signers[t].pdf, by |-> t])
        /\ UNCHANGED files
    BY <1>4 DEF CommitSheet
  <2> DEFINE sheet == [digest |-> signers[t].shown, pdf |-> signers[t].pdf, by |-> t]
  <2> HIDE DEF sheet
  <2>2. sheets' = Append(sheets, sheet)
    BY <2>1 DEF sheet
  <2> QED BY <1>1, <2>1, <2>2
<1>5. ASSUME NEW t \in Signers,
             Present(t) \/ Seal(t) \/ Amend(t) \/ Put(t) \/ Refuse(t) \/ Lose(t) \/ Adopt(t)
      PROVE  UNCHANGED <<files, sheets>>
  BY <1>5 DEF Present, Seal, Amend, Put, Refuse, Lose, Adopt, Continue
<1>6. ASSUME EditReport \/ \E e \in Editors : EditCard(e) \/ CommitEdit(e) \/ RollBackEdit(e)
      PROVE  UNCHANGED <<files, sheets>>
  BY <1>6 DEF EditReport, EditCard, CommitEdit, RollBackEdit
<1>7. CASE UNCHANGED vars
  BY <1>7 DEF vars
<1> QED BY <1>2, <1>3, <1>4, <1>5, <1>6, <1>7 DEF Next, Proceed

\* No interleaving of seals, amendments, retries and losses edits or replaces a
\* sheet or a file (LocalObjectStore.put, job_sheets' triggers and indexes).
THEOREM EvidenceStays == Spec => EvidenceIsFinal
<1> DEFINE OnlyAdds ==
      /\ \A k \in DOMAIN sheets : k \in DOMAIN sheets' /\ sheets'[k] = sheets[k]
      /\ \A n \in Numbers :
            /\ files[n].body # None => files'[n].body = files[n].body
            /\ files[n].sidecar # None => files'[n].sidecar = files[n].sidecar
<1>1. SheetInv /\ [Next]_vars => [OnlyAdds]_vars
  BY FinalStep
<1> QED BY <1>1, Invariance, PTL DEF Spec, EvidenceIsFinal
=============================================================================
