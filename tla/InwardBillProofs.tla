-------------------------- MODULE InwardBillProofs --------------------------
(***************************************************************************)
(* Proofs about InwardBill, for any number of bills, invoices, PDFs and    *)
(* files of an upload.                                                     *)
(***************************************************************************)
EXTENDS InwardBill, TLAPS

Reviewed == {"needs_review", "error", "rejected"}

(* The rows the files on the volume go with, if the request commits.       *)
Standing == (Bills \ torn) \cup touched

(* What holds of every row, committed or as the request has it.            *)
PdfIsOwn(x) ==        \* no two rows hold one PDF
  \A b, c \in Bills : b # c /\ x[b].pdf # Nil => x[b].pdf # x[c].pdf

PdfIsSource(x) ==     \* a PDF that is there is the one the figures are from
  \A b \in Bills :
    x[b].pdf # Nil /\ pdfs[x[b].pdf] # Nil =>
      /\ pdfs[x[b].pdf].data = x[b].data
      /\ b \notin byHand => pdfs[x[b].pdf].doc = x[b].doc

XmlIfApproved(x) == \A b \in Bills : x[b].xml <=> x[b].status = "approved"

OneRow(x) ==
  \A b, c \in Bills \ byHand : x[b].doc = x[c].doc /\ x[b].doc # Nil => b = c

(* What holds of the rows whose files are theirs.                          *)
PdfIsThere(x, rows) ==
  \A b \in rows : x[b].status \in Reviewed => x[b].pdf # Nil /\ pdfs[x[b].pdf] # Nil

XmlIsThere(x, rows) == \A b \in rows : x[b].xml => xmls[b] = Figures(x[b])

RowsOK(x, rows) ==
  /\ PdfIsOwn(x)
  /\ PdfIsSource(x)
  /\ XmlIfApproved(x)
  /\ OneRow(x)
  /\ PdfIsThere(x, rows)
  /\ XmlIsThere(x, rows)

OneRequest ==
  /\ \A b \in Bills \ touched : view[b] = bills[b]
  /\ work = "none" => touched = {} /\ files = 0

IInv ==
  /\ InwardTypeOK
  /\ OneRequest
  /\ RowsOK(bills, Whole)
  /\ RowsOK(view, Standing)

-----------------------------------------------------------------------------
(* Types. *)

LEMMA NoRowType == NoRow \in Row
  BY InwardConstantsOK DEF NoRow, Row

LEMMA PaperType ==
  ASSUME NEW p \in Papers
  PROVE  /\ p # Nil /\ p.doc \in Docs \cup {Nil} /\ p.data \in Nat
         /\ p.good \in BOOLEAN /\ p.open \in BOOLEAN
         /\ p.kind \in {"text", "scan", "broken"}
         /\ p.kind = "scan" => p.doc = Nil /\ p.data = 0
  BY InwardConstantsOK DEF Paper

(* What reading a PDF makes of a row.                                      *)
LEMMA ExtractedRow ==
  ASSUME NEW row \in Row, NEW p \in Papers \cup {Nil}
  PROVE  /\ Extracted(row, p) \in Row
         /\ Extracted(row, p).status \in {"needs_review", "error"}
         /\ Extracted(row, p).pdf = row.pdf
         /\ Extracted(row, p).xml = row.xml
         /\ IF p = Nil \/ p.kind = "scan"
            THEN Extracted(row, p).doc = row.doc /\ Extracted(row, p).data = row.data
            ELSE Extracted(row, p).doc = p.doc /\ Extracted(row, p).data = p.data
  BY PaperType DEF Extracted, Row

(* The row a PDF makes from nothing.                                       *)
LEMMA ExtractedAnew ==
  ASSUME NEW p \in Papers
  PROVE  /\ Extracted(NoRow, p) \in Row
         /\ Extracted(NoRow, p).status \in {"needs_review", "error"}
         /\ Extracted(NoRow, p).xml = FALSE
         /\ Extracted(NoRow, p).doc = p.doc
         /\ Extracted(NoRow, p).data = p.data
  BY PaperType, NoRowType, ExtractedRow DEF NoRow

(* Some id is free when there is one at all.                               *)
LEMMA Fresh ==
  ASSUME Unused # {}
  PROVE  /\ FreshId \in Bills
         /\ pdfs[FreshId] = Nil /\ xmls[FreshId] = Nil
         /\ \A c \in Bills : bills[c].pdf # FreshId /\ view[c].pdf # FreshId
  BY DEF FreshId, Unused

-----------------------------------------------------------------------------
(* Uploading. *)

LEMMA KeepStep ==
  ASSUME IInv, NEW p \in Papers, Unused # {}, Keep(FreshId, p),
         work \in {"none", "upload"}, files < MaxFiles, work' = "upload", files' = files + 1,
         UNCHANGED <<bills, torn, byHand>>
  PROVE  IInv'
<1> DEFINE b == FreshId
           row == [Extracted(NoRow, p) EXCEPT !.pdf = b]
<1>1. b \in Bills /\ pdfs[b] = Nil /\ \A c \in Bills : bills[c].pdf # b /\ view[c].pdf # b
  BY Fresh
<1>2. /\ row \in Row /\ row.pdf = b /\ row.xml = FALSE /\ row.status \in {"needs_review", "error"}
      /\ row.doc = p.doc /\ row.data = p.data
  BY <1>1, ExtractedAnew DEF Row
<1>3. /\ view' = [view EXCEPT ![b] = row]
      /\ pdfs' = [pdfs EXCEPT ![b] = p]
      /\ touched' = touched \cup {b}
      /\ xmls' = xmls
      /\ Prior(b, Extracted(NoRow, p)) = {}
  BY DEF Keep
<1> HIDE DEF b, row
<1>4. InwardTypeOK'
  BY <1>1, <1>2, <1>3, InwardConstantsOK DEF IInv, InwardTypeOK
<1>5. /\ \A c \in Bills : view'[c] = IF c = b THEN row ELSE view[c]
      /\ \A d \in Bills : pdfs'[d] = IF d = b THEN p ELSE pdfs[d]
      /\ Bills # {} /\ Nil \notin Bills /\ p # Nil
  BY <1>1, <1>3, InwardConstantsOK, PaperType DEF IInv, InwardTypeOK
<1>6. OneRequest'
  BY <1>3, <1>5 DEF IInv, OneRequest
<1>7. /\ \A c \in Bills : bills[c].pdf \in Bills \cup {Nil} /\ view[c].pdf \in Bills \cup {Nil}
  BY DEF IInv, InwardTypeOK, Row
<1>8. RowsOK(bills, Whole)'
  <2>1. PdfIsOwn(bills)' /\ XmlIfApproved(bills)' /\ OneRow(bills)'
    BY DEF IInv, RowsOK, PdfIsOwn, XmlIfApproved, OneRow
  <2>2. PdfIsSource(bills)'
    BY <1>1, <1>5, <1>7 DEF IInv, RowsOK, PdfIsSource
  <2>3. PdfIsThere(bills, Whole)'
    BY <1>1, <1>3, <1>5, <1>7 DEF IInv, RowsOK, PdfIsThere, Whole, Reviewed
  <2>4. XmlIsThere(bills, Whole)'
    BY <1>3 DEF IInv, RowsOK, XmlIsThere, Whole
  <2> QED BY <2>1, <2>2, <2>3, <2>4 DEF RowsOK
<1>9. RowsOK(view, Standing)'
  <2>1. PdfIsOwn(view)'
    BY <1>1, <1>2, <1>5, <1>7 DEF IInv, RowsOK, PdfIsOwn
  <2>2. PdfIsSource(view)'
    BY <1>1, <1>2, <1>5, <1>7 DEF IInv, RowsOK, PdfIsSource
  <2>3. XmlIfApproved(view)'
    BY <1>2, <1>5 DEF IInv, RowsOK, XmlIfApproved
  <2>4. OneRow(view)'
    <3>1. \A c \in Bills \ {b} : p.doc # Nil => view[c].doc # p.doc
      BY <1>3, ExtractedAnew DEF Prior
    <3> QED BY <3>1, <1>2, <1>5 DEF IInv, RowsOK, OneRow
  <2>5. PdfIsThere(view, Standing)'
    BY <1>1, <1>2, <1>3, <1>5, <1>7 DEF IInv, RowsOK, PdfIsThere, Standing, Reviewed, InwardTypeOK
  <2>6. XmlIsThere(view, Standing)'
    <3>1. \A c \in Standing' : c = b \/ (c \in Standing /\ c \in Bills)
      BY <1>3 DEF IInv, Standing, InwardTypeOK
    <3> QED BY <3>1, <1>1, <1>2, <1>3, <1>5 DEF IInv, RowsOK, XmlIsThere
  <2> QED BY <2>1, <2>2, <2>3, <2>4, <2>5, <2>6 DEF RowsOK
<1> QED BY <1>4, <1>6, <1>8, <1>9 DEF IInv

LEMMA FoldStep ==
  ASSUME IInv, NEW p \in Papers, Unused # {}, Fold(FreshId, p),
         work \in {"none", "upload"}, files < MaxFiles, work' = "upload", files' = files + 1,
         UNCHANGED <<bills, torn, byHand>>
  PROVE  IInv'
<1> DEFINE b == FreshId
           row == [Extracted(NoRow, p) EXCEPT !.status = "needs_review", !.pdf = b]
<1>1. b \in Bills /\ pdfs[b] = Nil /\ \A c \in Bills : bills[c].pdf # b /\ view[c].pdf # b
  BY Fresh
<1>2. /\ row \in Row /\ row.pdf = b /\ row.xml = FALSE /\ row.status = "needs_review"
      /\ row.doc = p.doc /\ row.data = p.data
  BY <1>1, ExtractedAnew DEF Row
<1>3. PICK c \in Prior(b, Extracted(NoRow, p)) :
        /\ view' = [view EXCEPT ![c] = row]
        /\ pdfs' = [d \in Bills |-> IF d = b THEN p ELSE IF d = view[c].pdf THEN Nil ELSE pdfs[d]]
        /\ xmls' = [xmls EXCEPT ![c] = IF view[c].xml THEN Nil ELSE @]
        /\ touched' = touched \cup {c}
  BY DEF Fold
<1>4. c \in Bills /\ view[c].doc = p.doc
  BY <1>3, ExtractedAnew DEF Prior
<1> HIDE DEF b, row
<1>5. InwardTypeOK'
  BY <1>1, <1>2, <1>3, <1>4, InwardConstantsOK DEF IInv, InwardTypeOK
<1>6. /\ \A d \in Bills : view'[d] = IF d = c THEN row ELSE view[d]
      /\ \A d \in Bills : pdfs'[d] = IF d = b THEN p ELSE IF d = view[c].pdf THEN Nil ELSE pdfs[d]
      /\ \A d \in Bills : d # c => xmls'[d] = xmls[d]
      /\ Nil \notin Bills /\ p # Nil
  BY <1>1, <1>3, <1>4, InwardConstantsOK, PaperType DEF IInv, InwardTypeOK
<1>7. OneRequest'
  BY <1>3, <1>6 DEF IInv, OneRequest
<1>8. \A d \in Bills : bills[d].pdf \in Bills \cup {Nil} /\ view[d].pdf \in Bills \cup {Nil}
  BY DEF IInv, InwardTypeOK, Row
<1>9. RowsOK(bills, Whole)'
  <2>1. PdfIsOwn(bills)' /\ XmlIfApproved(bills)' /\ OneRow(bills)'
    BY DEF IInv, RowsOK, PdfIsOwn, XmlIfApproved, OneRow
  <2>2. PdfIsSource(bills)'
    BY <1>1, <1>6, <1>8 DEF IInv, RowsOK, PdfIsSource
  <2>3. \A d \in Whole' : d \in Whole /\ d # c /\ view[d] = bills[d]
    BY <1>3 DEF IInv, Whole, OneRequest
  <2>4. PdfIsThere(bills, Whole)'
    <3>1. SUFFICES ASSUME NEW d \in Whole', bills[d].status \in Reviewed
                   PROVE  bills[d].pdf # Nil /\ pdfs'[bills[d].pdf] # Nil
      BY DEF PdfIsThere
    <3>2. d \in Bills /\ bills[d].pdf # Nil /\ pdfs[bills[d].pdf] # Nil
      BY <2>3, <3>1 DEF IInv, RowsOK, PdfIsThere, Whole
    <3>3. bills[d].pdf # view[c].pdf
      BY <2>3, <3>2, <1>4 DEF IInv, RowsOK, PdfIsOwn
    <3> QED BY <3>2, <3>3, <1>1, <1>6, <1>8
  <2>5. XmlIsThere(bills, Whole)'
    <3>1. \A d \in Whole' : d \in Bills /\ xmls'[d] = xmls[d]
      BY <2>3, <1>6 DEF Whole
    <3> QED BY <2>3, <3>1 DEF IInv, RowsOK, XmlIsThere
  <2> QED BY <2>1, <2>2, <2>4, <2>5 DEF RowsOK
<1>10. RowsOK(view, Standing)'
  <2>1. PdfIsOwn(view)'
    BY <1>1, <1>2, <1>4, <1>6, <1>8 DEF IInv, RowsOK, PdfIsOwn
  <2>2. PdfIsSource(view)'
    BY <1>1, <1>2, <1>4, <1>6, <1>8 DEF IInv, RowsOK, PdfIsSource
  <2>3. XmlIfApproved(view)'
    BY <1>2, <1>6 DEF IInv, RowsOK, XmlIfApproved
  <2>4. OneRow(view)'
    <3>1. \A d \in Bills : view'[d].doc = view[d].doc
      BY <1>2, <1>4, <1>6
    <3> QED BY <3>1 DEF IInv, RowsOK, OneRow
  <2>5. \A d \in Standing' : d = c \/ (d \in Standing /\ d \in Bills)
    BY <1>3, <1>4 DEF IInv, Standing, InwardTypeOK
  <2>6. PdfIsThere(view, Standing)'
    <3>1. SUFFICES ASSUME NEW d \in Standing', view'[d].status \in Reviewed
                   PROVE  view'[d].pdf # Nil /\ pdfs'[view'[d].pdf] # Nil
      BY DEF PdfIsThere
    <3>2. CASE d = c
      BY <3>2, <1>1, <1>2, <1>4, <1>6
    <3>3. CASE d # c
      <4>1. d \in Standing /\ d \in Bills /\ view'[d] = view[d]
        BY <2>5, <3>3, <1>6
      <4>2. view[d].pdf # Nil /\ pdfs[view[d].pdf] # Nil
        BY <4>1, <3>1 DEF IInv, RowsOK, PdfIsThere
      <4>3. view[d].pdf # view[c].pdf
        BY <4>1, <4>2, <3>3, <1>4 DEF IInv, RowsOK, PdfIsOwn
      <4> QED BY <4>1, <4>2, <4>3, <1>1, <1>6, <1>8
    <3> QED BY <3>2, <3>3
  <2>7. XmlIsThere(view, Standing)'
    <3>1. \A d \in Standing' : d # c => d \in Standing /\ view'[d] = view[d] /\ xmls'[d] = xmls[d]
      BY <2>5, <1>6
    <3>2. view'[c].xml = FALSE
      BY <1>2, <1>4, <1>6
    <3> QED BY <3>1, <3>2 DEF IInv, RowsOK, XmlIsThere
  <2> QED BY <2>1, <2>2, <2>3, <2>4, <2>6, <2>7 DEF RowsOK
<1> QED BY <1>5, <1>7, <1>9, <1>10 DEF IInv

-----------------------------------------------------------------------------
(* A request that changes one row and no file leaves both copies of the    *)
(* rows alike.                                                             *)
LEMMA OneRowStep ==
  ASSUME IInv, NEW b \in Bills, NEW row \in Row, work = "none",
         view' = [view EXCEPT ![b] = row], bills' = view',
         UNCHANGED <<diskVars, workVars, torn>>,
         byHand' \subseteq Bills, byHand \subseteq byHand',
         row.pdf = bills[b].pdf, row.xml = FALSE, row.status # "approved",
         bills[b].status \in Reviewed,
         row.pdf # Nil /\ pdfs[row.pdf] # Nil => row.data = pdfs[row.pdf].data,
         b \in byHand' \/ row.doc = bills[b].doc
  PROVE  IInv'
<1>1. view = bills /\ touched = {}
  BY DEF IInv, InwardTypeOK, OneRequest
<1>2. /\ \A c \in Bills : view'[c] = IF c = b THEN row ELSE bills[c]
      /\ view' \in [Bills -> Row]
  BY <1>1 DEF IInv, InwardTypeOK
<1>3. UNCHANGED <<pdfs, xmls, work, files, touched>> /\ Whole' = Whole /\ Standing' = Whole'
  BY <1>1 DEF diskVars, workVars, Whole, Standing
<1>4. InwardTypeOK'
  BY <1>2, <1>3 DEF IInv, InwardTypeOK
<1>5. OneRequest'
  BY <1>3 DEF IInv, OneRequest
<1>6. PdfIsOwn(view)'
  BY <1>2, <1>3 DEF IInv, RowsOK, PdfIsOwn
<1>7. PdfIsSource(view)'
  BY <1>2, <1>3 DEF IInv, RowsOK, PdfIsSource
<1>8. XmlIfApproved(view)'
  BY <1>2 DEF IInv, RowsOK, XmlIfApproved
<1>9. OneRow(view)'
  BY <1>2 DEF IInv, RowsOK, OneRow
<1>10. PdfIsThere(view, Whole)'
  BY <1>2, <1>3 DEF IInv, RowsOK, PdfIsThere, Whole
<1>11. XmlIsThere(view, Whole)'
  BY <1>2, <1>3 DEF IInv, RowsOK, XmlIsThere, Whole
<1>12. RowsOK(view, Standing)' /\ RowsOK(bills, Whole)'
  BY <1>3, <1>6, <1>7, <1>8, <1>9, <1>10, <1>11
     DEF RowsOK, PdfIsOwn, PdfIsSource, XmlIfApproved, OneRow, PdfIsThere, XmlIsThere
<1> QED BY <1>4, <1>5, <1>12 DEF IInv

LEMMA RowFields ==
  ASSUME IInv, NEW b \in Bills
  PROVE  /\ bills[b] \in Row
         /\ bills[b].pdf \in Bills \cup {Nil}
         /\ bills[b].status # "approved" => bills[b].xml = FALSE
         /\ bills[b].pdf # Nil /\ pdfs[bills[b].pdf] # Nil =>
              /\ pdfs[bills[b].pdf] \in Papers
              /\ pdfs[bills[b].pdf].data = bills[b].data
              /\ b \notin byHand => pdfs[bills[b].pdf].doc = bills[b].doc
  BY DEF IInv, InwardTypeOK, Row, RowsOK, XmlIfApproved, PdfIsSource

LEMMA PatchStep ==
  ASSUME IInv, NEW b \in Bills, NEW d \in Docs \cup {Nil}, NEW open \in BOOLEAN,
         PatchBill(b, d, open)
  PROVE  IInv'
<1> DEFINE row == [bills[b] EXCEPT !.doc = d, !.open = open]
<1>1. view = bills /\ byHand \subseteq Bills
  BY DEF IInv, InwardTypeOK, OneRequest, PatchBill
<1>2. /\ row \in Row /\ row.pdf = bills[b].pdf /\ row.xml = bills[b].xml /\ row.doc = d
      /\ row.status = bills[b].status /\ row.data = bills[b].data
  BY RowFields DEF Row
<1>3. view' = [view EXCEPT ![b] = row]
  BY <1>1 DEF PatchBill, IInv, InwardTypeOK
<1> HIDE DEF row
<1>4. byHand' \subseteq Bills /\ byHand \subseteq byHand' /\ (b \in byHand' \/ row.doc = bills[b].doc)
  BY <1>1, <1>2 DEF PatchBill
<1>5. bills[b].status \in Reviewed /\ bills[b].status # "approved" /\ work = "none"
  BY DEF PatchBill, Reviewed
<1>6. bills' = view' /\ UNCHANGED <<diskVars, workVars, torn>>
  BY DEF PatchBill
<1>7. row.xml = FALSE /\ row.status # "approved"
      /\ (row.pdf # Nil /\ pdfs[row.pdf] # Nil => row.data = pdfs[row.pdf].data)
  BY <1>2, <1>5, RowFields
<1> QED BY <1>2, <1>3, <1>4, <1>5, <1>6, <1>7, OneRowStep

LEMMA ReExtractStep ==
  ASSUME IInv, NEW b \in Bills, ReExtract(b)
  PROVE  IInv'
<1> DEFINE p == IF bills[b].pdf = Nil THEN Nil ELSE pdfs[bills[b].pdf]
           row == Extracted(bills[b], p)
<1>1. view = bills /\ byHand \subseteq Bills
  BY DEF IInv, InwardTypeOK, OneRequest, ReExtract
<1>2. p \in Papers \cup {Nil}
  BY RowFields
<1>3. view' = [view EXCEPT ![b] = row]
  BY <1>1 DEF ReExtract, IInv, InwardTypeOK
<1>4. /\ row \in Row /\ row.pdf = bills[b].pdf /\ row.xml = bills[b].xml
      /\ row.status \in {"needs_review", "error"}
      /\ IF p = Nil \/ p.kind = "scan"
         THEN row.doc = bills[b].doc /\ row.data = bills[b].data
         ELSE row.doc = p.doc /\ row.data = p.data
  <2>1. bills[b] \in Row
    BY RowFields
  <2> HIDE DEF p
  <2> QED BY <1>2, <2>1, ExtractedRow
<1>5. /\ row.pdf # Nil /\ pdfs[row.pdf] # Nil => row.data = pdfs[row.pdf].data
      /\ b \in byHand \/ row.doc = bills[b].doc
  <2>1. CASE p = Nil
    BY <2>1, <1>4, RowFields
  <2>2. CASE p # Nil
    <3>1. bills[b].pdf # Nil /\ pdfs[bills[b].pdf] = p
      BY <2>2
    <3>2. p.data = bills[b].data /\ (b \notin byHand => p.doc = bills[b].doc)
      BY <2>2, <3>1, RowFields
    <3> HIDE DEF p, row
    <3> QED BY <3>1, <3>2, <1>4
  <2> QED BY <2>1, <2>2
<1>6. bills[b].status \in Reviewed /\ bills[b].status # "approved" /\ work = "none"
  BY DEF ReExtract, Reviewed
<1>7. bills' = view' /\ byHand' = byHand /\ UNCHANGED <<diskVars, workVars, torn>>
  BY DEF ReExtract
<1>8. row.xml = FALSE /\ row.status # "approved"
  BY <1>4, <1>6, RowFields
<1> HIDE DEF p, row
<1> QED BY <1>1, <1>3, <1>4, <1>5, <1>6, <1>7, <1>8, OneRowStep

LEMMA RejectStep ==
  ASSUME IInv, NEW b \in Bills, Reject(b)
  PROVE  IInv'
<1> DEFINE row == [bills[b] EXCEPT !.status = "rejected"]
<1>1. view = bills /\ byHand \subseteq Bills
  BY DEF IInv, InwardTypeOK, OneRequest, Reject
<1>2. /\ row \in Row /\ row.pdf = bills[b].pdf /\ row.xml = bills[b].xml
      /\ row.doc = bills[b].doc /\ row.status = "rejected" /\ row.data = bills[b].data
  BY RowFields DEF Row
<1>3. view' = [view EXCEPT ![b] = row]
  BY <1>1 DEF Reject, IInv, InwardTypeOK
<1> HIDE DEF row
<1>4. bills[b].status \in Reviewed /\ bills[b].status # "approved" /\ work = "none"
  BY DEF Reject, Reviewed
<1>5. bills' = view' /\ byHand' = byHand /\ UNCHANGED <<diskVars, workVars, torn>>
  BY DEF Reject
<1>6. row.xml = FALSE /\ row.status # "approved"
      /\ (row.pdf # Nil /\ pdfs[row.pdf] # Nil => row.data = pdfs[row.pdf].data)
  BY <1>2, <1>4, RowFields
<1> QED BY <1>1, <1>2, <1>3, <1>4, <1>5, <1>6, OneRowStep

LEMMA ApproveStep ==
  ASSUME IInv, NEW b \in Bills, Approve(b)
  PROVE  IInv'
<1> DEFINE row == [bills[b] EXCEPT !.status = "approved", !.pdf = Nil, !.xml = TRUE]
<1>1. view = bills /\ touched = {} /\ Nil \notin Bills
  BY InwardConstantsOK DEF IInv, InwardTypeOK, OneRequest, Approve
<1>2. /\ row \in Row /\ row.pdf = Nil /\ row.xml = TRUE /\ row.status = "approved"
      /\ row.doc = bills[b].doc /\ row.data = bills[b].data
  BY RowFields DEF Row
<1>3. /\ view' = [bills EXCEPT ![b] = row]
      /\ xmls' = [xmls EXCEPT ![b] = Figures(bills[b])]
      /\ pdfs' = [d \in Bills |-> IF d = bills[b].pdf THEN Nil ELSE pdfs[d]]
      /\ work' = "other" /\ touched' = {b}
      /\ UNCHANGED <<bills, files, torn, byHand>>
  BY <1>1 DEF Approve, IInv, InwardTypeOK
<1> HIDE DEF row
<1>4. InwardTypeOK'
  <2>1. Figures(bills[b]) \in [doc : Docs \cup {Nil}, data : Nat]
    BY RowFields DEF Figures, Row
  <2> QED BY <2>1, <1>2, <1>3 DEF IInv, InwardTypeOK
<1>5. /\ \A d \in Bills : view'[d] = IF d = b THEN row ELSE bills[d]
      /\ \A d \in Bills : pdfs'[d] = IF d = bills[b].pdf THEN Nil ELSE pdfs[d]
      /\ \A d \in Bills : xmls'[d] = IF d = b THEN Figures(bills[b]) ELSE xmls[d]
  BY <1>3 DEF IInv, InwardTypeOK
<1>6. OneRequest'
  BY <1>3, <1>5 DEF OneRequest
<1>7. \A d \in Bills : bills[d].pdf \in Bills \cup {Nil}
  BY RowFields
<1>8. \A d \in Bills \ {b} : bills[d].pdf # Nil => pdfs'[bills[d].pdf] = pdfs[bills[d].pdf]
  BY <1>5, <1>7 DEF IInv, RowsOK, PdfIsOwn
<1>9. Whole' \subseteq Bills \ {b} /\ Whole' \subseteq Whole /\ Whole = Standing
      /\ Standing' \subseteq Whole \cup {b}
  BY <1>1, <1>3 DEF Whole, Standing
<1>10. RowsOK(bills, Whole)'
  <2>1. PdfIsOwn(bills)' /\ XmlIfApproved(bills)' /\ OneRow(bills)'
    BY <1>3 DEF IInv, RowsOK, PdfIsOwn, XmlIfApproved, OneRow
  <2>2. PdfIsSource(bills)'
    BY <1>3, <1>5, <1>7 DEF IInv, RowsOK, PdfIsSource
  <2>3. PdfIsThere(bills, Whole)'
    BY <1>3, <1>8, <1>9 DEF IInv, RowsOK, PdfIsThere
  <2>4. XmlIsThere(bills, Whole)'
    BY <1>3, <1>5, <1>9 DEF IInv, RowsOK, XmlIsThere
  <2> QED BY <2>1, <2>2, <2>3, <2>4 DEF RowsOK
<1>11. RowsOK(view, Standing)'
  <2>1. PdfIsOwn(view)'
    BY <1>2, <1>5 DEF IInv, RowsOK, PdfIsOwn
  <2>2. PdfIsSource(view)'
    <3>1. SUFFICES ASSUME NEW d \in Bills, view'[d].pdf # Nil, pdfs'[view'[d].pdf] # Nil
                   PROVE  /\ pdfs'[view'[d].pdf].data = view'[d].data
                          /\ d \notin byHand => pdfs'[view'[d].pdf].doc = view'[d].doc
      BY <1>3 DEF PdfIsSource
    <3>2. d # b /\ view'[d] = bills[d]
      BY <3>1, <1>2, <1>5
    <3>3. pdfs'[bills[d].pdf] = pdfs[bills[d].pdf]
      BY <3>1, <3>2, <1>8
    <3> QED BY <3>1, <3>2, <3>3 DEF IInv, RowsOK, PdfIsSource
  <2>3. XmlIfApproved(view)'
    BY <1>2, <1>5 DEF IInv, RowsOK, XmlIfApproved
  <2>4. OneRow(view)'
    BY <1>2, <1>3, <1>5 DEF IInv, RowsOK, OneRow
  <2>5. PdfIsThere(view, Standing)'
    BY <1>2, <1>5, <1>8, <1>9 DEF IInv, RowsOK, PdfIsThere, Reviewed, Whole
  <2>6. XmlIsThere(view, Standing)'
    <3>1. Figures(bills[b]) = Figures(row)
      BY <1>2 DEF Figures
    <3> QED BY <3>1, <1>2, <1>5, <1>9 DEF IInv, RowsOK, XmlIsThere, Whole
  <2> QED BY <2>1, <2>2, <2>3, <2>4, <2>5, <2>6 DEF RowsOK
<1> QED BY <1>4, <1>6, <1>10, <1>11 DEF IInv

-----------------------------------------------------------------------------
(* The end of a request. *)

LEMMA CommitStep ==
  ASSUME IInv, Commit
  PROVE  IInv'
<1>1. /\ work' = "none" /\ files' = 0 /\ touched' = {} /\ bills' = view
      /\ torn' = torn \ touched /\ UNCHANGED <<view, pdfs, xmls, byHand>>
  BY DEF Commit, RequestEnds, diskVars
<1>2. Whole' = Standing /\ Standing' = Standing
  BY <1>1 DEF IInv, InwardTypeOK, Whole, Standing
<1>3. InwardTypeOK'
  BY <1>1, InwardConstantsOK DEF IInv, InwardTypeOK
<1>4. RowsOK(view, Standing)' /\ RowsOK(bills, Whole)'
  BY <1>1, <1>2
     DEF IInv, RowsOK, PdfIsOwn, PdfIsSource, XmlIfApproved, OneRow, PdfIsThere, XmlIsThere
<1>5. OneRequest'
  BY <1>1 DEF OneRequest
<1> QED BY <1>3, <1>4, <1>5 DEF IInv

LEMMA FailStep ==
  ASSUME IInv, Fail
  PROVE  IInv'
<1>1. /\ work' = "none" /\ files' = 0 /\ touched' = {} /\ view' = bills
      /\ torn' = torn \cup touched /\ UNCHANGED <<bills, pdfs, xmls, byHand>>
  BY DEF Fail, RequestEnds, diskVars
<1>2. Whole' = Whole /\ Standing' = Whole
  BY <1>1 DEF IInv, InwardTypeOK, Whole, Standing
<1>3. InwardTypeOK'
  BY <1>1, InwardConstantsOK DEF IInv, InwardTypeOK
<1>4. RowsOK(view, Standing)' /\ RowsOK(bills, Whole)'
  BY <1>1, <1>2
     DEF IInv, RowsOK, PdfIsOwn, PdfIsSource, XmlIfApproved, OneRow, PdfIsThere, XmlIsThere
<1>5. OneRequest'
  BY <1>1 DEF OneRequest
<1> QED BY <1>3, <1>4, <1>5 DEF IInv

-----------------------------------------------------------------------------
(* The rows and files of supplier bills keep what the four properties say, *)
(* whatever is uploaded, corrected or rolled back: IInv is inductive.      *)
THEOREM InwardInvariant == InwardSpec => []IInv
<1>1. InwardInit => IInv
  <2> SUFFICES ASSUME InwardInit PROVE IInv
    OBVIOUS
  <2>1. \A b \in Bills : bills[b] = NoRow /\ view[b] = NoRow
    BY DEF InwardInit
  <2>2. InwardTypeOK
    BY NoRowType, InwardConstantsOK DEF InwardInit, InwardTypeOK
  <2>3. OneRequest
    BY DEF InwardInit, OneRequest
  <2>4. RowsOK(bills, Whole) /\ RowsOK(view, Standing)
    BY <2>1 DEF InwardInit, NoRow, RowsOK, PdfIsOwn, PdfIsSource, XmlIfApproved, OneRow,
                PdfIsThere, XmlIsThere, Whole, Standing, Reviewed
  <2> QED BY <2>2, <2>3, <2>4 DEF IInv
<1>2. IInv /\ [InwardNext]_inwardVars => IInv'
  <2> SUFFICES ASSUME IInv, [InwardNext]_inwardVars PROVE IInv'
    OBVIOUS
  <2>1. CASE \E p \in Papers : UploadFile(p)
    <3>1. PICK p \in Papers : UploadFile(p)
      BY <2>1
    <3>2. CASE Keep(FreshId, p)
      BY <3>1, <3>2, KeepStep DEF UploadFile
    <3>3. CASE Fold(FreshId, p)
      BY <3>1, <3>3, FoldStep DEF UploadFile
    <3> QED BY <3>1, <3>2, <3>3 DEF UploadFile
  <2>2. CASE \E b \in Bills : \E d \in Docs \cup {Nil}, open \in BOOLEAN : PatchBill(b, d, open)
    BY <2>2, PatchStep
  <2>3. CASE \E b \in Bills : ReExtract(b)
    BY <2>3, ReExtractStep
  <2>4. CASE \E b \in Bills : Reject(b)
    BY <2>4, RejectStep
  <2>5. CASE \E b \in Bills : Approve(b)
    BY <2>5, ApproveStep
  <2>6. CASE Commit
    BY <2>6, CommitStep
  <2>7. CASE Fail
    BY <2>7, FailStep
  <2>8. CASE UNCHANGED inwardVars
    BY <2>8 DEF inwardVars, diskVars, workVars, IInv, InwardTypeOK, OneRequest, RowsOK,
                PdfIsOwn, PdfIsSource, XmlIfApproved, OneRow, PdfIsThere, XmlIsThere,
                Whole, Standing
  <2> QED BY <2>1, <2>2, <2>3, <2>4, <2>5, <2>6, <2>7, <2>8 DEF InwardNext
<1> QED BY <1>1, <1>2, PTL DEF InwardSpec

(* Every variable keeps its type.                                          *)
THEOREM InwardTypes == InwardSpec => []InwardTypeOK
<1>1. IInv => InwardTypeOK
  BY DEF IInv
<1> QED BY <1>1, InwardInvariant, PTL

(* A bill that is not approved can be read against its own PDF.            *)
THEOREM SourceIsKept == InwardSpec => []SourceKept
<1>1. IInv => SourceKept
  <2> SUFFICES ASSUME IInv, NEW b \in Whole, bills[b].status \in Reviewed
               PROVE  /\ bills[b].pdf \in Bills
                      /\ pdfs[bills[b].pdf] # Nil
                      /\ pdfs[bills[b].pdf].data = bills[b].data
                      /\ \A c \in Bills \ {b} : bills[c].pdf # bills[b].pdf
    BY DEF SourceKept, Reviewed
  <2>1. b \in Bills /\ bills[b].pdf # Nil /\ pdfs[bills[b].pdf] # Nil
    BY DEF IInv, RowsOK, PdfIsThere, Whole
  <2> QED BY <2>1, RowFields DEF IInv, RowsOK, PdfIsOwn
<1> QED BY <1>1, InwardInvariant, PTL

(* The XML of an approved bill says what the bill says.                    *)
THEOREM XmlCorrect == InwardSpec => []XmlIsTheBill
<1>1. IInv => XmlIsTheBill
  BY DEF IInv, RowsOK, XmlIfApproved, XmlIsThere, XmlIsTheBill, Whole
<1> QED BY <1>1, InwardInvariant, PTL

(* Uploads never make two rows of one invoice.                             *)
THEOREM OneRowEach == InwardSpec => []OneRowPerInvoice
<1>1. IInv => OneRowPerInvoice
  BY DEF IInv, RowsOK, OneRow, OneRowPerInvoice
<1> QED BY <1>1, InwardInvariant, PTL
=============================================================================
