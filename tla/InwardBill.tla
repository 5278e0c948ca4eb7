----------------------------- MODULE InwardBill -----------------------------
(***************************************************************************)
(* A supplier's bill, from its PDF to its Tally XML: uploaded and read,    *)
(* corrected, rejected or read again, approved.  One upload takes several  *)
(* files in one transaction; a file of an invoice that is there already    *)
(* takes the place of what its row held.  Files on the volume are written  *)
(* and deleted as a request goes, rows change when it commits: a request   *)
(* that ends otherwise leaves files its rows know nothing of.              *)
(*                                                                         *)
(* Requests are taken one after another.                                   *)
(*                                                                         *)
(* A definition whose comment begins with "Slip" is a deliberate mistake   *)
(* that stands for no code: it takes the place of the definition after it  *)
(* to show that the properties notice it.                                  *)
(***************************************************************************)
EXTENDS Naturals

CONSTANTS Bills,     \* bill ids; a PDF and an XML are named after one
          Docs,      \* what tells invoices apart: supplier_gstin and bill_no
          Papers,    \* the PDFs that may be uploaded
          MaxFiles,  \* bound: the files of one upload
          Nil

(* Of a PDF: the invoice it is of, the figures read from it, whether they  *)
(* add up, whether the supplier or a line is without a match, and whether  *)
(* it is a scan, or fails in the middle of the reading.                    *)
Paper == [doc : Docs \cup {Nil}, data : Nat, good : BOOLEAN, open : BOOLEAN,
          kind : {"text", "scan", "broken"}]

ASSUME InwardConstantsOK ==
  /\ Nil \notin Bills \cup Docs \cup Paper
  /\ Papers \subseteq Paper
  /\ \A p \in Papers : p.kind = "scan" => p.doc = Nil /\ p.data = 0
  /\ MaxFiles \in Nat \ {0}

VARIABLES
  bills,     \* [Bills -> the committed row, or NoRow]
  view,      \* the rows as the request at work has them
  pdfs,      \* [Bills -> the PDF on the volume under this name, or Nil]
  xmls,      \* [Bills -> what the XML under this name says, or Nil]
  work,      \* "none", "upload" (more files may come), or "other"
  files,     \* how many files the upload has taken
  touched,   \* history: the rows whose files the request has changed
  torn,      \* history: those of requests that did not commit
  byHand     \* history: bills whose number a reviewer has typed

diskVars == <<pdfs, xmls>>
workVars == <<work, files, touched>>
inwardVars == <<bills, view, diskVars, workVars, torn, byHand>>

Row == [status : {"none", "needs_review", "error", "approved", "rejected"},
        doc : Docs \cup {Nil}, data : Nat, good : BOOLEAN, open : BOOLEAN,
        pdf : Bills \cup {Nil},     \* source_pdf_path
        xml : BOOLEAN]              \* is tally_xml_path set?

NoRow == [status |-> "none", doc |-> Nil, data |-> 0, good |-> FALSE, open |-> TRUE,
          pdf |-> Nil, xml |-> FALSE]

Figures(row) == [doc |-> row.doc, data |-> row.data]      \* what the XML says of it

(* run_extraction of a row whose PDF is p, or is not to be found. *)
Extracted(row, p) ==
  IF p = Nil THEN [row EXCEPT !.status = "error"]
  ELSE IF p.kind = "scan" THEN [row EXCEPT !.status = "needs_review"]
  ELSE [row EXCEPT !.status = IF p.kind = "broken" THEN "error" ELSE "needs_review",
                   !.doc = p.doc, !.data = p.data, !.good = p.good,
                   !.open = p.open \/ p.kind = "broken"]

(* approve_gate, and that the bill is not approved yet. *)
MayApprove(row) == row.status = "needs_review" /\ row.good /\ ~row.open

-----------------------------------------------------------------------------
(* Uploading: files of one request, and its end. *)

(* No row, and no file that an earlier request has left. *)
Unused ==
  {b \in Bills : /\ view[b].status = "none"
                 /\ pdfs[b] = Nil /\ xmls[b] = Nil
                 /\ \A c \in Bills : bills[c].pdf # b /\ view[c].pdf # b}

FreshId == CHOOSE b \in Unused : TRUE      \* uuid4

(* Slip: only bills still to be approved are looked for. *)
Prior_NotApproved(b, row) ==
  {c \in Bills \ {b} : row.doc # Nil /\ view[c].doc = row.doc /\ view[c].status # "approved"}

(* _find_prior_bill *)
Prior(b, row) == {c \in Bills \ {b} : row.doc # Nil /\ view[c].doc = row.doc}

Keep(b, p) ==    \* a row of its own
  /\ Prior(b, Extracted(NoRow, p)) = {}
  /\ view' = [view EXCEPT ![b] = [Extracted(NoRow, p) EXCEPT !.pdf = b]]
  /\ pdfs' = [pdfs EXCEPT ![b] = p]
  /\ touched' = touched \cup {b}
  /\ UNCHANGED xmls

(* Slip: the new PDF goes with the row that is dropped. *)
Fold_DropsBoth(b, p) ==
  \E c \in Prior(b, Extracted(NoRow, p)) :
    /\ view' = [view EXCEPT ![c] = [Extracted(NoRow, p) EXCEPT !.status = "needs_review",
                                                               !.pdf = b]]
    /\ pdfs' = [d \in Bills |-> IF d \in {b, view[c].pdf} THEN Nil ELSE pdfs[d]]
    /\ xmls' = [xmls EXCEPT ![c] = IF view[c].xml THEN Nil ELSE @]
    /\ touched' = touched \cup {c}

(* _replace_extraction: a prior row takes the figures and the PDF, is open *)
(* for review whatever it was, and its old PDF and XML are deleted.        *)
Fold(b, p) ==
  \E c \in Prior(b, Extracted(NoRow, p)) :
    /\ view' = [view EXCEPT ![c] = [Extracted(NoRow, p) EXCEPT !.status = "needs_review",
                                                               !.pdf = b]]
    /\ pdfs' = [d \in Bills |-> IF d = b THEN p ELSE IF d = view[c].pdf THEN Nil ELSE pdfs[d]]
    /\ xmls' = [xmls EXCEPT ![c] = IF view[c].xml THEN Nil ELSE @]
    /\ touched' = touched \cup {c}

UploadFile(p) ==
  /\ work \in {"none", "upload"}
  /\ files < MaxFiles
  /\ Unused # {}
  /\ Keep(FreshId, p) \/ Fold(FreshId, p)
  /\ work' = "upload"
  /\ files' = files + 1
  /\ UNCHANGED <<bills, torn, byHand>>

-----------------------------------------------------------------------------
(* One bill. *)

(* Slip: an approved bill can be corrected too. *)
PatchBill_WhenApproved(b, d, open) ==
  /\ work = "none"
  /\ bills[b].status \in {"needs_review", "error", "approved"}
  /\ d = Nil <=> bills[b].doc = Nil
  /\ view' = [view EXCEPT ![b].doc = d, ![b].open = open]
  /\ bills' = view'
  /\ byHand' = IF d = bills[b].doc THEN byHand ELSE byHand \cup {b}
  /\ UNCHANGED <<diskVars, workVars, torn>>

(* A reviewer corrects the number and the matches; a bill whose supplier   *)
(* was not read is not told apart by its number.  Nothing but the row      *)
(* changes, so the step is the whole request.                              *)
PatchBill(b, d, open) ==
  /\ work = "none"
  /\ bills[b].status \in {"needs_review", "error"}
  /\ d = Nil <=> bills[b].doc = Nil
  /\ view' = [view EXCEPT ![b].doc = d, ![b].open = open]
  /\ bills' = view'
  /\ byHand' = IF d = bills[b].doc THEN byHand ELSE byHand \cup {b}
  /\ UNCHANGED <<diskVars, workVars, torn>>

(* A rejected bill comes back this way. *)
ReExtract(b) ==
  /\ work = "none"
  /\ bills[b].status \in {"needs_review", "error", "rejected"}
  /\ view' = [view EXCEPT ![b] = Extracted(@, IF @.pdf = Nil THEN Nil ELSE pdfs[@.pdf])]
  /\ bills' = view'
  /\ UNCHANGED <<diskVars, workVars, torn, byHand>>

Reject(b) ==
  /\ work = "none"
  /\ bills[b].status \in {"needs_review", "error", "rejected"}
  /\ view' = [view EXCEPT ![b].status = "rejected"]
  /\ bills' = view'
  /\ UNCHANGED <<diskVars, workVars, torn, byHand>>

(* approve_bill: the XML is written and the PDF deleted, then the commit. *)
Approve(b) ==
  /\ work = "none"
  /\ MayApprove(bills[b])
  /\ view' = [view EXCEPT ![b].status = "approved", ![b].pdf = Nil, ![b].xml = TRUE]
  /\ xmls' = [xmls EXCEPT ![b] = Figures(bills[b])]
  /\ pdfs' = [d \in Bills |-> IF d = bills[b].pdf THEN Nil ELSE pdfs[d]]
  /\ work' = "other"
  /\ touched' = {b}
  /\ UNCHANGED <<bills, files, torn, byHand>>

-----------------------------------------------------------------------------
RequestEnds == work # "none" /\ work' = "none" /\ files' = 0 /\ touched' = {}

Commit ==
  /\ RequestEnds
  /\ bills' = view
  /\ torn' = torn \ touched
  /\ UNCHANGED <<view, diskVars, byHand>>

(* A later file of the upload is refused (too big, not a PDF), something   *)
(* in the request fails, or the process ends: the rows are rolled back.    *)
Fail ==
  /\ RequestEnds
  /\ view' = bills
  /\ torn' = torn \cup touched
  /\ UNCHANGED <<bills, diskVars, byHand>>

InwardInit ==
  /\ bills = [b \in Bills |-> NoRow]
  /\ view = bills
  /\ pdfs = [b \in Bills |-> Nil]
  /\ xmls = [b \in Bills |-> Nil]
  /\ work = "none" /\ files = 0 /\ touched = {}
  /\ torn = {} /\ byHand = {}

InwardNext ==
  \/ \E p \in Papers : UploadFile(p)
  \/ \E b \in Bills :
       \/ \E d \in Docs \cup {Nil}, open \in BOOLEAN : PatchBill(b, d, open)
       \/ ReExtract(b) \/ Reject(b) \/ Approve(b)
  \/ Commit
  \/ Fail

InwardSpec == InwardInit /\ [][InwardNext]_inwardVars

-----------------------------------------------------------------------------
InwardTypeOK ==
  /\ bills \in [Bills -> Row]
  /\ view \in [Bills -> Row]
  /\ pdfs \in [Bills -> Papers \cup {Nil}]
  /\ xmls \in [Bills -> [doc : Docs \cup {Nil}, data : Nat] \cup {Nil}]
  /\ work \in {"none", "upload", "other"}
  /\ files \in 0..MaxFiles
  /\ touched \subseteq Bills /\ torn \subseteq Bills /\ byHand \subseteq Bills

(* Rows whose files no request has changed without committing. *)
Whole == Bills \ (touched \cup torn)

(* A bill that is not approved can be read against its source: the PDF is  *)
(* on the volume, it is the one the figures were read from, and no other   *)
(* bill's to delete (_replace_extraction, _drop_bill, approve_bill).       *)
SourceKept ==
  \A b \in Whole :
    bills[b].status \in {"needs_review", "error", "rejected"} =>
      /\ bills[b].pdf \in Bills
      /\ pdfs[bills[b].pdf] # Nil
      /\ pdfs[bills[b].pdf].data = bills[b].data
      /\ \A c \in Bills \ {b} : bills[c].pdf # bills[b].pdf

(* The XML of an approved bill says what the bill says, and only an        *)
(* approved bill points to one (approve_bill, patch_bill, re_extract,      *)
(* _replace_extraction).                                                   *)
XmlIsTheBill ==
  \A b \in Whole :
    /\ bills[b].xml <=> bills[b].status = "approved"
    /\ bills[b].xml => xmls[b] = Figures(bills[b])

(* "There's one bill per real invoice": uploads never make two rows of one *)
(* invoice, if nobody has typed a number (_find_prior_bill).               *)
OneRowPerInvoice ==
  \A b, c \in Bills \ byHand : bills[b].doc = bills[c].doc /\ bills[b].doc # Nil => b = c
=============================================================================
