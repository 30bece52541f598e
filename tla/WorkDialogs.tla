----------------------------- MODULE WorkDialogs -----------------------------
(***************************************************************************)
(* The dialogs by which the executor adds files to a submission and        *)
(* submits the work, in several tabs of one company.  A dialog is filled   *)
(* in over a page that may be old, its request is served in steps, the     *)
(* answer is read from the database later still, and the page may have     *)
(* given up waiting or put another instance of the dialog up by then.      *)
(*                                                                         *)
(* A file is known by its content; several contents may bear one name.     *)
(***************************************************************************)
EXTENDS OrderRules, Sequences, FiniteSets, FiniteSetsExt, TLC

CONSTANTS
  Tabs, Files, NameOf,
  Nothing,
  MaxRequests, MaxRounds  \* bounds: requests sent, submissions of the order

ASSUME DialogsAssumption == MaxRequests \in Nat /\ MaxRounds \in Nat \ {0}

Kinds == {"files", "submit"}

VARIABLES
  status, rounds,  \* the order: its status and its submissions, from the first
  page,            \* what each tab shows of it
  open,            \* the dialog that is open in a tab, or "none"
  draft,           \* the files chosen in the dialog of files
  requests         \* the requests sent, in that order

vars == <<status, rounds, page, open, draft, requests>>
order == <<status, rounds>>

-----------------------------------------------------------------------------
(* The order *)

Submission == [files : SUBSET Files, sent : BOOLEAN]
current == [status |-> status, rounds |-> rounds]

\* resolveSubmissions: the last submission while it is not sent, else none.
openRound(v) == {r \in 1..Len(v.rounds) : r = Len(v.rounds) /\ ~v.rounds[r].sent}
openFiles(v) == UNION {v.rounds[r].files : r \in openRound(v)}

countCompanyFiles(v) ==
  FoldSet(LAMBDA r, n : n + Cardinality(v.rounds[r].files), 0, 1..Len(v.rounds))

\* WorkCard: where files would go by what the page shows.
nextRound(v) == IF openRound(v) # {} THEN Len(v.rounds) ELSE Len(v.rounds) + 1

canAddFiles(v) == canUploadWork(v.status)
canSubmitWork(v) == canUploadWork(v.status) /\ openFiles(v) # {}
mayOpen(kind, v) == IF kind = "files" THEN canAddFiles(v) ELSE canSubmitWork(v)

Request ==
  [tab : Tabs, kind : Kinds, files : SUBSET Files,
   before : Nat, round : Nat \ {0},            \* what the dialog knew when it was sent
   phase : {"sent", "opened", "done", "refused", "answered", "over"},
   into : 0..MaxRounds, added : SUBSET Files,  \* what the server did
   answer : [status : OrderStatus, rounds : Seq(Submission)] \union {Nothing},
   heard : BOOLEAN,                            \* the page still waits
   mounted : BOOLEAN]                          \* the dialog that sent it is still on the page

Init ==
  /\ status = "IN_PROGRESS"
  /\ rounds \in {<<>>} \union
       {<<[files |-> first, sent |-> FALSE]>> : first \in
          {F \in SUBSET Files : F # {} /\ \A f, g \in F : NameOf[f] = NameOf[g] => f = g}}
  /\ page = [t \in Tabs |-> current]
  /\ open = [t \in Tabs |-> "none"]
  /\ draft = [t \in Tabs |-> {}]
  /\ requests = <<>>

-----------------------------------------------------------------------------
(* The page *)

waiting(t, kind) ==
  \E i \in DOMAIN requests :
    /\ requests[i].tab = t /\ requests[i].kind = kind
    /\ requests[i].heard /\ requests[i].mounted

\* A dialog whose condition the new view does not meet goes from the page, with
\* its state; one that comes back starts anew.
stillMounted(q, t, v) == q.mounted /\ (q.tab = t => mayOpen(q.kind, v))
show(t, v, dialog, queue) ==
  /\ page' = [page EXCEPT ![t] = v]
  /\ open' = [open EXCEPT ![t] =
                IF dialog # "none" /\ ~mayOpen(dialog, v) THEN "none" ELSE dialog]
  /\ draft' = [draft EXCEPT ![t] = IF canAddFiles(v) THEN @ ELSE {}]
  /\ requests' = [i \in DOMAIN queue |->
                    [queue[i] EXCEPT !.mounted = stillMounted(queue[i], t, v)]]

\* The page reads the order again after an event, or after a refusal.
Refresh(t) ==
  /\ page[t] # current
  /\ show(t, current, open[t], requests)
  /\ UNCHANGED order

OpenDialog(t, kind) ==
  /\ open[t] = "none" /\ mayOpen(kind, page[t])
  /\ open' = [open EXCEPT ![t] = kind]
  /\ draft' = [draft EXCEPT ![t] = IF kind = "files" THEN {} ELSE @]
  /\ UNCHANGED <<order, page, requests>>

\* The key Escape works also while the request is on its way.
CloseDialog(t) ==
  /\ open[t] # "none"
  /\ open' = [open EXCEPT ![t] = "none"]
  /\ UNCHANGED <<order, page, draft, requests>>

\* addFiles of the dropzone: no name twice, and none that the page shows in
\* the open submission.
nameIsFree(t, f) ==
  \A g \in draft[t] \union openFiles(page[t]) : NameOf[g] # NameOf[f]

SlipChooseWhileWaiting(t, f) ==
  /\ open[t] = "files"
  /\ nameIsFree(t, f)
  /\ draft' = [draft EXCEPT ![t] = @ \union {f}]
  /\ UNCHANGED <<order, page, open, requests>>
Choose(t, f) ==
  /\ open[t] = "files" /\ ~waiting(t, "files")
  /\ nameIsFree(t, f)
  /\ draft' = [draft EXCEPT ![t] = @ \union {f}]
  /\ UNCHANGED <<order, page, open, requests>>

send(t, kind, files) ==
  /\ open[t] = kind /\ ~waiting(t, kind)
  /\ Len(requests) < MaxRequests
  /\ requests' = Append(requests,
       [tab |-> t, kind |-> kind, files |-> files,
        before |-> countCompanyFiles(page[t]), round |-> nextRound(page[t]),
        phase |-> "sent", into |-> 0, added |-> {}, answer |-> Nothing,
        heard |-> TRUE, mounted |-> TRUE])
  /\ UNCHANGED <<order, page, open, draft>>

SendFiles(t) == draft[t] # {} /\ send(t, "files", draft[t])
SendSubmit(t) == send(t, "submit", {})

-----------------------------------------------------------------------------
(* The server *)

serve(i, fields) == requests' = [requests EXCEPT ![i] = fields @@ @]
untouched == <<page, open, draft>>

\* openSubmission: the open submission, or a new one.
OpenSubmission(i) ==
  /\ requests[i].kind = "files" /\ requests[i].phase = "sent"
  /\ canUploadWork(status)
  /\ openRound(current) # {} \/ Len(rounds) < MaxRounds
  /\ rounds' = IF openRound(current) # {} THEN rounds
               ELSE Append(rounds, [files |-> {}, sent |-> FALSE])
  /\ serve(i, [phase |-> "opened", into |-> Len(rounds')])
  /\ UNCHANGED <<status, untouched>>

\* The files that the submission does not have yet, with its second check.
AttachFiles(i) ==
  LET q == requests[i] IN
  /\ q.phase = "opened"
  /\ canUploadWork(status) /\ ~rounds[q.into].sent
  /\ rounds' = [rounds EXCEPT ![q.into].files = @ \union q.files]
  /\ serve(i, [phase |-> "done", added |-> q.files \ rounds[q.into].files])
  /\ UNCHANGED <<status, untouched>>

SubmitWork(i) ==
  /\ requests[i].kind = "submit" /\ requests[i].phase = "sent"
  /\ canSubmitWork(current)
  /\ rounds' = [rounds EXCEPT ![Len(rounds)].sent = TRUE]
  /\ status' = "AWAITING_COMPLETION_CONFIRMATION"
  /\ serve(i, [phase |-> "done", into |-> Len(rounds)])
  /\ UNCHANGED untouched

\* 409, 413 or 429 of any of the checks, or a failure.
Refuse(i) ==
  /\ requests[i].phase \in {"sent", "opened"}
  /\ serve(i, [phase |-> "refused"])
  /\ UNCHANGED <<order, untouched>>

\* The answer is getDetail after the commit.
ReadAnswer(i) ==
  /\ requests[i].phase = "done" /\ requests[i].heard
  /\ serve(i, [phase |-> "answered", answer |-> current])
  /\ UNCHANGED <<order, untouched>>

\* The client returns the work, or accepts it.
Decide(decision) ==
  /\ status = "AWAITING_COMPLETION_CONFIRMATION"
  /\ decision \in {"COMPLETION_DISPUTED", "COMPLETED"}
  /\ status' = decision
  /\ UNCHANGED <<rounds, page, open, draft, requests>>

-----------------------------------------------------------------------------
(* The answer *)

\* What is over stays only as a request that has been sent.
over(i) ==
  [requests EXCEPT ![i] = [tab |-> @.tab, kind |-> @.kind, files |-> {},
     before |-> 0, round |-> 1, phase |-> "over", into |-> 0, added |-> {},
     answer |-> Nothing, heard |-> FALSE, mounted |-> FALSE]]

\* describeUpload: what was added is counted over all submissions.
SlipCountOfRound(q) ==
  LET filesOf(v) == IF q.round \in 1..Len(v.rounds) THEN v.rounds[q.round].files ELSE {}
  IN Cardinality(filesOf(q.answer)) - Cardinality(filesOf(page[q.tab]))
addedByCount(q) == countCompanyFiles(q.answer) - q.before

toast(q) ==
  [changed |-> q.kind = "submit" \/ addedByCount(q) > 0,
   round |-> IF q.kind = "files" /\ openRound(q.answer) # {} THEN Len(q.answer.rounds)
             ELSE q.round]

\* The dialog that sent the request closes, and the page shows the answer.
dialogAfter(q) == IF q.mounted /\ open[q.tab] = q.kind THEN "none" ELSE open[q.tab]

Hear(i) ==
  LET q == requests[i] IN
  /\ q.heard /\ q.phase = "answered"
  /\ show(q.tab, q.answer, dialogAfter(q), over(i))
  /\ UNCHANGED order

\* After a refusal, or the end of the wait, a dialog of files stays as it is with
\* the message; the other one closes and asks the page to be read again.
fail(i, queue) ==
  /\ open' = IF requests[i].kind = "submit"
             THEN [open EXCEPT ![requests[i].tab] = dialogAfter(requests[i])] ELSE open
  /\ requests' = queue
  /\ UNCHANGED <<order, page, draft>>

HearRefusal(i) ==
  /\ requests[i].heard /\ requests[i].phase = "refused"
  /\ fail(i, over(i))

\* The signal of withTimeout; a request that the server has not decided goes on.
GiveUp(i) ==
  /\ requests[i].heard
  /\ fail(i, IF requests[i].phase \in {"sent", "opened"}
             THEN [requests EXCEPT ![i].heard = FALSE, ![i].mounted = FALSE] ELSE over(i))

Next ==
  \/ \E t \in Tabs : Refresh(t) \/ CloseDialog(t) \/ SendFiles(t) \/ SendSubmit(t)
  \/ \E t \in Tabs, kind \in Kinds : OpenDialog(t, kind)
  \/ \E t \in Tabs, f \in Files : Choose(t, f)
  \/ \E i \in DOMAIN requests :
       \/ OpenSubmission(i) \/ AttachFiles(i) \/ SubmitWork(i) \/ Refuse(i) \/ ReadAnswer(i)
       \/ Hear(i) \/ HearRefusal(i) \/ GiveUp(i)
  \/ \E decision \in OrderStatus : Decide(decision)

Spec == Init /\ [][Next]_vars

-----------------------------------------------------------------------------
(* Properties *)

\* The dialogs and the requests fit together: one request of a kind is waited for
\* in a tab at a time, an answer is kept while it is awaited, and no
\* dialog is open that the page would not show.
TypeOK ==
  /\ status \in OrderStatus
  /\ Len(rounds) <= MaxRounds /\ \A r \in 1..Len(rounds) : rounds[r] \in Submission
  /\ open \in [Tabs -> Kinds \union {"none"}]
  /\ draft \in [Tabs -> SUBSET Files]
  /\ \A i \in DOMAIN requests :
       /\ requests[i] \in Request
       /\ requests[i].phase = "answered" <=> requests[i].answer # Nothing
  /\ \A t \in Tabs : open[t] # "none" => mayOpen(open[t], page[t])

\* What is said when an answer comes: P of the request and of its toast.
Said(P(_, _)) == \A i \in DOMAIN requests : Hear(i) => P(requests[i], toast(requests[i]))

\* An upload that added files is never told as one that added none, however old
\* the page was and whichever submission the server chose (the comment on
\* countCompanyFiles, work-form.ts:67-75).
AddedFilesAreTold ==
  [][Said(LAMBDA q, said : q.kind = "files" /\ q.added # {} => said.changed)]_vars

\* The answer to a request does not close a dialog over files that were chosen
\* after it was sent, unless work can no longer be added at all.
DraftsAreKept ==
  [][\A i \in DOMAIN requests : Hear(i) =>
       LET t == requests[i].tab
       IN open[t] = "files" /\ open'[t] # "files" /\ canAddFiles(page'[t])
            => draft[t] \subseteq requests[i].files]_vars

=============================================================================
