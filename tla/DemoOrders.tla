------------------------------ MODULE DemoOrders ------------------------------
(***************************************************************************)
(* The orders that every reset of the demo writes straight into the tables *)
(* (demo-data.ts), past the state machine: one for each status, with its   *)
(* offers, submissions, file rows and notifications.  From there on they   *)
(* live like any other order, so they must be states that an order can be  *)
(* in.                                                                     *)
(*                                                                         *)
(* Prices and dates are those of the data; of the files only the side and  *)
(* the round matter.                                                       *)
(***************************************************************************)
EXTENDS OrderView, TLC

CONSTANTS stroygrad, remont, arch,   \* DEMO_USERS, without the client
          plan, firstWork, lastWork, \* contents of the files
          remark, measured,          \* any comment, any area
          Today                      \* the day of the reset

ASSUME DemoAssumption ==
  /\ {stroygrad, remont, arch} \subseteq Companies
  /\ {plan, firstWork, lastWork} \subseteq Files
  /\ remark \in Texts /\ measured \in Areas
  /\ Today \in Nat /\ Today >= 10

daysFromNow(days) == Today + days

offer(s, price, days) ==
  [status |-> s, terms |-> [price |-> price, deadline |-> daysFromNow(days)]]

NoOffers == [c \in {} |-> Null]

clientFile(f) == [round |-> 0, file |-> f]
companyFile(f, r) == [round |-> r, file |-> f]

-----------------------------------------------------------------------------
(* buildOrders *)

\* An order of the data, with nothing said of areas and comments.
demoOrder(s, offers, files, submissions, agreed) ==
  [status |-> s, offers |-> offers, files |-> files, submissions |-> submissions,
   deal |-> agreed, area |-> Null, correction |-> Null, completion |-> Null]

dealAt(price, days) == [price |-> price, deadline |-> daysFromNow(days)]

flatRepair == demoOrder("WAITING", NoOffers, {clientFile(plan)}, {}, Null)

officeFinish ==
  demoOrder("AWAITING_CONFIRMATION",
            (stroygrad :> offer("SENT", 84200, 75)) @@ (remont :> offer("SENT", 95200, 60))
              @@ (arch :> offer("WITHDRAWN", 103700, 90)),
            {clientFile(plan)}, {}, Null)

SlipLoserStillPending == (remont :> offer("SENT", 387600, 130))
houseLoser == (remont :> offer("NOT_ACCEPTED", 387600, 130))

houseBuilding ==
  [demoOrder("IN_PROGRESS", (stroygrad :> offer("ACCEPTED", 346800, 150)) @@ houseLoser,
             {clientFile(plan)}, {}, dealAt(346800, 150))
   EXCEPT !.area = measured]

replanning ==
  demoOrder("AWAITING_COMPLETION_CONFIRMATION", arch :> offer("WORK_SUBMITTED", 4800, 5),
            {clientFile(plan), companyFile(firstWork, 1), companyFile(lastWork, 1)}, {1},
            dealAt(4800, 5))

bathroom ==
  [demoOrder("COMPLETION_DISPUTED", remont :> offer("BACK_FOR_OVERRIDE", 7300, -2),
             {clientFile(plan), companyFile(firstWork, 1)}, {1}, dealAt(7300, -2))
   EXCEPT !.correction = remark]

kitchenDesign ==
  [demoOrder("COMPLETED", stroygrad :> offer("COMPLETED", 2400, -10),
             {companyFile(firstWork, 1), companyFile(lastWork, 2)}, {1, 2}, dealAt(2400, -10))
   EXCEPT !.completion = remark]

buildOrders ==
  {flatRepair, officeFinish, houseBuilding, replanning, bathroom, kitchenDesign}

-----------------------------------------------------------------------------
(* createDemoOrders, createDemoNotifications *)

\* Offers of the data bear no stamp of an edit and no rejections.
SlipRoundsWithoutRows(o) == [r \in Round |-> "none"]
submissionRows(o) == [r \in Round |-> IF r \in o.submissions THEN "sent" ELSE "none"]

createDemoOrder(o) ==
  /\ status = o.status /\ creating = FALSE
  /\ deal = o.deal /\ verifiedSquareMeters = o.area
  /\ correctionComment = o.correction /\ clientCompletionComment = o.completion
  /\ offerStatus = [c \in Companies |-> IF c \in DOMAIN o.offers THEN o.offers[c].status
                                        ELSE NoOffer]
  /\ proposed = [c \in Companies |-> IF c \in DOMAIN o.offers THEN o.offers[c].terms ELSE Null]
  /\ editedAt = [c \in Companies |-> Null]
  /\ rejectionCount = [c \in Companies |-> 0]
  /\ roundState = submissionRows(o)
  /\ roundComment = [r \in Round |-> IF r \in o.submissions THEN remark ELSE Null]
  /\ taskFiles = {f.file : f \in {g \in o.files : g.round = 0}}
  /\ roundFiles = [r \in Round |-> {f.file : f \in {g \in o.files : g.round = r}}]

\* None of these notifications has a key.
notice(user, type, isRead) == [user |-> user, type |-> type, key |-> Null, isRead |-> isRead]

createDemoNotifications(o) ==
  notices =
    CASE o = officeFinish  -> {notice(Client, "OFFER_RECEIVED", FALSE)}
      [] o = houseBuilding -> {notice(Client, "AREA_VERIFIED", TRUE),
                               notice(stroygrad, "OFFER_ACCEPTED", TRUE),
                               notice(remont, "OFFER_REJECTED", TRUE)}
      [] o = replanning    -> {notice(Client, "WORK_SUBMITTED", FALSE)}
      [] o = kitchenDesign -> {notice(stroygrad, "WORK_CONFIRMED", FALSE)}
      [] o = bathroom      -> {notice(remont, "WORK_DISPUTED", FALSE)}
      [] OTHER             -> {}

DemoInit ==
  /\ \E o \in buildOrders : createDemoOrder(o) /\ createDemoNotifications(o)
  /\ clock = 0 /\ today = Today
  /\ drafts = {} /\ seen = Null /\ uploads = {}

DemoSpec == DemoInit /\ [][Next]_vars

=============================================================================
