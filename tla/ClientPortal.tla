---------------------------- MODULE ClientPortal ----------------------------
(***************************************************************************)
(* One request of a client on its way through the portal: created, edited  *)
(* and submitted by the client, triaged by a language model inside the     *)
(* submission, moved and approved by the staff.  Each of these is a        *)
(* transaction on the request's row: it reads a snapshot, and its first    *)
(* write waits for the row and fails when another has committed since,     *)
(* after which it runs again.  The six stages of the data file exist.      *)
(***************************************************************************)
EXTENDS Naturals

CONSTANTS
  Desks,       \* sessions of the client and of the staff
  Stages,      \* the six known stages and any other the project has
  Drags,       \* stages the staff drags a request to
  Billing,     \* whether an approval makes a quote
  MaxRuns,     \* service.model.retrying: runs of one request
  MaxVersions  \* bound: commits

Known == {"draft", "submitted", "under_review", "approved", "in_progress", "delivered"}

NoDesk == "nobody"

ASSUME StagesAreThere == Known \cup Drags \subseteq Stages /\ Billing \in BOOLEAN
ASSUME PortalIsBounded == {MaxRuns, MaxVersions} \subseteq Nat \ {0}
ASSUME DesksAreSomebody == NoDesk \notin Desks

VARIABLES
  request,  \* the row as committed, or NoRequest
  desk,     \* [Desks -> its transaction]
  lock      \* the desk that holds the row, or nobody

portalVars == <<request, desk, lock>>

NoRequest == [version |-> 0]
Away == [phase |-> "away"]
Orders == {"edit", "submit", "approve", "move"}

\* text and note: the version that wrote the client's text, and the one the
\* triage note is about; type: who filled in the optional fields.
RowType ==
  [version : 1..MaxVersions, stage : Stages, text : 1..MaxVersions, type : {"blank", "client", "ai"},
   note : 0..MaxVersions, acks : Nat, approvals : Nat, quotes : Nat]

PortalTypeOK ==
  /\ request \in {NoRequest} \cup RowType
  /\ lock \in Desks \cup {NoDesk}
  /\ \A d \in Desks : desk[d] = Away \/
       /\ desk[d].phase \in {"check", "write", "triage", "late", "commit", "broken"}
       /\ desk[d].order \in Orders
       /\ desk[d].snap \in RowType /\ desk[d].run \in 1..MaxRuns
       /\ desk[d].phase = "commit" => lock = d
-----------------------------------------------------------------------------
\* A stage the map does not know shows as a draft.
ClientStatus(stage) == IF stage \in Known THEN stage ELSE "draft"

IsClientEditable_UntilReviewed(row) == ClientStatus(row.stage) \in {"draft", "submitted"}

IsClientEditable(row) == ClientStatus(row.stage) = "draft"

PortalInit ==
  /\ request = NoRequest
  /\ desk = [d \in Desks |-> Away]
  /\ lock = NoDesk

\* portal_request_new
NewRequest ==
  /\ request = NoRequest
  /\ \E type \in {"blank", "client"} :
       request' = [version |-> 1, stage |-> "draft", text |-> 1, type |-> type, note |-> 0,
                   acks |-> 0, approvals |-> 0, quotes |-> 0]
  /\ UNCHANGED <<desk, lock>>

Run(d, order, to, owner, run) ==
  desk' = [desk EXCEPT ![d] =
             [phase |-> "check", order |-> order, to |-> to, owner |-> owner,
              snap |-> request, new |-> request, asked |-> FALSE, run |-> run]]

\* to: where the staff drags the request, or what the client edits; owner:
\* whether the portal user's company is the project's customer, or the user
\* merely follows the request.
Ask(d) ==
  /\ request # NoRequest
  /\ desk[d] = Away
  /\ \E owner \in BOOLEAN :
       \/ \E what \in {"text", "fields"} : Run(d, "edit", what, owner, 1)
       \/ Run(d, "submit", "submitted", owner, 1)
  /\ UNCHANGED <<request, lock>>

Work(d) ==
  /\ request # NoRequest
  /\ desk[d] = Away
  /\ \/ Run(d, "approve", "approved", TRUE, 1)
     \/ \E stage \in Drags : Run(d, "move", stage, TRUE, 1)
  /\ UNCHANGED <<request, lock>>

\* Whoever can open the request may edit the draft; only the customer's own
\* people may submit it.  An approval does not look at the stage.
Allowed(order, owner, row) ==
  order \in {"edit", "submit"} => IsClientEditable(row) /\ (order = "submit" => owner)

\* What an order makes of the row it read.
Approved(row) ==
  [row EXCEPT !.stage = IF Billing THEN "approved" ELSE "in_progress",
              !.approvals = @ + 1, !.quotes = IF Billing THEN @ + 1 ELSE @]

Made(order, to, row) ==
  CASE order = "edit"    -> [row EXCEPT !.text = row.version + 1,
                                        !.type = IF to = "fields" THEN "client" ELSE @]
    [] order = "submit"  -> [row EXCEPT !.stage = "submitted", !.acks = @ + 1]
    [] order = "approve" -> Approved(row)
    [] order = "move"    -> [row EXCEPT !.stage = to]

TurnAway(d) == desk' = [desk EXCEPT ![d] = Away]

\* The ORM may hold a submission's write back until triage makes it flush.
Check(d) ==
  LET t == desk[d]
  IN /\ t.phase = "check"
     /\ IF ~Allowed(t.order, t.owner, t.snap) THEN TurnAway(d)
        ELSE \E next \in IF t.order = "submit" THEN {"write", "triage"} ELSE {"write"} :
               desk' = [desk EXCEPT ![d].phase = next, ![d].new = Made(t.order, t.to, t.snap)]
     /\ UNCHANGED <<request, lock>>

Outdated(d) == desk[d].snap.version # request.version

RunAgain(d) ==
  IF desk[d].run < MaxRuns
  THEN Run(d, desk[d].order, desk[d].to, desk[d].owner, desk[d].run + 1)
  ELSE TurnAway(d)

\* The first write to the row.  A late one fails inside triage, which swallows
\* the error and leaves a broken transaction, or at the commit.
WriteRow(d) ==
  LET t == desk[d]
  IN /\ t.phase \in {"write", "late"}
     /\ lock = NoDesk
     /\ IF Outdated(d)
        THEN /\ \/ RunAgain(d)
                \/ t.phase = "late" /\ desk' = [desk EXCEPT ![d].phase = "broken"]
             /\ UNCHANGED lock
        ELSE /\ desk' = [desk EXCEPT ![d].phase =
                           IF t.order = "submit" /\ ~t.asked THEN "triage" ELSE "commit"]
             /\ lock' = d
     /\ UNCHANGED request

\* Fill structured fields only when empty.
FillEmpty(row) == IF row.type = "blank" THEN "ai" ELSE row.type

Triaged(row, text) == [row EXCEPT !.note = text, !.type = FillEmpty(row)]

\* run_triage: no key, no SDK, no answer, an exception, or a note.
Triage(d) ==
  LET t == desk[d]
      next == IF lock = d THEN "commit" ELSE "late"
  IN /\ t.phase = "triage"
     /\ \E new \in {t.new, Triaged(t.new, t.snap.text)} :
          desk' = [desk EXCEPT ![d].phase = next, ![d].asked = TRUE, ![d].new = new]
     /\ UNCHANGED <<request, lock>>

CommitRow(d) ==
  /\ desk[d].phase = "commit"
  /\ request.version < MaxVersions
  /\ request' = [desk[d].new EXCEPT !.version = @ + 1]
  /\ desk' = [desk EXCEPT ![d] = Away]
  /\ lock' = NoDesk

\* Nothing of a broken transaction can be saved, nor of one whose worker
\* dies.
Lose(d) ==
  /\ desk[d].phase \in {"triage", "commit", "broken"}
  /\ desk' = [desk EXCEPT ![d] = Away]
  /\ lock' = IF lock = d THEN NoDesk ELSE lock
  /\ UNCHANGED request

PortalNext ==
  \/ NewRequest
  \/ \E d \in Desks : Ask(d) \/ Work(d) \/ Check(d) \/ WriteRow(d) \/ Triage(d) \/ CommitRow(d) \/ Lose(d)

PortalSpec == PortalInit /\ [][PortalNext]_portalVars
-----------------------------------------------------------------------------
(***************************************************************************)
(* Properties.                                                             *)
(***************************************************************************)

\* "Lock the draft": the client's text changes only while the committed
\* request shows as a draft, even when an edit and a submission, or an edit
\* and the staff, race, and when they run again.
ClientContentFrozen ==
  [][request # NoRequest /\ request'.text # request.text =>
       ClientStatus(request.stage) = "draft"]_portalVars

\* A submission happens once: what is committed takes a draft to submitted
\* with one acknowledgement and one activity, the note it leaves is about the
\* very text that is submitted, and no field of the client is overwritten.
OncePerSubmission ==
  [][request # NoRequest /\ request' # request =>
       /\ request'.acks # request.acks =>
            /\ request'.acks = request.acks + 1
            /\ ClientStatus(request.stage) = "draft" /\ request'.stage = "submitted"
       /\ request'.note # request.note =>
            request'.note = request'.text /\ request'.acks # request.acks
       /\ request.type = "client" => request'.type = "client"]_portalVars
=============================================================================
