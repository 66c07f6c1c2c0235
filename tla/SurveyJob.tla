------------------------------- MODULE SurveyJob -------------------------------
(***************************************************************************)
(* A roof survey job of the contractor platform (backend/server.py): the   *)
(* weather gate, the launch, the dry run, the rescheduling by text message *)
(* and the proposal.                                                       *)
(*                                                                         *)
(* Every handler reads the job, may wait for a weather service, a text     *)
(* message or a language model, and writes by the job's id alone.  When it *)
(* is time to remind the homeowner is left open.                           *)
(***************************************************************************)
EXTENDS Integers, FiniteSets

CONSTANTS
    Requests,       \* requests under way, the background sweep among them
    MaxRequests     \* Init gives it to requestsLeft or withholds it

ASSUME SurveyAssumption == MaxRequests \in Nat

VARIABLES
    job,            \* the job's document
    meter,          \* billing_meter of the month, and the flags it should match
    launch,         \* history: how often a launch was authorized, and captured
    request,        \* the step of each request
    requestsLeft

surveyVars == <<job, meter, launch, request, requestsLeft>>

----------------------------------------------------------------------------
Statuses == {"PENDING_PHASE1", "PHASE1_BLOCKED", "PENDING_FIELD_CAPTURE", "RESCHEDULED_CONFIRMED",
             "IN_FLIGHT", "DRY_RUN_PENALTY", "DATA_CAPTURE_COMPLETE", "PROPOSAL_READY",
             "AUDIT_APPROVED", "SENT_TO_HOMEOWNER"}

\* The steps a request may be about to take.
Steps == {"idle", "gate", "authorize", "fly", "bill", "capture", "flag", "charge", "propose",
          "schedule", "confirm", "price", "approve", "send", "email", "command"}

Flags == [notified : BOOLEAN, windows : BOOLEAN, scheduled : BOOLEAN, reminded : BOOLEAN,
          captured : BOOLEAN, priced : BOOLEAN, emailed : BOOLEAN]

SurveyTypeOK ==
    /\ job.status \in Statuses /\ job.phase1 \in {"none", "PASS", "FAIL"}
    /\ job.done \in Flags
    /\ meter \in [drops : Nat, flagged : Nat, charges : Nat]
    /\ launch \in [authorized : Nat, captured : Nat]
    /\ request \in [Requests -> Steps]

SurveyInit ==
    /\ job = [status |-> "PENDING_PHASE1", phase1 |-> "none",
              done |-> [notified |-> FALSE, windows |-> FALSE, scheduled |-> FALSE,
                        reminded |-> FALSE, captured |-> FALSE, priced |-> FALSE,
                        emailed |-> FALSE]]
    /\ meter = [drops |-> 0, flagged |-> 0, charges |-> 0]
    /\ launch = [authorized |-> 0, captured |-> 0]
    /\ request = [r \in Requests |-> "idle"]

----------------------------------------------------------------------------
\* A handler has read a job it accepts.
Accept(r, step) ==
    /\ request[r] = "idle"
    /\ requestsLeft > 0
    /\ requestsLeft' = requestsLeft - 1
    /\ request' = [request EXCEPT ![r] = step]
    /\ UNCHANGED <<job, meter, launch>>

Then(r, from, to) ==
    /\ request[r] = from
    /\ request' = [request EXCEPT ![r] = to]
    /\ UNCHANGED requestsLeft

Set(status, flags) ==
    job' = [job EXCEPT !.status = status, !.done = [f \in DOMAIN @ |-> f \in flags \/ @[f]]]

----------------------------------------------------------------------------
(* run_phase1 *)

BeginPhase1(r) ==
    /\ job.status \in {"PENDING_PHASE1", "PENDING_FIELD_CAPTURE", "PHASE1_BLOCKED",
                       "RESCHEDULED_CONFIRMED"}
    /\ Accept(r, "gate")

\* The weather has come in; whatever became of the job meanwhile.
SavePhase1(r) ==
    /\ Then(r, "gate", "idle")
    /\ \/ job' = [job EXCEPT !.phase1 = "PASS", !.status = "PENDING_FIELD_CAPTURE"]
       \/ job' = [job EXCEPT !.phase1 = "FAIL", !.status = "PHASE1_BLOCKED"]
    /\ UNCHANGED <<meter, launch>>

----------------------------------------------------------------------------
(* operator_launch, once the preflight is clear *)

BeginLaunch(r) ==
    /\ job.status = "PENDING_FIELD_CAPTURE" /\ job.phase1 = "PASS"
    /\ Accept(r, "authorize")

\* The audit row.
AuthorizeLaunch(r) ==
    /\ Then(r, "authorize", "fly")
    /\ launch' = [launch EXCEPT !.authorized = @ + 1]
    /\ UNCHANGED <<job, meter>>

Fly(r) ==
    /\ Then(r, "fly", "bill")
    /\ Set("IN_FLIGHT", {})
    /\ UNCHANGED <<meter, launch>>

\* Mutant of RecordFleetDrop: the drop is counted as often as it was authorized.
RecordFleetDropTwice(r) ==
    /\ Then(r, "bill", "capture")
    /\ meter' = [meter EXCEPT !.drops = @ + launch.authorized]
    /\ UNCHANGED <<job, launch>>

RecordFleetDrop(r) ==
    /\ Then(r, "bill", "capture")
    /\ meter' = [meter EXCEPT !.drops = @ + 1]
    /\ UNCHANGED <<job, launch>>

Capture(r) ==
    /\ Then(r, "capture", "idle")
    /\ Set("DATA_CAPTURE_COMPLETE", {"captured"})
    /\ launch' = [launch EXCEPT !.captured = @ + 1]
    /\ UNCHANGED meter

----------------------------------------------------------------------------
(* AUTHORIZE_FLEET_LAUNCH of ws_stratex_core, by an operator: neither gate, audit row nor *)
(* meter                                                                                  *)

BeginCommand(r) ==
    /\ job.status = "PENDING_FIELD_CAPTURE"
    /\ Accept(r, "command")

TakeOff(r) ==
    /\ Then(r, "command", "idle")
    /\ Set("IN_FLIGHT", {})
    /\ UNCHANGED <<meter, launch>>

----------------------------------------------------------------------------
(* operator_dry_run *)

BeginDryRun(r) ==
    /\ job.status \in {"PENDING_FIELD_CAPTURE", "PENDING_PHASE1", "PHASE1_BLOCKED"}
    /\ Accept(r, "flag")

FlagDryRun(r) ==
    /\ Then(r, "flag", "charge")
    /\ Set("DRY_RUN_PENALTY", {})
    /\ meter' = [meter EXCEPT !.flagged = @ + 1]
    /\ UNCHANGED launch

ChargeDryRun(r) ==
    /\ Then(r, "charge", "idle")
    /\ meter' = [meter EXCEPT !.charges = @ + 1]
    /\ UNCHANGED <<job, launch>>

----------------------------------------------------------------------------
(* notify_homeowner_delay, twilio_inbound_sms and the reminder sweep *)

BeginNotify(r) ==
    /\ job.status = "PHASE1_BLOCKED"
    /\ Accept(r, "propose")

\* No window may be found; those found before are then replaced by none.
SaveWindows(r) ==
    /\ Then(r, "propose", "idle")
    /\ \E found \in BOOLEAN :
          job' = [job EXCEPT !.done.notified = TRUE, !.done.windows = found]
    /\ UNCHANGED <<meter, launch>>

BeginReply(r) ==
    /\ job.status = "PHASE1_BLOCKED" /\ job.done.notified /\ job.done.windows
    /\ Accept(r, "schedule")

SaveSchedule(r) ==
    /\ Then(r, "schedule", "idle")
    /\ Set(job.status, {"scheduled"})
    /\ UNCHANGED <<meter, launch>>

BeginReminder(r) ==
    /\ job.done.scheduled /\ ~job.done.reminded
    /\ job.status \in {"PHASE1_BLOCKED", "RESCHEDULED_CONFIRMED"}
    /\ Accept(r, "confirm")

\* After the messages were sent.
ConfirmReminder(r) ==
    /\ Then(r, "confirm", "idle")
    /\ Set("RESCHEDULED_CONFIRMED", {"reminded"})
    /\ UNCHANGED <<meter, launch>>

----------------------------------------------------------------------------
(* compute_proposal, audit_approve, mark_sent and email_proposal *)

\* Without a captured mesh the pricing raises, whatever the status.
BeginProposal(r) ==
    /\ job.status \in {"DATA_CAPTURE_COMPLETE", "PROPOSAL_READY", "AUDIT_APPROVED",
                       "SENT_TO_HOMEOWNER"}
    /\ job.done.captured
    /\ Accept(r, "price")

SavePricing(r) ==
    /\ Then(r, "price", "idle")
    /\ Set("PROPOSAL_READY", {"priced"})
    /\ UNCHANGED <<meter, launch>>

\* Approving and sending ask for no status.
BeginApproval(r) == Accept(r, "approve")

BeginSent(r) == Accept(r, "send")

SaveApproval(r) ==
    /\ Then(r, "approve", "idle")
    /\ Set("AUDIT_APPROVED", {})
    /\ UNCHANGED <<meter, launch>>

SaveSent(r) ==
    /\ Then(r, "send", "idle")
    /\ Set("SENT_TO_HOMEOWNER", {})
    /\ UNCHANGED <<meter, launch>>

BeginEmail(r) ==
    /\ job.done.priced
    /\ Accept(r, "email")

SaveEmailed(r) ==
    /\ Then(r, "email", "idle")
    /\ Set(job.status, {"emailed"})
    /\ UNCHANGED <<meter, launch>>

----------------------------------------------------------------------------
\* The process dies, or the weather service, the messages or the model raise.
Abandon(r) ==
    /\ request[r] # "idle"
    /\ Then(r, request[r], "idle")
    /\ UNCHANGED <<job, meter, launch>>

SurveyNext ==
    \E r \in Requests :
        \/ BeginPhase1(r)   \/ SavePhase1(r)
        \/ BeginLaunch(r)   \/ AuthorizeLaunch(r) \/ Fly(r) \/ RecordFleetDrop(r) \/ Capture(r)
        \/ BeginCommand(r)  \/ TakeOff(r)
        \/ BeginDryRun(r)   \/ FlagDryRun(r)      \/ ChargeDryRun(r)
        \/ BeginNotify(r)   \/ SaveWindows(r)     \/ BeginReply(r)    \/ SaveSchedule(r)
        \/ BeginReminder(r) \/ ConfirmReminder(r)
        \/ BeginProposal(r) \/ SavePricing(r)     \/ BeginApproval(r) \/ SaveApproval(r)
        \/ BeginSent(r)     \/ SaveSent(r)        \/ BeginEmail(r)    \/ SaveEmailed(r)
        \/ Abandon(r)

SurveySpec == SurveyInit /\ requestsLeft \in Nat /\ [][SurveyNext]_surveyVars

----------------------------------------------------------------------------
(* Properties *)

\* The bill is right between two bounds, however launches overlap, are repeated or break
\* off: every captured launch was billed, nothing is billed that was not authorized, and
\* there are no more penalties than flagged dry runs.
BilledAsFlown ==
    /\ launch.captured <= meter.drops /\ meter.drops <= launch.authorized
    /\ meter.charges <= meter.flagged

\* A price rests on a captured mesh and a proposal in the mail on a price, although a job
\* may be approved and marked as sent at any time and fall back to the gate.
ProposalsFollowCapture ==
    /\ job.done.priced => job.done.captured
    /\ job.done.emailed => job.done.priced
    /\ job.done.captured => launch.authorized > 0

\* The gate "software-locks launch unless overall=PASS" (docstring of run_phase1): no job takes
\* off unless its last gate was passed.
LockHolds ==
    [][job'.status = "IN_FLIGHT" /\ job.status # "IN_FLIGHT" => job.phase1 = "PASS"]_job

\* A job is launched once.
LaunchedOnce == launch.authorized <= 1
=============================================================================
