----------------------------- MODULE WikiCompile -----------------------------
(***************************************************************************)
(* The wiki compile worker of the async domain (app/wiki_compile_worker.go *)
(* and wiki_compile_result_ref.go): one compile of a page, and the job of  *)
(* the Data Center (DC) it is computed under, attempt by attempt.          *)
(*                                                                         *)
(* ProcessClaim is a fixed script of calls to three services, DC, Ride-    *)
(* TheWind (RTW) and the object store, which share no transaction.  A step *)
(* here is one call and the checks on its answer; between two of them the  *)
(* job may be cancelled, its lease may end and a newer attempt may start,  *)
(* the compile may be superseded, a human may edit the page and a revision *)
(* may be withdrawn.  A call may fail, or succeed and lose its answer.     *)
(*                                                                         *)
(* An attempt stands for its worker, its attempt ID and its lease epoch.   *)
(* The ticket admits only cancel version 0, in the job and in the compile. *)
(***************************************************************************)
EXTENDS Naturals, Sequences

CONSTANTS
  MaxAttempts,  \* attempts of the job (3)
  Candidates,   \* what a run of the model can produce
  None

ASSUME CompileAssumption == MaxAttempts \in Nat \ {0}

Attempts == 1..MaxAttempts

VARIABLES
  job,        \* DC: state, attempt, cancel version, result
  live,       \* the attempts whose lease has not ended
  compile,    \* RTW: state, attempt, cancel version, accepted candidate
  edited,     \* RTW: a human has moved the head of the page
  withdrawn,  \* RTW: withdrawn revisions, of "source" and "wiki"
  objects,    \* the object store: candidates and manifests
  worker,     \* attempt -> where its ProcessClaim is, and its candidate
  excused     \* history: attempts past their last look when a revision was withdrawn
vars == <<job, live, compile, edited, withdrawn, objects, worker, excused>>
services == <<job, live, compile, edited, withdrawn, objects, excused>>

-------------------------------------------------------------------------------
(* The script.                                                             *)

(* Faulty variants: DC is told before the business, no second look.        *)
ScriptCompletesFirst ==
  <<"job", "ticket", "sources", "job", "claim", "run", "job", "lease", "put",
    "job", "lease", "manifest", "complete", "accept">>
ScriptWithoutSecondLook ==
  <<"job", "ticket", "sources", "job", "claim", "run", "job", "lease", "put",
    "job", "lease", "accept",
    "job", "running", "accepted", "wiki", "evidence", "manifest", "complete">>

(* ProcessClaim, with readAcceptedEvidence before and after the manifest.  *)
Script ==
  <<"job", "ticket", "sources", "job", "claim", "run", "job", "lease", "put",
    "job", "lease", "accept",
    "job", "running", "accepted", "wiki", "evidence", "manifest",
    "job", "running", "accepted", "wiki", "evidence", "complete">>

Outcomes ==
  {"fence", "source", "run_failed", "object", "accept_pending", "technical_pending",
   "cancel_confirmed", "cancel_pending", "succeeded", "stopped"}

(* The call attempt a makes next: one of the script, or one of a recovery. *)
Calls(a, call) ==
  \/ worker[a].side = call
  \/ worker[a].side = "script" /\ worker[a].at \in DOMAIN Script /\ Script[worker[a].at] = call

Goes(a)        == worker' = [worker EXCEPT ![a].at = @ + 1, ![a].side = "script"]
Turns(a, call) == worker' = [worker EXCEPT ![a].side = call]
Ends(a, outcome) == worker' = [worker EXCEPT ![a].side = outcome]
Working(a) == worker[a].side \notin Outcomes /\ worker[a].at > 0

(* A check on an answer, which may also not come.                          *)
Check(a, call, condition, outcome) ==
  /\ Calls(a, call)
  /\ (condition /\ Goes(a)) \/ Ends(a, outcome)
  /\ UNCHANGED services

-------------------------------------------------------------------------------
(* The Data Center (external).                                             *)

Running(a) == job.state = "running" /\ job.attempt = a /\ job.cancel = 0

(* ClaimJob: a queued job, or one whose lease ended; a worker starts.      *)
ClaimJob ==
  /\ job.state = "running" => job.attempt \notin live
  /\ job.state \in {"queued", "running"} /\ job.attempt < MaxAttempts
  /\ LET a == job.attempt + 1 IN
       /\ job' = [job EXCEPT !.state = "running", !.attempt = a]
       /\ live' = {a}
       /\ worker' = [worker EXCEPT ![a].at = 1]
  /\ UNCHANGED <<compile, edited, withdrawn, objects, excused>>

(* A cancellation, asked for by RTW's sender or by an operator.            *)
Cancel ==
  /\ job.state \in {"queued", "running"}
  /\ job' = [job EXCEPT !.cancel = 1,
                        !.state = IF job.attempt \in live THEN "cancel_requested" ELSE "cancelled"]
  /\ UNCHANGED <<live, compile, edited, withdrawn, objects, worker, excused>>

(* Time passes a lease; DC gives the job up or cancels it.                 *)
LeaseEnds ==
  /\ live # {}
  /\ live' = {}
  /\ job' = [job EXCEPT !.state = CASE @ = "cancel_requested" -> "cancelled"
                                    [] @ = "running" /\ job.attempt = MaxAttempts -> "failed"
                                    [] OTHER -> @]
  /\ UNCHANGED <<compile, edited, withdrawn, objects, worker, excused>>

-------------------------------------------------------------------------------
(* RTW (external).                                                         *)

(* A newer compile of the page.                                            *)
Supersede ==
  /\ compile.state = "BUILDING"
  /\ compile' = [compile EXCEPT !.state = "SUPERSEDED", !.cancel = 1]
  /\ UNCHANGED <<job, live, edited, withdrawn, objects, worker, excused>>

HumanEdit ==
  /\ ~edited
  /\ edited' = TRUE
  /\ UNCHANGED <<job, live, compile, withdrawn, objects, worker, excused>>

Withdraw(revision) ==
  /\ revision \notin withdrawn
  /\ revision = "wiki" => compile.state = "ACCEPTED"
  /\ withdrawn' = withdrawn \cup {revision}
  /\ excused' = excused \cup
       {a \in Attempts : worker[a].at + (IF revision = "wiki" THEN 1 ELSE 0) >= Len(Script)}
  /\ UNCHANGED <<job, live, compile, edited, objects, worker>>

BuildingBy(a)  == compile.state = "BUILDING" /\ compile.attempt = a /\ a \in live
AcceptedBy(a)  == compile.state = "ACCEPTED" /\ compile.attempt = a

(* AcceptCompile: the head must not have moved; the same request again is  *)
(* answered as before.                                                     *)
Accepts(a, candidate) ==
  \/ BuildingBy(a) /\ ~edited
  \/ AcceptedBy(a) /\ compile.accepted = candidate
Accepted(a, candidate) == [compile EXCEPT !.state = "ACCEPTED", !.accepted = candidate]

-------------------------------------------------------------------------------
(* The worker.                                                             *)

Init ==
  /\ job = [state |-> "queued", attempt |-> 0, cancel |-> 0, result |-> None]
  /\ live = {}
  /\ compile = [state |-> "BUILDING", attempt |-> 0, cancel |-> 0, accepted |-> None]
  /\ edited = FALSE /\ withdrawn = {} /\ objects = {}
  /\ worker = [a \in Attempts |-> [at |-> 0, side |-> "script", candidate |-> None]]
  /\ excused = {}

(* The process ends, or its context does.                                  *)
Stop(a) ==
  /\ Working(a)
  /\ Ends(a, "stopped")
  /\ UNCHANGED services

(* currentJob.  A job that is being cancelled under this very lease is     *)
(* acknowledged.                                                           *)
CurrentJob(a) ==
  /\ Calls(a, "job")
  /\ \/ Running(a) /\ a \in live /\ Goes(a)
     \/ /\ job.state = "cancel_requested" /\ job.attempt = a /\ a \in live
        /\ Turns(a, "acknowledge")
     \/ Ends(a, "fence")
  /\ UNCHANGED services

(* ackCancellation: DC answers the same when the job has been cancelled    *)
(* already.                                                                *)
Acknowledge(a) ==
  /\ Calls(a, "acknowledge")
  /\ \/ /\ job.attempt = a /\ job.state \in {"cancel_requested", "cancelled"}
        /\ job' = [job EXCEPT !.state = "cancelled"]
        /\ Ends(a, "cancel_confirmed") \/ Turns(a, "acknowledged?")
     \/ Turns(a, "acknowledged?") /\ UNCHANGED job
  /\ UNCHANGED <<live, compile, edited, withdrawn, objects, excused>>

(* Faulty variant: an unknown answer passes for the cancellation.          *)
WasAcknowledgedHasty(a) ==
  /\ Calls(a, "acknowledged?")
  /\ \/ /\ job.attempt = a /\ job.state \in {"cancel_requested", "cancelled"}
        /\ Ends(a, "cancel_confirmed")
     \/ Ends(a, "cancel_pending")
  /\ UNCHANGED services

(* The answer is lost: the job is read.                                    *)
WasAcknowledged(a) ==
  /\ Calls(a, "acknowledged?")
  /\ \/ job.attempt = a /\ job.state = "cancelled" /\ Ends(a, "cancel_confirmed")
     \/ Ends(a, "cancel_pending")
     \/ (job.attempt # a \/ job.state \notin {"cancelled", "cancel_requested"}) /\ Ends(a, "fence")
  /\ UNCHANGED services

(* The first reading of the compile.                                       *)
ReadTicket(a) ==
  /\ Calls(a, "ticket")
  /\ IF compile.cancel # 0 THEN Ends(a, "source")
     ELSE IF compile.state = "BUILDING" /\ compile.attempt <= a THEN Goes(a) \/ Ends(a, "fence")
     ELSE Ends(a, "fence")
  /\ UNCHANGED services

LoadSources(a) == Check(a, "sources", "source" \notin withdrawn, "source")

(* ClaimCompile.  A lost answer is not recovered from.                     *)
ClaimCompile(a) ==
  /\ Calls(a, "claim")
  /\ \/ /\ compile.state = "BUILDING" /\ compile.attempt <= a /\ a \in live
        /\ compile' = [compile EXCEPT !.attempt = a]
        /\ Goes(a) \/ Ends(a, "fence")
     \/ Ends(a, "fence") /\ UNCHANGED compile
  /\ UNCHANGED <<job, live, edited, withdrawn, objects, excused>>

(* The model's graph runs to its end with one candidate.                   *)
Run(a) ==
  /\ Calls(a, "run")
  /\ \/ \E c \in Candidates :
          worker' = [worker EXCEPT ![a].at = @ + 1, ![a].candidate = [attempt |-> a, text |-> c]]
     \/ Ends(a, "run_failed")
  /\ UNCHANGED services

(* currentCompile.                                                         *)
CurrentCompile(a) == Check(a, "lease", BuildingBy(a), "fence")

PutCandidate(a) ==
  /\ Calls(a, "put")
  /\ \/ objects' = objects \cup {worker[a].candidate} /\ Goes(a)
     \/ Ends(a, "object") /\ UNCHANGED objects
  /\ UNCHANGED <<job, live, compile, edited, withdrawn, excused>>

(* acceptWithRecovery: the request, the reading after an error and the     *)
(* identical request again.                                                *)
Accept(a) ==
  /\ Calls(a, "accept") \/ Calls(a, "replay")
  /\ LET c      == worker[a].candidate
         failed == IF worker[a].side = "replay" THEN Ends(a, "accept_pending")
                   ELSE Turns(a, "recover")
     IN  \/ /\ Accepts(a, c)
            /\ compile' = Accepted(a, c)
            /\ Goes(a) \/ failed
         \/ failed /\ UNCHANGED compile
  /\ UNCHANGED <<job, live, edited, withdrawn, objects, excused>>

Recover(a) ==
  /\ Calls(a, "recover")
  /\ \/ (AcceptedBy(a) \/ BuildingBy(a)) /\ Turns(a, "replay")
     \/ Ends(a, "accept_pending")
  /\ UNCHANGED services

(* readAcceptedEvidence, after currentJob: the job is running without a    *)
(* result, the compile accepted what this attempt sent, and neither the    *)
(* wiki revision nor a source is withdrawn; the lease has not ended.       *)
ReadRunning(a)  == Check(a, "running", Running(a) /\ job.result = None, "fence")
ReadAccepted(a) == Check(a, "accepted", AcceptedBy(a) /\ compile.accepted = worker[a].candidate,
                         "technical_pending")
ReadWiki(a)     == Check(a, "wiki", "wiki" \notin withdrawn, "technical_pending")
ReadEvidence(a) == Check(a, "evidence", "source" \notin withdrawn /\ a \in live,
                         "technical_pending")

Manifest(a) == [attempt |-> a, of |-> worker[a].candidate]

(* BuildWikiCompileResultRef, verifyManifestRef.                           *)
PutManifest(a) ==
  /\ Calls(a, "manifest")
  /\ \/ /\ worker[a].candidate \in objects /\ a \in live
        /\ objects' = objects \cup {Manifest(a)}
        /\ Goes(a)
     \/ Ends(a, "technical_pending") /\ UNCHANGED objects
  /\ UNCHANGED <<job, live, compile, edited, withdrawn, excused>>

(* CompleteJob, a compare-and-set on the lease in DC.                      *)
Complete(a) ==
  /\ Calls(a, "complete")
  /\ \/ /\ Running(a) /\ a \in live
        /\ job' = [job EXCEPT !.state = "succeeded", !.result = Manifest(a)]
        /\ Ends(a, "succeeded") \/ Turns(a, "confirm")
     \/ Turns(a, "confirm") /\ UNCHANGED job
  /\ UNCHANGED <<live, compile, edited, withdrawn, objects, excused>>

(* The answer of CompleteJob is lost or an error.                          *)
Confirm(a) ==
  /\ Calls(a, "confirm")
  /\ \/ /\ job.state = "succeeded" /\ job.attempt = a /\ job.result = Manifest(a)
        /\ Ends(a, "succeeded")
     \/ Ends(a, "technical_pending")
  /\ UNCHANGED services

ProcessClaim(a) ==
  \/ CurrentJob(a) \/ Acknowledge(a) \/ WasAcknowledged(a)
  \/ ReadTicket(a) \/ LoadSources(a) \/ ClaimCompile(a) \/ Run(a) \/ CurrentCompile(a)
  \/ PutCandidate(a) \/ Accept(a) \/ Recover(a)
  \/ ReadRunning(a) \/ ReadAccepted(a) \/ ReadWiki(a) \/ ReadEvidence(a)
  \/ PutManifest(a) \/ Complete(a) \/ Confirm(a)
  \/ Stop(a)

Next ==
  \/ ClaimJob \/ Cancel \/ LeaseEnds
  \/ Supersede \/ HumanEdit \/ \E r \in {"source", "wiki"} : Withdraw(r)
  \/ \E a \in Attempts : ProcessClaim(a)
Spec == Init /\ [][Next]_vars

-------------------------------------------------------------------------------
(* Properties.                                                             *)

Produced == [attempt : Attempts, text : Candidates]
Manifests == [attempt : Attempts, of : Produced]
Sides  == {"script", "acknowledge", "acknowledged?", "recover", "replay", "confirm"}
Places == [at : 0..Len(Script), side : Sides \cup Outcomes, candidate : Produced \cup {None}]

JobStates == {"queued", "running", "cancel_requested", "cancelled", "failed", "succeeded"}
Jobs     == [state : JobStates, attempt : 0..MaxAttempts, cancel : {0, 1},
             result : Manifests \cup {None}]
Compiles == [state : {"BUILDING", "ACCEPTED", "SUPERSEDED"}, attempt : 0..MaxAttempts,
             cancel : {0, 1}, accepted : Produced \cup {None}]

(* Types: in particular, nothing is stored or accepted but a candidate     *)
(* that a run produced.                                                    *)
TypeOK ==
  /\ job \in Jobs /\ compile \in Compiles
  /\ worker \in [Attempts -> Places]
  /\ live \subseteq Attempts /\ excused \subseteq Attempts /\ edited \in BOOLEAN
  /\ withdrawn \subseteq {"source", "wiki"} /\ objects \subseteq Produced \cup Manifests

(* DC has a job succeed only when RTW has accepted the page, from the same *)
(* attempt, and its result is the manifest of just what was accepted; both *)
(* can be read from the object store.  So can what RTW accepts, whether or *)
(* not the job succeeds.  The three share no transaction and any call may  *)
(* lose its answer.                                                        *)
SuccessIsAccepted ==
  /\ compile.state = "ACCEPTED" => compile.accepted \in objects
  /\ job.state = "succeeded" =>
       /\ AcceptedBy(job.attempt) /\ compile.accepted.attempt = job.attempt
       /\ job.result = [attempt |-> job.attempt, of |-> compile.accepted]
       /\ job.result \in objects

(* What ProcessClaim reports is what the services hold, whichever answers  *)
(* were lost: a success is DC's success with this attempt's manifest, a    *)
(* confirmed cancellation is a job that ended without a result.            *)
ReportsAreTrue ==
  \A a \in Attempts :
    /\ worker[a].side = "succeeded" => job.state = "succeeded" /\ job.result = Manifest(a)
    /\ worker[a].side = "cancel_confirmed" => job.state = "cancelled" /\ job.result = None

(* A revision withdrawn before the last look at it, even after the         *)
(* manifest was written, keeps the job from succeeding: the sources and    *)
(* the page are read again between the manifest and CompleteJob.  What is  *)
(* withdrawn after that look is not seen.                                  *)
WithdrawnIsNotCompleted ==
  job.state = "succeeded" /\ withdrawn # {} => job.attempt \in excused
=============================================================================
