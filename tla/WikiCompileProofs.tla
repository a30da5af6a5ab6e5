--------------------------- MODULE WikiCompileProofs ---------------------------
(***************************************************************************)
(* Proofs about WikiCompile, for every number of attempts and every set of *)
(* candidates: what the services hold together is kept by where in the     *)
(* script each attempt is.                                                 *)
(***************************************************************************)
EXTENDS WikiCompile, TLAPS

(* An attempt that was not claimed has no worker.                          *)
Unclaimed ==
  \A a \in Attempts : a > job.attempt => worker[a].at = 0 /\ worker[a].side = "script"

(* The recoveries belong to one call each.                                 *)
Aside(a) ==
  /\ worker[a].side \in {"recover", "replay"} => worker[a].at = 12
  /\ worker[a].side = "confirm" => worker[a].at = 24

(* What the calls behind an attempt have left in the services.             *)
Behind(a) ==
  /\ worker[a].at > 6  => worker[a].candidate \in Produced /\ worker[a].candidate.attempt = a
  /\ worker[a].at > 9  => worker[a].candidate \in objects
  /\ worker[a].at > 12 => AcceptedBy(a) /\ compile.accepted = worker[a].candidate
  /\ worker[a].at > 18 => Manifest(a) \in objects
  /\ worker[a].at >= 23 /\ "wiki" \in withdrawn => a \in excused
  /\ worker[a].at >= 24 /\ "source" \in withdrawn => a \in excused

Kept == compile.state = "ACCEPTED" => compile.accepted \in objects
Result ==
  /\ job.state # "succeeded" => job.result = None
  /\ job.state = "succeeded" => /\ job.attempt \in Attempts
                                /\ worker[job.attempt].at = 24
                                /\ job.result = Manifest(job.attempt)
Reported(a) ==
  /\ worker[a].side = "succeeded" => job.state = "succeeded" /\ job.attempt = a
  /\ worker[a].side = "cancel_confirmed" => job.state = "cancelled"

Workers == \A a \in Attempts : Aside(a) /\ Behind(a) /\ Reported(a)
IInv == TypeOK /\ Unclaimed /\ Workers /\ Kept /\ Result

LEMMA ScriptIs ==
  /\ DOMAIN Script = 1..24 /\ Len(Script) = 24
  /\ \A i \in 1..24 : /\ Script[i] = "run" => i = 6
                      /\ Script[i] = "put" => i = 9
                      /\ Script[i] = "accept" => i = 12
                      /\ Script[i] = "manifest" => i = 18
                      /\ Script[i] = "complete" => i = 24
                      /\ i = 6  => Script[i] = "run"
                      /\ i = 9  => Script[i] = "put"
                      /\ i = 12 => Script[i] = "accept"
                      /\ i = 18 => Script[i] = "manifest"
                      /\ i = 22 => Script[i] = "wiki"
                      /\ i = 23 => Script[i] = "evidence"
                      /\ i = 24 => Script[i] = "complete"
  BY DEF Script

LEMMA InitInv == Init => IInv
<1> SUFFICES ASSUME Init PROVE IInv
  OBVIOUS
<1>1. TypeOK
  <2>1. [at |-> 0, side |-> "script", candidate |-> None] \in Places
    BY ScriptIs DEF Places, Sides
  <2>2. worker \in [Attempts -> Places]
    BY <2>1 DEF Init
  <2>3. 0 \in 0..MaxAttempts
    BY CompileAssumption
  <2>4. QED
    BY <2>2, <2>3 DEF Init, TypeOK, Jobs, JobStates, Compiles
<1>2. Workers
  BY DEF Init, Workers, Aside, Behind, Reported
<1>3. QED
  BY <1>1, <1>2 DEF Init, IInv, Unclaimed, Kept, Result

-------------------------------------------------------------------------------
(* What a step of ProcessClaim does to the services and to its worker.     *)

Onward(a) ==
  /\ worker'[a].at = worker[a].at + 1 /\ worker[a].at \in 1..23 /\ worker'[a].side = "script"
  /\ worker[a].at # 6 => worker'[a].candidate = worker[a].candidate
  /\ worker[a].at = 6 => /\ worker'[a].candidate \in Produced
                         /\ worker'[a].candidate.attempt = a
  /\ worker[a].at = 9  => worker[a].candidate \in objects'
  /\ worker[a].at = 12 => AcceptedBy(a)' /\ compile'.accepted = worker[a].candidate
  /\ worker[a].at = 18 => Manifest(a) \in objects'
  /\ worker[a].at = 22 => "wiki" \notin withdrawn
  /\ worker[a].at = 23 => "source" \notin withdrawn
Turned(a) ==
  /\ worker'[a].at = worker[a].at /\ worker'[a].candidate = worker[a].candidate
  /\ worker'[a].side \in (Sides \cup Outcomes) \ {"script"}
  /\ Aside(a)' /\ Reported(a)'
Moves(a) ==
  /\ worker' \in [Attempts -> Places]
  /\ \A b \in Attempts \ {a} : worker'[b] = worker[b]
  /\ Onward(a) \/ Turned(a)
Compiled(a) ==
  \/ UNCHANGED compile
  \/ /\ compile.state = "BUILDING" /\ compile' = [compile EXCEPT !.attempt = a]
  \/ /\ worker[a].at = 12 /\ Accepts(a, worker[a].candidate)
     /\ compile' = Accepted(a, worker[a].candidate)
Stored(a) ==
  \/ UNCHANGED objects
  \/ worker[a].at = 9 /\ objects' = objects \cup {worker[a].candidate}
  \/ worker[a].at = 18 /\ objects' = objects \cup {Manifest(a)}
Ended(a) ==
  \/ UNCHANGED job
  \/ job.state \in {"cancel_requested", "cancelled"} /\ job' = [job EXCEPT !.state = "cancelled"]
  \/ /\ worker[a].at = 24 /\ Running(a) /\ UNCHANGED <<compile, objects>>
     /\ job' = [job EXCEPT !.state = "succeeded", !.result = Manifest(a)]

LEMMA GoesOn ==
  ASSUME TypeOK, NEW a \in Attempts, Goes(a), worker[a].at \in 1..23
  PROVE  /\ worker' \in [Attempts -> Places]
         /\ \A b \in Attempts \ {a} : worker'[b] = worker[b]
         /\ worker'[a].at = worker[a].at + 1 /\ worker'[a].side = "script"
         /\ worker'[a].candidate = worker[a].candidate
<1>1. /\ worker \in [Attempts -> Places] /\ "script" \in Sides
      /\ worker[a].at + 1 \in 0..Len(Script)
  BY ScriptIs DEF TypeOK, Sides, Places
<1>2. QED
  BY <1>1 DEF Goes, Places

LEMMA TurnsTo ==
  ASSUME TypeOK, NEW a \in Attempts, NEW side \in Sides \cup Outcomes, Turns(a, side)
  PROVE  /\ worker' \in [Attempts -> Places]
         /\ \A b \in Attempts \ {a} : worker'[b] = worker[b]
         /\ worker'[a].at = worker[a].at /\ worker'[a].side = side
         /\ worker'[a].candidate = worker[a].candidate
<1>1. worker \in [Attempts -> Places]
  BY DEF TypeOK
<1>2. QED
  BY <1>1 DEF Turns, Places

(* An outcome other than a success or a confirmed cancellation says        *)
(* nothing about the services.                                             *)
LEMMA EndsTo ==
  ASSUME TypeOK, NEW a \in Attempts,
         NEW outcome \in (Sides \cup Outcomes) \ {"script", "recover", "replay", "confirm",
                                                  "succeeded", "cancel_confirmed"},
         Ends(a, outcome) \/ Turns(a, outcome)
  PROVE  Moves(a)
<1>1. Turns(a, outcome) /\ outcome \in Sides \cup Outcomes
  BY DEF Ends, Turns
<1>2. QED
  BY <1>1, TurnsTo DEF Moves, Turned, Aside, Reported

LEMMA CallsAre ==
  ASSUME TypeOK, Workers, NEW a \in Attempts
  PROVE  /\ Calls(a, "run")      => worker[a].at = 6
         /\ Calls(a, "put")      => worker[a].at = 9
         /\ Calls(a, "accept")   => worker[a].at = 12
         /\ Calls(a, "replay")   => worker[a].at = 12
         /\ Calls(a, "recover")  => worker[a].at = 12
         /\ Calls(a, "manifest") => worker[a].at = 18
         /\ Calls(a, "complete") => worker[a].at = 24
         /\ Calls(a, "confirm")  => worker[a].at = 24
         /\ \A call \in {"job", "ticket", "sources", "claim", "lease", "running", "accepted",
                         "wiki", "evidence"} :
              Calls(a, call) =>
                /\ worker[a].at \in 1..23 /\ worker[a].at \notin {6, 9, 12, 18}
                /\ worker[a].at = 22 => call = "wiki"
                /\ worker[a].at = 23 => call = "evidence"
<1>1. worker[a].side \in Sides \cup Outcomes /\ worker[a].at \in Nat
  BY DEF TypeOK, Places
<1>2. Aside(a)
  BY DEF Workers
<1>3. ASSUME NEW call, Calls(a, call), worker[a].side # call
      PROVE  worker[a].at \in 1..24 /\ Script[worker[a].at] = call
  BY <1>3, ScriptIs DEF Calls
<1>4. ASSUME NEW call \in {"replay", "recover", "confirm"}, Calls(a, call)
      PROVE  worker[a].side = call
  BY <1>4, ScriptIs DEF Calls, Script
<1>5. ASSUME NEW call \in {"job", "ticket", "sources", "claim", "lease", "running", "accepted",
                           "wiki", "evidence", "run", "put", "accept", "manifest", "complete"},
             Calls(a, call)
      PROVE  worker[a].at \in 1..24 /\ Script[worker[a].at] = call
  BY <1>1, <1>3, <1>5 DEF Sides, Outcomes
<1>6. /\ Calls(a, "replay")  => worker[a].at = 12
      /\ Calls(a, "recover") => worker[a].at = 12
      /\ Calls(a, "confirm") => worker[a].at = 24
  BY <1>2, <1>4 DEF Aside
<1>7. /\ Calls(a, "run")      => worker[a].at = 6
      /\ Calls(a, "put")      => worker[a].at = 9
      /\ Calls(a, "accept")   => worker[a].at = 12
      /\ Calls(a, "manifest") => worker[a].at = 18
      /\ Calls(a, "complete") => worker[a].at = 24
  BY <1>5, ScriptIs
<1>8. ASSUME NEW call \in {"job", "ticket", "sources", "claim", "lease", "running", "accepted",
                           "wiki", "evidence"}, Calls(a, call)
      PROVE  /\ worker[a].at \in 1..23 /\ worker[a].at \notin {6, 9, 12, 18}
             /\ worker[a].at = 22 => call = "wiki"
             /\ worker[a].at = 23 => call = "evidence"
  <2>1. worker[a].at \in 1..24 /\ Script[worker[a].at] = call
    BY <1>5, <1>8
  <2>2. worker[a].at # 24 /\ worker[a].at \notin {6, 9, 12, 18}
    BY <1>8, <2>1, ScriptIs
  <2>3. QED
    BY <1>8, <2>1, <2>2, ScriptIs
<1>9. QED
  BY <1>6, <1>7, <1>8

LEMMA ChecksMove ==
  ASSUME TypeOK, Workers, NEW a \in Attempts, Goes(a),
         NEW call \in {"job", "ticket", "sources", "claim", "lease", "running", "accepted",
                       "wiki", "evidence"},
         Calls(a, call),
         call = "wiki" => "wiki" \notin withdrawn, call = "evidence" => "source" \notin withdrawn
  PROVE  Moves(a)
<1>1. /\ worker[a].at \in 1..23 /\ worker[a].at \notin {6, 9, 12, 18}
      /\ worker[a].at = 22 => call = "wiki"
      /\ worker[a].at = 23 => call = "evidence"
  BY CallsAre
<1>2. QED
  BY <1>1, GoesOn DEF Moves, Onward

LEMMA CheckStep ==
  ASSUME TypeOK, Workers, NEW a \in Attempts,
         NEW call \in {"sources", "lease", "running", "accepted", "wiki", "evidence"},
         NEW condition \in BOOLEAN, Check(a, call, condition, "source")
           \/ Check(a, call, condition, "fence") \/ Check(a, call, condition, "technical_pending"),
         call = "wiki" /\ condition => "wiki" \notin withdrawn,
         call = "evidence" /\ condition => "source" \notin withdrawn
  PROVE  Moves(a) /\ UNCHANGED services
<1>1. Calls(a, call) /\ UNCHANGED services
  BY DEF Check
<1>2. CASE condition /\ Goes(a)
  BY <1>1, <1>2, ChecksMove
<1>3. ASSUME NEW outcome \in {"source", "fence", "technical_pending"}, Ends(a, outcome) PROVE Moves(a)
  <2>1. outcome \in (Sides \cup Outcomes) \ {"script", "recover", "replay", "confirm",
                                             "succeeded", "cancel_confirmed"}
    BY DEF Outcomes
  <2>2. QED
    BY <1>3, <2>1, EndsTo
<1>4. QED
  BY <1>1, <1>2, <1>3 DEF Check

LEMMA StepOf ==
  ASSUME TypeOK, Workers, NEW a \in Attempts, ProcessClaim(a)
  PROVE  /\ Moves(a) /\ Compiled(a) /\ Stored(a) /\ Ended(a)
         /\ UNCHANGED <<live, edited, withdrawn, excused>>
<1> DEFINE Goal == /\ Moves(a) /\ Compiled(a) /\ Stored(a) /\ Ended(a)
                   /\ UNCHANGED <<live, edited, withdrawn, excused>>
<1>1. ASSUME Moves(a), UNCHANGED services PROVE Goal
  BY <1>1 DEF services, Compiled, Stored, Ended
<1>2. ASSUME NEW outcome \in {"fence", "source", "run_failed", "object", "accept_pending",
                              "technical_pending", "cancel_pending", "stopped", "acknowledge",
                              "acknowledged?"},
             Ends(a, outcome) \/ Turns(a, outcome)
      PROVE  Moves(a)
  <2>1. outcome \in (Sides \cup Outcomes) \ {"script", "recover", "replay", "confirm",
                                             "succeeded", "cancel_confirmed"}
    BY DEF Sides, Outcomes
  <2>2. QED
    BY <1>2, <2>1, EndsTo
<1>3. CASE CurrentJob(a)
  <2>1. CASE Goes(a)
    BY <1>1, <1>3, <2>1, ChecksMove DEF CurrentJob
  <2>2. QED
    BY <1>1, <1>2, <1>3, <2>1 DEF CurrentJob
<1>4. CASE ReadTicket(a)
  <2>1. CASE Goes(a)
    BY <1>1, <1>4, <2>1, ChecksMove DEF ReadTicket
  <2>2. QED
    BY <1>1, <1>2, <1>4, <2>1 DEF ReadTicket
<1>5. CASE LoadSources(a)
  BY <1>1, <1>5, CheckStep DEF LoadSources
<1>6. CASE CurrentCompile(a)
  <2>1. BuildingBy(a) \in BOOLEAN
    BY DEF BuildingBy
  <2>2. QED
    BY <1>1, <1>6, <2>1, CheckStep DEF CurrentCompile
<1>7. CASE ReadRunning(a)
  <2>1. (Running(a) /\ job.result = None) \in BOOLEAN
    OBVIOUS
  <2>2. QED
    BY <1>1, <1>7, <2>1, CheckStep DEF ReadRunning
<1>8. CASE ReadAccepted(a)
  <2>1. (AcceptedBy(a) /\ compile.accepted = worker[a].candidate) \in BOOLEAN
    OBVIOUS
  <2>2. QED
    BY <1>1, <1>8, <2>1, CheckStep DEF ReadAccepted
<1>9. CASE ReadWiki(a)
  BY <1>1, <1>9, CheckStep DEF ReadWiki
<1>10. CASE ReadEvidence(a)
  <2>1. ("source" \notin withdrawn /\ a \in live) \in BOOLEAN
    OBVIOUS
  <2>2. QED
    BY <1>1, <1>10, <2>1, CheckStep DEF ReadEvidence
<1>11. CASE Stop(a)
  BY <1>1, <1>2, <1>11 DEF Stop
<1>12. CASE Acknowledge(a)
  <2>1. Compiled(a) /\ Stored(a) /\ UNCHANGED <<live, edited, withdrawn, excused>>
    BY <1>12 DEF Acknowledge, Compiled, Stored
  <2>2. Ended(a)
    BY <1>12 DEF Acknowledge, Ended
  <2>3. CASE Turns(a, "acknowledged?")
    BY <1>2, <2>1, <2>2, <2>3
  <2>4. CASE Ends(a, "cancel_confirmed") /\ job' = [job EXCEPT !.state = "cancelled"]
    <3>1. Turns(a, "cancel_confirmed") /\ "cancel_confirmed" \in Sides \cup Outcomes
      BY <2>4 DEF Ends, Turns, Outcomes
    <3>2. job'.state = "cancelled"
      BY <2>4 DEF TypeOK
    <3>3. QED
      BY <2>1, <2>2, <3>1, <3>2, TurnsTo DEF Moves, Turned, Aside, Reported
  <2>5. QED
    BY <1>12, <2>3, <2>4 DEF Acknowledge
<1>13. CASE WasAcknowledged(a)
  <2>1. CASE Ends(a, "cancel_confirmed") /\ job.state = "cancelled"
    <3>1. Turns(a, "cancel_confirmed") /\ "cancel_confirmed" \in Sides \cup Outcomes
      BY <2>1 DEF Ends, Turns, Outcomes
    <3>2. job' = job
      BY <1>13 DEF WasAcknowledged, services
    <3>3. QED
      BY <1>1, <1>13, <2>1, <3>1, <3>2, TurnsTo DEF WasAcknowledged, Moves, Turned, Aside, Reported
  <2>2. QED
    BY <1>1, <1>2, <1>13, <2>1 DEF WasAcknowledged
<1>14. CASE ClaimCompile(a)
  <2>1. Compiled(a) /\ Stored(a) /\ Ended(a) /\ UNCHANGED <<live, edited, withdrawn, excused>>
    BY <1>14 DEF ClaimCompile, Compiled, Stored, Ended
  <2>2. CASE Goes(a)
    BY <1>14, <2>1, <2>2, ChecksMove DEF ClaimCompile
  <2>3. QED
    BY <1>2, <1>14, <2>1, <2>2 DEF ClaimCompile
<1>15. CASE Run(a)
  <2>1. ASSUME NEW c \in Candidates,
               worker' = [worker EXCEPT ![a].at = @ + 1, ![a].candidate = [attempt |-> a, text |-> c]]
        PROVE  Moves(a)
    <3>1. worker \in [Attempts -> Places] /\ worker[a].at = 6 /\ worker[a].side = "script"
      BY <1>15, CallsAre DEF TypeOK, Run, Calls, Sides, Outcomes, Places
    <3>2. [attempt |-> a, text |-> c] \in Produced
      BY DEF Produced
    <3>3. worker[a].at + 1 \in 0..Len(Script)
      BY <3>1, ScriptIs
    <3>4. worker' \in [Attempts -> Places] /\ \A b \in Attempts \ {a} : worker'[b] = worker[b]
      BY <2>1, <3>1, <3>2, <3>3 DEF Places
    <3>5. /\ worker'[a].at = worker[a].at + 1 /\ worker'[a].side = "script"
          /\ worker'[a].candidate = [attempt |-> a, text |-> c]
      BY <2>1, <3>1 DEF Places
    <3>6. QED
      BY <3>1, <3>2, <3>4, <3>5 DEF Moves, Onward
  <2>2. QED
    BY <1>1, <1>2, <1>15, <2>1 DEF Run
<1>16. CASE PutCandidate(a)
  <2>1. worker[a].at = 9
    BY <1>16, CallsAre DEF PutCandidate
  <2>2. Compiled(a) /\ Stored(a) /\ Ended(a) /\ UNCHANGED <<live, edited, withdrawn, excused>>
    BY <1>16, <2>1 DEF PutCandidate, Compiled, Stored, Ended
  <2>3. CASE objects' = objects \cup {worker[a].candidate} /\ Goes(a)
    BY <2>1, <2>2, <2>3, GoesOn DEF Moves, Onward
  <2>4. QED
    BY <1>2, <1>16, <2>2, <2>3 DEF PutCandidate
<1>17. CASE PutManifest(a)
  <2>1. worker[a].at = 18
    BY <1>17, CallsAre DEF PutManifest
  <2>2. Compiled(a) /\ Stored(a) /\ Ended(a) /\ UNCHANGED <<live, edited, withdrawn, excused>>
    BY <1>17, <2>1 DEF PutManifest, Compiled, Stored, Ended
  <2>3. CASE objects' = objects \cup {Manifest(a)} /\ Goes(a)
    BY <2>1, <2>2, <2>3, GoesOn DEF Moves, Onward
  <2>4. QED
    BY <1>2, <1>17, <2>2, <2>3 DEF PutManifest
<1>18. CASE Accept(a)
  <2>1. worker[a].at = 12
    BY <1>18, CallsAre DEF Accept
  <2>2. Compiled(a) /\ Stored(a) /\ Ended(a) /\ UNCHANGED <<live, edited, withdrawn, excused>>
    BY <1>18, <2>1 DEF Accept, Compiled, Stored, Ended
  <2>3. CASE Accepts(a, worker[a].candidate) /\ compile' = Accepted(a, worker[a].candidate) /\ Goes(a)
    <3>1. AcceptedBy(a)' /\ compile'.accepted = worker[a].candidate
      BY <2>3 DEF Accepts, Accepted, AcceptedBy, BuildingBy, TypeOK
    <3>2. QED
      BY <2>1, <2>2, <2>3, <3>1, GoesOn DEF Moves, Onward
  <2>4. CASE Turns(a, "recover")
    <3>1. "recover" \in Sides \cup Outcomes
      BY DEF Sides
    <3>2. QED
      BY <2>1, <2>2, <2>4, <3>1, TurnsTo DEF Moves, Turned, Aside, Reported
  <2>5. QED
    BY <1>2, <1>18, <2>2, <2>3, <2>4 DEF Accept
<1>19. CASE Recover(a)
  <2>1. worker[a].at = 12
    BY <1>19, CallsAre DEF Recover
  <2>2. CASE Turns(a, "replay")
    <3>1. "replay" \in Sides \cup Outcomes
      BY DEF Sides
    <3>2. QED
      BY <1>1, <1>19, <2>1, <2>2, <3>1, TurnsTo DEF Recover, Moves, Turned, Aside, Reported
  <2>3. QED
    BY <1>1, <1>2, <1>19, <2>2 DEF Recover
<1>20. CASE Complete(a)
  <2>1. worker[a].at = 24
    BY <1>20, CallsAre DEF Complete
  <2>2. Compiled(a) /\ Stored(a) /\ Ended(a) /\ UNCHANGED <<live, edited, withdrawn, excused>>
    BY <1>20, <2>1 DEF Complete, Compiled, Stored, Ended
  <2>3. CASE Turns(a, "confirm")
    <3>1. "confirm" \in Sides \cup Outcomes
      BY DEF Sides
    <3>2. QED
      BY <2>1, <2>2, <2>3, <3>1, TurnsTo DEF Moves, Turned, Aside, Reported
  <2>4. CASE /\ Ends(a, "succeeded") /\ Running(a)
             /\ job' = [job EXCEPT !.state = "succeeded", !.result = Manifest(a)]
    <3>1. Turns(a, "succeeded") /\ "succeeded" \in Sides \cup Outcomes
      BY <2>4 DEF Ends, Turns, Outcomes
    <3>2. job'.state = "succeeded" /\ job'.attempt = a
      BY <2>4 DEF TypeOK, Running
    <3>3. QED
      BY <2>2, <3>1, <3>2, TurnsTo DEF Moves, Turned, Aside, Reported
  <2>5. QED
    BY <1>20, <2>3, <2>4 DEF Complete
<1>21. CASE Confirm(a)
  <2>1. CASE Ends(a, "succeeded") /\ job.state = "succeeded" /\ job.attempt = a
    <3>1. Turns(a, "succeeded") /\ "succeeded" \in Sides \cup Outcomes
      BY <2>1 DEF Ends, Turns, Outcomes
    <3>2. job' = job
      BY <1>21 DEF Confirm, services
    <3>3. QED
      BY <1>1, <1>21, <2>1, <3>1, <3>2, TurnsTo DEF Confirm, Moves, Turned, Aside, Reported
  <2>2. QED
    BY <1>1, <1>2, <1>21, <2>1 DEF Confirm
<1>22. QED
  BY <1>3, <1>4, <1>5, <1>6, <1>7, <1>8, <1>9, <1>10, <1>11, <1>12, <1>13, <1>14, <1>15, <1>16,
     <1>17, <1>18, <1>19, <1>20, <1>21 DEF ProcessClaim

-------------------------------------------------------------------------------
(* The invariant.                                                          *)

LEMMA TypeStep == TypeOK /\ Workers /\ [Next]_vars => TypeOK'
<1> SUFFICES ASSUME TypeOK, Workers, [Next]_vars PROVE TypeOK'
  OBVIOUS
<1>0. job \in Jobs /\ compile \in Compiles /\ worker \in [Attempts -> Places]
  BY DEF TypeOK
<1>1. CASE ClaimJob
  <2>1. job.attempt + 1 \in Attempts /\ job.attempt + 1 \in 0..MaxAttempts
    BY <1>0, <1>1, CompileAssumption DEF ClaimJob, Attempts, Jobs
  <2>2. 1 \in 0..Len(Script)
    BY ScriptIs
  <2>3. worker' \in [Attempts -> Places]
    BY <1>0, <1>1, <2>1, <2>2 DEF ClaimJob, Places
  <2>4. job' \in Jobs
    BY <1>0, <1>1, <2>1 DEF ClaimJob, Jobs, JobStates
  <2>5. QED
    BY <1>1, <2>1, <2>3, <2>4 DEF ClaimJob, TypeOK
<1>2. CASE Cancel \/ LeaseEnds
  <2>1. job' \in Jobs
    BY <1>0, <1>2 DEF Cancel, LeaseEnds, Jobs, JobStates
  <2>2. QED
    BY <1>2, <2>1 DEF Cancel, LeaseEnds, TypeOK
<1>3. CASE Supersede \/ HumanEdit
  <2>1. compile' \in Compiles
    BY <1>0, <1>3 DEF Supersede, HumanEdit, Compiles
  <2>2. QED
    BY <1>3, <2>1 DEF Supersede, HumanEdit, TypeOK
<1>4. ASSUME NEW r \in {"source", "wiki"}, Withdraw(r) PROVE TypeOK'
  BY <1>4 DEF Withdraw, TypeOK
<1>5. ASSUME NEW a \in Attempts, ProcessClaim(a) PROVE TypeOK'
  <2>1. worker' \in [Attempts -> Places] /\ UNCHANGED <<live, edited, withdrawn, excused>>
    BY <1>5, StepOf DEF Moves
  <2>2. worker[a].at > 6 => worker[a].candidate \in Produced
    BY DEF Workers, Behind
  <2>3. compile' \in Compiles
    <3>1. a \in 0..MaxAttempts
      BY CompileAssumption DEF Attempts
    <3>2. Compiled(a)
      BY <1>5, StepOf
    <3>3. CASE worker[a].at = 12 /\ compile' = Accepted(a, worker[a].candidate)
      <4>1. worker[a].candidate \in Produced
        BY <2>2, <3>3
      <4>2. QED
        BY <1>0, <3>3, <4>1 DEF Accepted, Compiles
    <3>4. CASE compile' = [compile EXCEPT !.attempt = a]
      BY <1>0, <3>1, <3>4 DEF Compiles
    <3>5. QED
      BY <1>0, <3>2, <3>3, <3>4 DEF Compiled
  <2>4. worker[a].at > 6 => Manifest(a) \in Manifests
    BY <2>2 DEF Manifest, Manifests
  <2>5. objects' \subseteq Produced \cup Manifests
    BY <1>5, <2>2, <2>4, StepOf DEF Stored, TypeOK
  <2>6. job' \in Jobs
    <3>1. Ended(a)
      BY <1>5, StepOf
    <3>2. CASE worker[a].at = 24 /\ job' = [job EXCEPT !.state = "succeeded", !.result = Manifest(a)]
      <4>1. Manifest(a) \in Manifests
        BY <2>4, <3>2
      <4>2. QED
        BY <1>0, <3>2, <4>1 DEF Jobs, JobStates
    <3>3. CASE job' = [job EXCEPT !.state = "cancelled"]
      BY <1>0, <3>3 DEF Jobs, JobStates
    <3>4. QED
      BY <1>0, <3>1, <3>2, <3>3 DEF Ended
  <2>7. QED
    BY <2>1, <2>3, <2>5, <2>6 DEF TypeOK
<1>6. CASE UNCHANGED vars
  BY <1>6 DEF vars, TypeOK
<1>7. QED
  BY <1>1, <1>2, <1>3, <1>4, <1>5, <1>6 DEF Next

LEMMA ClaimedOnly ==
  ASSUME TypeOK, Unclaimed, NEW a \in Attempts, ProcessClaim(a)
  PROVE  ~(a > job.attempt)
<1> SUFFICES ASSUME worker[a].at = 0, worker[a].side = "script" PROVE FALSE
  BY DEF Unclaimed
<1>1. \A call : call # "script" => ~Calls(a, call)
  BY ScriptIs DEF Calls
<1>2. ~Stop(a)
  BY DEF Stop, Working
<1>3. QED
  BY <1>1, <1>2 DEF ProcessClaim, CurrentJob, Acknowledge, WasAcknowledged, ReadTicket, LoadSources,
     ClaimCompile, Run, CurrentCompile, PutCandidate, Accept, Recover, ReadRunning, ReadAccepted,
     ReadWiki, ReadEvidence, PutManifest, Complete, Confirm, Check

LEMMA UnclaimedStep == TypeOK /\ Workers /\ Unclaimed /\ [Next]_vars => Unclaimed'
<1> SUFFICES ASSUME TypeOK, Workers, Unclaimed, [Next]_vars, NEW b \in Attempts, b > job'.attempt
             PROVE  worker'[b].at = 0 /\ worker'[b].side = "script"
  BY DEF Unclaimed
<1>1. job.attempt \in Nat /\ b \in Nat
  BY CompileAssumption DEF TypeOK, Attempts, Jobs
<1>2. CASE ClaimJob
  BY <1>1, <1>2 DEF ClaimJob, Unclaimed, TypeOK
<1>3. ASSUME NEW a \in Attempts, ProcessClaim(a)
      PROVE  worker'[b].at = 0 /\ worker'[b].side = "script"
  <2>1. job'.attempt = job.attempt
    BY <1>3, StepOf DEF Ended, TypeOK, Jobs
  <2>2. b # a
    BY <1>3, <2>1, ClaimedOnly
  <2>3. QED
    BY <1>3, <2>1, <2>2, StepOf DEF Moves, Unclaimed
<1>4. CASE Cancel \/ LeaseEnds \/ Supersede \/ HumanEdit \/ (\E r \in {"source", "wiki"} : Withdraw(r))
           \/ UNCHANGED vars
  BY <1>4 DEF Cancel, LeaseEnds, Supersede, HumanEdit, Withdraw, vars, Unclaimed, TypeOK, Jobs
<1>5. QED
  BY <1>2, <1>3, <1>4 DEF Next

(* What the services never take back.                                      *)
LEMMA ServicesKeep ==
  ASSUME TypeOK, Workers, [Next]_vars
  PROVE  /\ compile.state = "ACCEPTED" => compile' = compile
         /\ objects \subseteq objects'
         /\ job.state = "succeeded" => job' = job
         /\ job.state = "cancelled" => job'.state = "cancelled"
         /\ excused \subseteq excused'
<1>1. ASSUME NEW a \in Attempts, ProcessClaim(a)
      PROVE  /\ compile.state = "ACCEPTED" => compile' = compile
             /\ objects \subseteq objects'
             /\ job.state = "succeeded" => job' = job
             /\ job.state = "cancelled" => job'.state = "cancelled"
             /\ excused \subseteq excused'
  <2>1. compile.state = "ACCEPTED" => compile' = compile
    <3>1. ASSUME compile.state = "ACCEPTED", Accepts(a, worker[a].candidate),
                 compile' = Accepted(a, worker[a].candidate)
          PROVE  compile' = compile
      BY <3>1 DEF Accepts, Accepted, BuildingBy, TypeOK, Compiles
    <3>2. QED
      BY <1>1, <3>1, StepOf DEF Compiled
  <2>2. objects \subseteq objects' /\ excused' = excused
    BY <1>1, StepOf DEF Stored
  <2>3. job.state = "succeeded" => job' = job
    BY <1>1, StepOf DEF Ended, Running
  <2>4. job.state = "cancelled" => job'.state = "cancelled"
    BY <1>1, StepOf DEF Ended, Running, TypeOK, Jobs
  <2>5. QED
    BY <2>1, <2>2, <2>3, <2>4
<1>2. CASE LeaseEnds
  BY <1>2 DEF LeaseEnds, TypeOK, Jobs
<1>3. CASE \/ ClaimJob \/ Cancel \/ Supersede \/ HumanEdit \/ \E r \in {"source", "wiki"} : Withdraw(r)
           \/ UNCHANGED vars
  BY <1>3 DEF ClaimJob, Cancel, Supersede, HumanEdit, Withdraw, vars
<1>4. QED
  BY <1>1, <1>2, <1>3 DEF Next

(* A worker that does not move keeps what is behind it.                    *)
LEMMA OthersKeep ==
  ASSUME TypeOK, Workers, [Next]_vars, NEW b \in Attempts, worker'[b] = worker[b]
  PROVE  Aside(b)' /\ Behind(b)' /\ Reported(b)'
<1>1. Aside(b) /\ Behind(b) /\ Reported(b)
  BY DEF Workers
<1>2. Aside(b)' /\ Reported(b)'
  BY <1>1, ServicesKeep DEF Aside, Reported
<1>3. Manifest(b)' = Manifest(b)
  BY DEF Manifest
<1>4. /\ worker[b].at >= 23 /\ "wiki" \in withdrawn' => b \in excused'
      /\ worker[b].at >= 24 /\ "source" \in withdrawn' => b \in excused'
  <2>1. CASE withdrawn' = withdrawn
    BY <1>1, <2>1, ServicesKeep DEF Behind
  <2>2. ASSUME NEW r \in {"source", "wiki"}, Withdraw(r)
        PROVE  /\ worker[b].at >= 23 /\ "wiki" \in withdrawn' => b \in excused'
               /\ worker[b].at >= 24 /\ "source" \in withdrawn' => b \in excused'
    <3>1. /\ withdrawn' = withdrawn \cup {r} /\ worker[b].at \in Nat
          /\ worker[b].at + (IF r = "wiki" THEN 1 ELSE 0) >= 24 => b \in excused'
      BY <2>2, ScriptIs DEF Withdraw, TypeOK, Places
    <3>2. QED
      BY <1>1, <2>2, <3>1, ServicesKeep DEF Behind
  <2>3. withdrawn' = withdrawn \/ \E r \in {"source", "wiki"} : Withdraw(r)
    <3>1. ASSUME NEW a \in Attempts, ProcessClaim(a) PROVE withdrawn' = withdrawn
      BY <3>1, StepOf
    <3>2. QED
      BY <3>1 DEF Next, ClaimJob, Cancel, LeaseEnds, Supersede, HumanEdit, vars
  <2>4. QED
    BY <2>1, <2>2, <2>3
<1>5. QED
  BY <1>1, <1>2, <1>3, <1>4, ServicesKeep DEF Behind, AcceptedBy

LEMMA WorkersStep == TypeOK /\ Unclaimed /\ Workers /\ [Next]_vars => Workers'
<1> SUFFICES ASSUME TypeOK, Unclaimed, Workers, [Next]_vars, NEW b \in Attempts
             PROVE  Aside(b)' /\ Behind(b)' /\ Reported(b)'
  BY DEF Workers
<1>1. CASE ProcessClaim(b)
  <2>1. /\ Moves(b) /\ UNCHANGED <<withdrawn, excused>> /\ worker[b].at \in Nat
        /\ Aside(b) /\ Behind(b) /\ Reported(b)
    BY <1>1, StepOf DEF TypeOK, Places, Workers
  <2>2. CASE Turned(b)
    <3>1. Manifest(b)' = Manifest(b)
      BY <2>2 DEF Turned, Manifest
    <3>2. QED
      BY <2>1, <2>2, <3>1, ServicesKeep DEF Turned, Behind, AcceptedBy
  <2>3. CASE Onward(b)
    <3>1. Aside(b)' /\ Reported(b)'
      BY <2>3 DEF Onward, Aside, Reported
    <3>2. worker'[b].at > 6 => worker'[b].candidate \in Produced /\ worker'[b].candidate.attempt = b
      BY <2>1, <2>3 DEF Onward, Behind
    <3>3. worker[b].at > 6 => worker'[b].candidate = worker[b].candidate /\ Manifest(b)' = Manifest(b)
      BY <2>3 DEF Onward, Manifest
    <3>4. worker'[b].at > 9 => worker'[b].candidate \in objects'
      BY <2>1, <2>3, <3>3, ServicesKeep DEF Onward, Behind
    <3>5. worker'[b].at > 12 => AcceptedBy(b)' /\ compile'.accepted = worker'[b].candidate
      BY <2>1, <2>3, <3>3, ServicesKeep DEF Onward, Behind, AcceptedBy
    <3>6. worker'[b].at > 18 => Manifest(b)' \in objects'
      BY <2>1, <2>3, <3>3, ServicesKeep DEF Onward, Behind
    <3>7. /\ worker'[b].at >= 23 /\ "wiki" \in withdrawn' => b \in excused'
          /\ worker'[b].at >= 24 /\ "source" \in withdrawn' => b \in excused'
      BY <2>1, <2>3 DEF Onward, Behind
    <3>8. QED
      BY <3>1, <3>2, <3>4, <3>5, <3>6, <3>7 DEF Behind
  <2>4. QED
    BY <2>1, <2>2, <2>3 DEF Moves
<1>2. CASE ClaimJob /\ b = job.attempt + 1
  <2>1. worker[b].side = "script" /\ worker \in [Attempts -> Places]
    BY <1>2, CompileAssumption DEF Unclaimed, TypeOK, Jobs, Attempts
  <2>2. worker'[b].at = 1 /\ worker'[b].side = "script"
    BY <1>2, <2>1 DEF ClaimJob, Places
  <2>3. QED
    BY <2>2 DEF Aside, Behind, Reported
<1>3. CASE worker'[b] = worker[b]
  BY <1>3, OthersKeep
<1>4. worker'[b] = worker[b] \/ ProcessClaim(b) \/ (ClaimJob /\ b = job.attempt + 1)
  <2>1. ASSUME NEW a \in Attempts, ProcessClaim(a), a # b PROVE worker'[b] = worker[b]
    BY <2>1, StepOf DEF Moves
  <2>2. CASE ClaimJob
    BY <2>2 DEF ClaimJob, TypeOK
  <2>3. QED
    BY <2>1, <2>2 DEF Next, Cancel, LeaseEnds, Supersede, HumanEdit, Withdraw, vars
<1>5. QED
  BY <1>1, <1>2, <1>3, <1>4

LEMMA ResultStep ==
  TypeOK /\ Unclaimed /\ Workers /\ Kept /\ Result /\ [Next]_vars => Kept' /\ Result'
<1> SUFFICES ASSUME TypeOK, Unclaimed, Workers, Kept, Result, [Next]_vars PROVE Kept' /\ Result'
  OBVIOUS
<1>0. job \in Jobs /\ compile \in Compiles
  BY DEF TypeOK
<1>1. ASSUME NEW a \in Attempts, ProcessClaim(a) PROVE Kept'
  <2>1. worker[a].at = 12 => worker[a].candidate \in objects
    BY DEF Workers, Behind
  <2>2. Compiled(a) /\ objects \subseteq objects'
    BY <1>1, StepOf, ServicesKeep
  <2>3. CASE worker[a].at = 12 /\ compile' = Accepted(a, worker[a].candidate)
    <3>1. compile'.accepted = worker[a].candidate
      BY <1>0, <2>3 DEF Accepted, Compiles
    <3>2. QED
      BY <2>1, <2>2, <2>3, <3>1 DEF Kept
  <2>4. CASE compile.state = "BUILDING" /\ compile' = [compile EXCEPT !.attempt = a]
    <3>1. compile'.state = "BUILDING"
      BY <1>0, <2>4 DEF Compiles
    <3>2. QED
      BY <3>1 DEF Kept
  <2>5. CASE compile' = compile
    BY <2>2, <2>5 DEF Kept
  <2>6. QED
    BY <2>2, <2>3, <2>4, <2>5 DEF Compiled
<1>2. Kept'
  <2>1. CASE Supersede
    <3>1. compile'.state = "SUPERSEDED"
      BY <1>0, <2>1 DEF Supersede, Compiles
    <3>2. QED
      BY <3>1 DEF Kept
  <2>2. CASE UNCHANGED <<compile, objects>>
    BY <2>2 DEF Kept
  <2>3. QED
    BY <1>1, <2>1, <2>2 DEF Next, ClaimJob, Cancel, LeaseEnds, HumanEdit, Withdraw, vars
<1>3. CASE job.state = "succeeded"
  <2>1. job' = job
    BY <1>3, ServicesKeep
  <2>2. worker'[job.attempt].at = 24 /\ Manifest(job.attempt)' = Manifest(job.attempt)
    <3>1. worker[job.attempt].at = 24 /\ job.attempt \in Attempts
      BY <1>3 DEF Result
    <3>2. ASSUME NEW a \in Attempts, ProcessClaim(a)
          PROVE  /\ worker'[job.attempt].at = worker[job.attempt].at
                 /\ worker'[job.attempt].candidate = worker[job.attempt].candidate
      BY <3>1, <3>2, StepOf DEF Moves, Onward, Turned
    <3>3. worker' = worker \/ \E a \in Attempts : ProcessClaim(a)
      BY <1>3 DEF Next, ClaimJob, Cancel, LeaseEnds, Supersede, HumanEdit, Withdraw, vars
    <3>4. /\ worker'[job.attempt].at = worker[job.attempt].at
          /\ worker'[job.attempt].candidate = worker[job.attempt].candidate
      BY <3>2, <3>3
    <3>5. Manifest(job.attempt)' = [attempt |-> job'.attempt, of |-> worker'[job'.attempt].candidate]
      BY DEF Manifest
    <3>6. QED
      BY <2>1, <3>1, <3>4, <3>5 DEF Manifest
  <2>3. QED
    BY <1>2, <1>3, <2>1, <2>2 DEF Result
<1>4. CASE job.state # "succeeded"
  <2>1. job.result = None
    BY <1>4 DEF Result
  <2>2. ASSUME NEW a \in Attempts, worker[a].at = 24, Running(a), ProcessClaim(a),
               job' = [job EXCEPT !.state = "succeeded", !.result = Manifest(a)]
        PROVE  Result'
    <3>1. job'.state = "succeeded" /\ job'.attempt = a /\ job'.result = Manifest(a)
      BY <1>0, <2>2 DEF Running, Jobs
    <3>2. worker'[a].at = 24 /\ worker'[a].candidate = worker[a].candidate
      BY <2>2, StepOf DEF Moves, Onward, Turned
    <3>3. QED
      BY <3>1, <3>2 DEF Result, Manifest
  <2>3. ASSUME job'.state # "succeeded", job'.result = job.result PROVE Result'
    BY <2>1, <2>3 DEF Result
  <2>4. ASSUME NEW a \in Attempts, ProcessClaim(a) PROVE Result'
    <3>1. Ended(a)
      BY <2>4, StepOf
    <3>2. CASE job' = [job EXCEPT !.state = "cancelled"]
      <4>1. job'.state = "cancelled" /\ job'.result = job.result
        BY <1>0, <3>2 DEF Jobs
      <4>2. QED
        BY <1>2, <2>3, <4>1
    <3>3. CASE UNCHANGED job
      BY <1>4, <2>3, <3>3
    <3>4. QED
      BY <2>2, <2>4, <3>1, <3>2, <3>3 DEF Ended
  <2>5. CASE ClaimJob \/ Cancel \/ LeaseEnds
    <3>1. CASE ClaimJob
      <4>1. job'.state # "succeeded" /\ job'.result = job.result
        BY <1>0, <1>4, <3>1 DEF ClaimJob, Jobs
      <4>2. QED
        BY <1>2, <2>3, <4>1
    <3>2. CASE Cancel
      <4>1. job'.state # "succeeded" /\ job'.result = job.result
        BY <1>0, <1>4, <3>2 DEF Cancel, Jobs
      <4>2. QED
        BY <1>2, <2>3, <4>1
    <3>3. CASE LeaseEnds
      <4>1. job'.state # "succeeded" /\ job'.result = job.result
        BY <1>0, <1>4, <3>3 DEF LeaseEnds, Jobs
      <4>2. QED
        BY <1>2, <2>3, <4>1
    <3>4. QED
      BY <2>5, <3>1, <3>2, <3>3
  <2>6. CASE Supersede \/ HumanEdit \/ (\E r \in {"source", "wiki"} : Withdraw(r)) \/ UNCHANGED vars
    BY <1>2, <1>4, <2>3, <2>6 DEF Supersede, HumanEdit, Withdraw, vars
  <2>7. QED
    BY <1>2, <2>4, <2>5, <2>6 DEF Next
<1>5. QED
  BY <1>3, <1>4

THEOREM Inductive == Spec => []IInv
<1>1. IInv /\ [Next]_vars => IInv'
  BY TypeStep, UnclaimedStep, WorkersStep, ResultStep DEF IInv
<1>2. QED
  BY <1>1, InitInv, PTL DEF Spec

(* A job succeeds only with the page that RTW accepted from the same       *)
(* attempt, and with its manifest; both are in the object store            *)
(* (ProcessClaim and acceptWithRecovery).                                  *)
THEOREM SuccessIsAlwaysAccepted == Spec => []SuccessIsAccepted
<1>1. IInv => SuccessIsAccepted
  <2> SUFFICES ASSUME IInv PROVE SuccessIsAccepted
    OBVIOUS
  <2>1. compile.state = "ACCEPTED" => compile.accepted \in objects
    BY DEF IInv, Kept
  <2>2. ASSUME job.state = "succeeded"
        PROVE  /\ AcceptedBy(job.attempt) /\ compile.accepted.attempt = job.attempt
               /\ job.result = [attempt |-> job.attempt, of |-> compile.accepted]
               /\ job.result \in objects
    <3>1. job.attempt \in Attempts /\ worker[job.attempt].at = 24 /\ job.result = Manifest(job.attempt)
      BY <2>2 DEF IInv, Result
    <3>2. Behind(job.attempt)
      BY <3>1 DEF IInv, Workers
    <3>3. QED
      BY <3>1, <3>2 DEF Behind, Manifest
  <2>3. QED
    BY <2>1, <2>2 DEF SuccessIsAccepted
<1>2. QED
  BY <1>1, Inductive, PTL

(* What an attempt reports is what the Data Center holds (CompleteJob and  *)
(* ackCancellation, with their lost answers).                              *)
THEOREM ReportsAreAlwaysTrue == Spec => []ReportsAreTrue
<1>1. IInv => ReportsAreTrue
  BY DEF IInv, Workers, Reported, Result, ReportsAreTrue
<1>2. QED
  BY <1>1, Inductive, PTL

(* No job succeeds after a withdrawal that its last look could see         *)
(* (readAcceptedEvidence after the manifest).                              *)
THEOREM WithdrawnIsNeverCompleted == Spec => []WithdrawnIsNotCompleted
<1>1. IInv => WithdrawnIsNotCompleted
  <2> SUFFICES ASSUME IInv, job.state = "succeeded", withdrawn # {} PROVE job.attempt \in excused
    BY DEF WithdrawnIsNotCompleted
  <2>1. job.attempt \in Attempts /\ worker[job.attempt].at = 24
    BY DEF IInv, Result
  <2>2. Behind(job.attempt) /\ ("wiki" \in withdrawn \/ "source" \in withdrawn)
    BY <2>1 DEF IInv, Workers, TypeOK
  <2>3. QED
    BY <2>1, <2>2 DEF Behind
<1>2. QED
  BY <1>1, Inductive, PTL
===============================================================================
