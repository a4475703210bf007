------------------------ MODULE VideoPipelineProofs ------------------------
(***************************************************************************)
(* Theorems about VideoPipeline, for any number of uploads and re-runs.    *)
(*                                                                         *)
(* The induction: PROCESSING always has somebody who will overwrite it (a  *)
(* job that read PROCESSING does, whatever its verdict), the raw file is   *)
(* there until the first run of its own job ends, and as long as nothing   *)
(* was disturbed the only video under way is the latest.                   *)
(***************************************************************************)
EXTENDS VideoPipeline, TLAPS

\* Somebody whose commit takes the status out of PROCESSING.
Relief == \E u \in Uploads : \/ stage[u] \in {"marked", "queued"}
                             \/ stage[u] = "running" /\ saw[u] = "processing"

\* The counts of runs go with the stages, and the file waits for the first run.
RunsOK ==
  \A u \in Uploads :
    /\ stage[u] \in {"new", "stored", "checked", "marked"} => runs[u] = 0
    /\ stage[u] \in {"running", "closing"} => runs[u] > 0
    /\ stage[u] \in {"stored", "checked", "marked"} => u \in raw
    /\ stage[u] = "queued" /\ runs[u] = 0 => u \in raw
    /\ stage[u] = "running" /\ runs[u] = 1 => u \in raw

\* A handler goes on only if it saw no other video being processed.
Waived == \A u \in Uploads : stage[u] = "checked" => saw[u] # "processing"

\* Uploads under way that no fault has put back.
Fresh == {u \in Pending : stage[u] = "queued" => runs[u] = 0}

OneFresh == ~crossed /\ (\A u \in Uploads : runs[u] <= 1) =>
              /\ \A u, v \in Fresh : u = v
              /\ Fresh # {} => status = "processing"

\* Undisturbed, the latest video is under way or decides.
LatestOK ==
  Undisturbed =>
    IF Pending = {} THEN LatestDecides
    ELSE /\ latest \in Pending
         /\ stage[latest] = "running" => saw[latest] = "processing"

VideoInv == /\ TypeOK /\ RunsOK /\ Waived
            /\ status = "processing" => Relief \/ stranded
            /\ OneFresh
            /\ LatestOK

-----------------------------------------------------------------------------
Step(u) == \/ Upload(u) \/ Check(u) \/ Mark(u) \/ Enqueue(u) \/ Interrupted(u)
           \/ Job(u) \/ Shutdown(u) \/ Kill(u) \/ NoVerdict(u) \/ NoRow(u)

LEMMA InitStep == Init => VideoInv
<1> SUFFICES ASSUME Init PROVE VideoInv
  OBVIOUS
<1>1. TypeOK
  <2>1. 0 \in 0 .. MaxRuns
    BY VideoAssumption
  <2> QED BY <2>1 DEF Init, TypeOK, Stage, Status
<1>2. Pending = {} /\ Fresh = {}
  BY DEF Init, Pending, Fresh
<1> QED BY <1>1, <1>2 DEF Init, VideoInv, RunsOK, Waived, OneFresh, LatestOK, LatestDecides

LEMMA TypeStep ==
  ASSUME TypeOK, NEW u \in Uploads, Step(u)
  PROVE  TypeOK'
<1> USE VideoAssumption
        DEF TypeOK, To, Stage, Status, row, history, Written, Cleared, Playable
<1>1. CASE Upload(u)
  BY <1>1 DEF Upload
<1>2. CASE Check(u)
  BY <1>2 DEF Check
<1>3. CASE Mark(u)
  BY <1>3 DEF Mark
<1>4. CASE Enqueue(u)
  BY <1>4 DEF Enqueue
<1>5. CASE Interrupted(u)
  BY <1>5 DEF Interrupted
<1>6. CASE Start(u)
  BY <1>6 DEF Start
<1>7. CASE GiveUp(u)
  BY <1>7 DEF GiveUp
<1>8. CASE Approve(u)
  BY <1>8 DEF Approve
<1>9. CASE Reject(u)
  BY <1>9 DEF Reject
<1>10. CASE DeleteRaw(u)
  BY <1>10 DEF DeleteRaw
<1>11. CASE Shutdown(u)
  BY <1>11 DEF Shutdown
<1>12. CASE Kill(u)
  BY <1>12 DEF Kill
<1>13. CASE NoVerdict(u)
  BY <1>13 DEF NoVerdict
<1>14. CASE NoRow(u)
  BY <1>14 DEF NoRow
<1> QED BY <1>1, <1>2, <1>3, <1>4, <1>5, <1>6, <1>7, <1>8, <1>9, <1>10,
           <1>11, <1>12, <1>13, <1>14 DEF Step, Job

LEMMA RunsStep ==
  ASSUME TypeOK, RunsOK, NEW u \in Uploads, Step(u)
  PROVE  RunsOK'
<1> USE VideoAssumption
        DEF TypeOK, RunsOK, To, row, history, Cleared, Playable
<1>1. CASE Upload(u)
  BY <1>1 DEF Upload
<1>2. CASE Check(u)
  BY <1>2 DEF Check
<1>3. CASE Mark(u)
  BY <1>3 DEF Mark
<1>4. CASE Enqueue(u)
  BY <1>4 DEF Enqueue
<1>5. CASE Interrupted(u)
  BY <1>5 DEF Interrupted
<1>6. CASE Start(u)
  BY <1>6 DEF Start
<1>7. CASE GiveUp(u)
  BY <1>7 DEF GiveUp
<1>8. CASE Approve(u)
  BY <1>8 DEF Approve
<1>9. CASE Reject(u)
  BY <1>9 DEF Reject
<1>10. CASE DeleteRaw(u)
  BY <1>10 DEF DeleteRaw
<1>11. CASE Shutdown(u)
  BY <1>11 DEF Shutdown
<1>12. CASE Kill(u)
  BY <1>12 DEF Kill
<1>13. CASE NoVerdict(u)
  BY <1>13 DEF NoVerdict
<1>14. CASE NoRow(u)
  BY <1>14 DEF NoRow
<1> QED BY <1>1, <1>2, <1>3, <1>4, <1>5, <1>6, <1>7, <1>8, <1>9, <1>10,
           <1>11, <1>12, <1>13, <1>14 DEF Step, Job

LEMMA WaivedStep ==
  ASSUME TypeOK, Waived, NEW u \in Uploads, Step(u)
  PROVE  Waived'
<1> USE VideoAssumption
        DEF TypeOK, Waived, To, row, history, Confirmable
<1>1. CASE Upload(u)
  BY <1>1 DEF Upload
<1>2. CASE Check(u)
  BY <1>2 DEF Check
<1>3. CASE Mark(u)
  BY <1>3 DEF Mark
<1>4. CASE Enqueue(u)
  BY <1>4 DEF Enqueue
<1>5. CASE Interrupted(u)
  BY <1>5 DEF Interrupted
<1>6. CASE Start(u)
  BY <1>6 DEF Start
<1>7. CASE GiveUp(u)
  BY <1>7 DEF GiveUp
<1>8. CASE Approve(u)
  BY <1>8 DEF Approve
<1>9. CASE Reject(u)
  BY <1>9 DEF Reject
<1>10. CASE DeleteRaw(u)
  BY <1>10 DEF DeleteRaw
<1>11. CASE Shutdown(u)
  BY <1>11 DEF Shutdown
<1>12. CASE Kill(u)
  BY <1>12 DEF Kill
<1>13. CASE NoVerdict(u)
  BY <1>13 DEF NoVerdict
<1>14. CASE NoRow(u)
  BY <1>14 DEF NoRow
<1> QED BY <1>1, <1>2, <1>3, <1>4, <1>5, <1>6, <1>7, <1>8, <1>9, <1>10,
           <1>11, <1>12, <1>13, <1>14 DEF Step, Job

\* Whoever saw PROCESSING overwrites it.
LEMMA ReliefStep ==
  ASSUME TypeOK, status = "processing" => Relief \/ stranded,
         NEW u \in Uploads, Step(u)
  PROVE  (status = "processing" => Relief \/ stranded)'
<1> USE VideoAssumption
        DEF TypeOK, Relief, To, row, history, Written
<1>1. CASE Upload(u)
  BY <1>1 DEF Upload
<1>2. CASE Check(u)
  BY <1>2 DEF Check
<1>3. CASE Mark(u)
  BY <1>3 DEF Mark
<1>4. CASE Enqueue(u)
  BY <1>4 DEF Enqueue
<1>5. CASE Interrupted(u)
  BY <1>5 DEF Interrupted
<1>6. CASE Start(u)
  BY <1>6 DEF Start
<1>7. CASE GiveUp(u)
  BY <1>7 DEF GiveUp
<1>8. CASE Approve(u)
  BY <1>8 DEF Approve
<1>9. CASE Reject(u)
  BY <1>9 DEF Reject
<1>10. CASE DeleteRaw(u)
  BY <1>10 DEF DeleteRaw
<1>11. CASE Shutdown(u)
  BY <1>11 DEF Shutdown
<1>12. CASE Kill(u)
  BY <1>12 DEF Kill
<1>13. CASE NoVerdict(u)
  BY <1>13 DEF NoVerdict
<1>14. CASE NoRow(u)
  BY <1>14 DEF NoRow
<1> QED BY <1>1, <1>2, <1>3, <1>4, <1>5, <1>6, <1>7, <1>8, <1>9, <1>10,
           <1>11, <1>12, <1>13, <1>14 DEF Step, Job

\* A step that is not Mark puts nothing under way, and what it leaves under way
\* was not put back by a fault.
LEMMA FreshStep ==
  ASSUME TypeOK, RunsOK, Waived, OneFresh, NEW u \in Uploads, Step(u)
  PROVE  OneFresh'
<1> USE VideoAssumption
        DEF TypeOK, RunsOK, To, row, history, Written, OneFresh, Fresh, Pending, Waived
<1>1. CASE Upload(u)
  BY <1>1 DEF Upload
<1>2. CASE Check(u)
  BY <1>2 DEF Check
<1>3. CASE Mark(u)
  BY <1>3 DEF Mark
<1>4. CASE Enqueue(u)
  BY <1>4 DEF Enqueue
<1>5. CASE Interrupted(u)
  BY <1>5 DEF Interrupted
<1>6. CASE Start(u)
  BY <1>6 DEF Start
<1>7. CASE GiveUp(u)
  BY <1>7 DEF GiveUp
<1>8. CASE Approve(u)
  BY <1>8 DEF Approve
<1>9. CASE Reject(u)
  BY <1>9 DEF Reject
<1>10. CASE DeleteRaw(u)
  BY <1>10 DEF DeleteRaw
<1>11. CASE Shutdown(u)
  BY <1>11 DEF Shutdown
<1>12. CASE Kill(u)
  BY <1>12 DEF Kill
<1>13. CASE NoVerdict(u)
  BY <1>13 DEF NoVerdict
<1>14. CASE NoRow(u)
  BY <1>14 DEF NoRow
<1> QED BY <1>1, <1>2, <1>3, <1>4, <1>5, <1>6, <1>7, <1>8, <1>9, <1>10,
           <1>11, <1>12, <1>13, <1>14 DEF Step, Job

\* Undisturbed, every job under way is fresh: there is one, and it is marked.
LEMMA Calm ==
  ASSUME TypeOK, OneFresh, Undisturbed
  PROVE  /\ \A v \in Uploads : runs[v] <= 1 /\ (stage[v] = "queued" => runs[v] = 0)
         /\ \A v, w \in Pending : v = w
         /\ Pending # {} => status = "processing"
<1>1. \A v \in Uploads : runs[v] <= 1 /\ (stage[v] = "queued" => runs[v] = 0)
  BY VideoAssumption DEF TypeOK, Undisturbed, Repeated
<1>2. Fresh = Pending
  BY <1>1 DEF Fresh, Pending
<1> QED BY <1>1, <1>2 DEF OneFresh, Undisturbed

\* What was disturbed stays so: a job that was put back is run again or given up.
LEMMA StillDisturbed ==
  ASSUME TypeOK, RunsOK, NEW u \in Uploads, Step(u), Undisturbed'
  PROVE  Undisturbed
<1> USE VideoAssumption DEF TypeOK, RunsOK, Undisturbed, Repeated, To, row, history
<1>1. CASE Upload(u)
  BY <1>1 DEF Upload
<1>2. CASE Check(u)
  BY <1>2 DEF Check
<1>3. CASE Mark(u)
  BY <1>3 DEF Mark
<1>4. CASE Enqueue(u)
  BY <1>4 DEF Enqueue
<1>5. CASE Interrupted(u)
  BY <1>5 DEF Interrupted
<1>6. CASE Start(u)
  BY <1>6 DEF Start
<1>7. CASE GiveUp(u)
  BY <1>7 DEF GiveUp
<1>8. CASE Approve(u)
  BY <1>8 DEF Approve
<1>9. CASE Reject(u)
  BY <1>9 DEF Reject
<1>10. CASE DeleteRaw(u)
  BY <1>10 DEF DeleteRaw
<1>11. CASE Shutdown(u)
  BY <1>11 DEF Shutdown
<1>12. CASE Kill(u)
  BY <1>12 DEF Kill
<1>13. CASE NoVerdict(u)
  BY <1>13 DEF NoVerdict
<1>14. CASE NoRow(u)
  BY <1>14 DEF NoRow
<1> QED BY <1>1, <1>2, <1>3, <1>4, <1>5, <1>6, <1>7, <1>8, <1>9, <1>10,
           <1>11, <1>12, <1>13, <1>14 DEF Step, Job

LEMMA LatestStep ==
  ASSUME TypeOK, RunsOK, Waived, OneFresh, LatestOK, NEW u \in Uploads, Step(u)
  PROVE  LatestOK'
<1> SUFFICES ASSUME Undisturbed'
             PROVE  LatestOK'
  BY DEF LatestOK
<1>a. Undisturbed
  BY StillDisturbed
<1>b. /\ \A v \in Uploads : runs[v] <= 1 /\ (stage[v] = "queued" => runs[v] = 0)
      /\ \A v, w \in Pending : v = w
      /\ Pending # {} => status = "processing"
  BY <1>a, Calm
<1>c. IF Pending = {} THEN LatestDecides
      ELSE latest \in Pending /\ (stage[latest] = "running" => saw[latest] = "processing")
  BY <1>a DEF LatestOK
<1>d. ~crossed' /\ ~stranded' /\ ~flaky' /\ ~Repeated'
  BY DEF Undisturbed
<1> USE VideoAssumption, <1>a, <1>b, <1>c, <1>d
        DEF TypeOK, To, row, history, LatestOK, LatestDecides, Pending, Rest, RunsOK, Waived, Written, Playable, Repeated
<1>1. CASE Upload(u)
  BY <1>1 DEF Upload
<1>2. CASE Check(u)
  BY <1>2 DEF Check
<1>3. CASE Mark(u)
  BY <1>3 DEF Mark
<1>4. CASE Enqueue(u)
  BY <1>4 DEF Enqueue
<1>5. CASE Interrupted(u)
  BY <1>5 DEF Interrupted
<1>6. CASE Start(u)
  BY <1>6 DEF Start
<1>7. CASE GiveUp(u)
  BY <1>7 DEF GiveUp
<1>8. CASE Approve(u)
  BY <1>8 DEF Approve
<1>9. CASE Reject(u)
  BY <1>9 DEF Reject
<1>10. CASE DeleteRaw(u)
  BY <1>10 DEF DeleteRaw
<1>11. CASE Shutdown(u)
  BY <1>11 DEF Shutdown
<1>12. CASE Kill(u)
  BY <1>12 DEF Kill
<1>13. CASE NoVerdict(u)
  BY <1>13 DEF NoVerdict
<1>14. CASE NoRow(u)
  BY <1>14 DEF NoRow
<1> QED BY <1>1, <1>2, <1>3, <1>4, <1>5, <1>6, <1>7, <1>8, <1>9, <1>10,
           <1>11, <1>12, <1>13, <1>14 DEF Step, Job

-----------------------------------------------------------------------------
LEMMA NextStep ==
  ASSUME VideoInv, [Next]_vars
  PROVE  VideoInv'
<1>1. CASE UNCHANGED vars
  BY <1>1 DEF VideoInv, vars, row, history, TypeOK, RunsOK, Waived, Relief, OneFresh, Fresh,
              LatestOK, LatestDecides, Pending, Rest, Undisturbed, Repeated
<1>2. CASE Next
  <2>1. PICK u \in Uploads : Step(u)
    BY <1>2 DEF Next, Step
  <2>2. TypeOK' /\ RunsOK' /\ Waived'
    BY <2>1, TypeStep, RunsStep, WaivedStep DEF VideoInv
  <2>3. (status = "processing" => Relief \/ stranded)'
    BY <2>1, ReliefStep DEF VideoInv
  <2>4. OneFresh' /\ LatestOK'
    BY <2>1, FreshStep, LatestStep DEF VideoInv
  <2> QED BY <2>2, <2>3, <2>4 DEF VideoInv
<1> QED BY <1>1, <1>2

\* What the pipeline keeps in every state it reaches.
THEOREM Invariance == Spec => []VideoInv
<1>1. Init => VideoInv
  BY InitStep
<1>2. VideoInv /\ [Next]_vars => VideoInv'
  BY NextStep
<1> QED BY <1>1, <1>2, PTL DEF Spec

\* Row, object store, queue and histories keep their types.
THEOREM TypeCorrect == Spec => []TypeOK
<1>1. VideoInv => TypeOK
  BY DEF VideoInv
<1> QED BY <1>1, Invariance, PTL

\* A profile in PROCESSING has a handler or a job that will end it, unless an
\* upload was given up: confirm_upload does not answer 409 for ever.
THEOREM StuckOnlyFaulty == Spec => []StuckOnlyByFault
<1>1. VideoInv => StuckOnlyByFault
  BY DEF VideoInv, StuckOnlyByFault, Relief, Pending
<1> QED BY <1>1, Invariance, PTL

\* The check for PROCESSING lets one video at a time through, unless two confirms
\* cross or a job is run again.
THEOREM VideosApart == Spec => []OneAtATime
<1>1. VideoInv => OneAtATime
  <2> SUFFICES ASSUME VideoInv, ~crossed, ~Repeated
               PROVE  \A u, v \in Pending : u = v
    BY DEF OneAtATime
  <2>1. \A v \in Uploads : runs[v] <= 1 /\ (stage[v] = "queued" => runs[v] = 0)
    BY VideoAssumption DEF VideoInv, TypeOK, Repeated
  <2>2. Fresh = Pending
    BY <2>1 DEF Fresh, Pending
  <2> QED BY <2>1, <2>2 DEF VideoInv, OneFresh
<1> QED BY <1>1, Invariance, PTL

\* Undisturbed, the verdict on the video that was confirmed last is the one that
\* the profile shows.
THEOREM LatestWins == Spec => []LatestDecides
<1>1. VideoInv => LatestDecides
  BY DEF VideoInv, LatestOK, LatestDecides, Rest
<1> QED BY <1>1, Invariance, PTL

\* A job turns down a good video only if the store failed it, or an earlier run
\* of the same job had deleted the file: no other job does.
THEOREM VerdictsAreJust == Spec => JustVerdict
<1>1. VideoInv /\ [Next]_vars =>
        [\A u \in Good : stage[u] = "running" /\ stage'[u] = "closing" =>
           shown' = u \/ u \in raw \/ runs[u] > 1]_vars
  BY VideoAssumption DEF VideoInv, TypeOK, RunsOK
<1> QED BY <1>1, Invariance, PTL DEF Spec, JustVerdict
=============================================================================
