--------------------------- MODULE VideoPipeline ---------------------------
(***************************************************************************)
(* The profile videos of one user: the browser's upload, the handler of    *)
(* POST /profile/video/confirm (profile_service.py) and the arq job that   *)
(* transcodes the raw file and passes the verdict (workers/video.py).      *)
(*                                                                         *)
(* Every upload has its own object key, one confirm request and one job,   *)
(* so `stage' says where each of them is.  The job reads the user's row    *)
(* when it starts and writes it when it ends, and SQLAlchemy writes only   *)
(* what differs from the row as read (`saw').  avatar_url changes with     *)
(* video_profile_url in the same UPDATE and is not shown.                  *)
(***************************************************************************)
EXTENDS Naturals, FiniteSets

CONSTANTS Uploads,    \* videos that the user records, a bound of the model
          Good,       \* those that ffmpeg can transcode
          MaxRuns,    \* arq's max_tries
          Faults,     \* what may go wrong
          NoVideo

ASSUME VideoAssumption == /\ IsFiniteSet(Uploads)
                          /\ Good \subseteq Uploads
                          /\ MaxRuns \in Nat
                          /\ Faults \subseteq {"api", "worker", "backend"}
                          /\ NoVideo \notin Uploads

VARIABLES status,     \* users.video_profile_status
          shown,      \* users.video_profile_url: the upload it was made from
          raw,        \* raw files in the object store
          stage, saw, runs,
          latest,     \* history: the last upload that set PROCESSING
          crossed,    \* history: a confirm wrote over a status it had not seen
          stranded,   \* history: an upload was given up without a verdict
          flaky       \* history: a good file was turned down by a passing error

row == <<status, shown>>
history == <<latest, crossed, stranded, flaky>>
vars == <<row, raw, stage, saw, runs, history>>

-----------------------------------------------------------------------------
Status == {"none", "processing", "approved", "rejected"}

Stage == {"new", "stored", "checked", "marked",       \* browser and handler
          "queued", "running", "closing",             \* the job
          "done"}

\* Handler and job read the row when they begin and have it while they last.
To(u, next) ==
  /\ stage' = [stage EXCEPT ![u] = next]
  /\ saw' = [saw EXCEPT ![u] = IF next \in {"checked", "running"}
                               THEN status ELSE "none"]

\* A verdict on u is to be expected.
Pending == {u \in Uploads : stage[u] \in {"marked", "queued", "running"}}

\* The `m...' operators are faulty variants of the one that follows them.

\* confirm_upload turns down a second video: 409.
mAlways == TRUE

Confirmable == status # "processing"

\* What a commit makes of the status: dirty tracking leaves a value alone that
\* is the one that was read.
mOnlyGood(u, verdict) == IF verdict = "rejected" THEN status ELSE verdict
mUnlessDecided(u, verdict) == IF status = "rejected" THEN status ELSE verdict

Written(u, verdict) == IF saw[u] = verdict THEN status ELSE verdict

\* delete_object(raw_key).
mClearAll(u) == {}

Cleared(u) == raw \ {u}

\* ffmpeg makes something of the raw file (subprocess.run with check=True).
mUnchecked(u) == u \in raw

Playable(u) == u \in raw \cap Good

Init == /\ status = "none" /\ shown = NoVideo /\ raw = {}
        /\ stage = [u \in Uploads |-> "new"]
        /\ saw = [u \in Uploads |-> "none"]
        /\ runs = [u \in Uploads |-> 0]
        /\ latest = NoVideo /\ crossed = FALSE
        /\ stranded = FALSE /\ flaky = FALSE

-----------------------------------------------------------------------------
(* The browser and POST /profile/video/confirm                             *)

\* POST upload-url and the PUT; the client goes on only if the PUT succeeded.
Upload(u) == /\ stage[u] = "new"
             /\ raw' = raw \cup {u}
             /\ To(u, "stored")
             /\ UNCHANGED <<row, runs, history>>

\* SELECT of the user; 409 while a video is being processed.
Check(u) == /\ stage[u] = "stored"
            /\ IF Confirmable
               THEN To(u, "checked")
               ELSE To(u, "done")
            /\ UNCHANGED <<row, raw, runs, history>>

\* UPDATE and commit, which do not look at the status again.
Mark(u) == /\ stage[u] = "checked"
           /\ status' = Written(u, "processing")
           /\ latest' = u
           /\ crossed' = (crossed \/ status # saw[u])
           /\ To(u, "marked")
           /\ UNCHANGED <<shown, raw, runs, stranded, flaky>>

Enqueue(u) == /\ stage[u] = "marked"
              /\ To(u, "queued")
              /\ UNCHANGED <<row, raw, runs, history>>

\* The handler dies, or the database or Redis turns it away.
Interrupted(u) == /\ "api" \in Faults
                  /\ stage[u] \in {"checked", "marked"}
                  /\ stranded' = (stranded \/ stage[u] = "marked")
                  /\ To(u, "done")
                  /\ UNCHANGED <<row, raw, runs, latest, crossed, flaky>>

-----------------------------------------------------------------------------
(* process_video_profile, run by arq at least once                         *)

Start(u) == /\ stage[u] = "queued"
            /\ runs[u] < MaxRuns
            /\ runs' = [runs EXCEPT ![u] = @ + 1]
            /\ To(u, "running")
            /\ UNCHANGED <<row, raw, history>>

GiveUp(u) == /\ stage[u] = "queued"
             /\ runs[u] = MaxRuns
             /\ To(u, "done")
             /\ stranded' = TRUE
             /\ UNCHANGED <<row, raw, runs, latest, crossed, flaky>>

\* Download, transcode, upload, commit: only the commit is seen by others, and
\* nobody but the job itself removes its raw file.
Approve(u) == /\ stage[u] = "running"
              /\ Playable(u)
              /\ shown' = u
              /\ status' = Written(u, "approved")
              /\ To(u, "closing")
              /\ UNCHANGED <<raw, runs, history>>

\* except Exception: a file that is missing, a video that ffmpeg cannot read,
\* and any passing trouble of the object store.
Reject(u) == /\ stage[u] = "running"
             /\ IF Playable(u)
                THEN "backend" \in Faults /\ flaky' = TRUE
                ELSE UNCHANGED flaky
             /\ status' = Written(u, "rejected")
             /\ To(u, "closing")
             /\ UNCHANGED <<shown, raw, runs, latest, crossed, stranded>>

\* finally: delete the raw file; a failure to do so is swallowed.  Then arq
\* records the result, an exception too: the job will not run again.
DeleteRaw(u) == /\ stage[u] = "closing"
                /\ \/ raw' = Cleared(u)
                   \/ "backend" \in Faults /\ UNCHANGED raw
                /\ To(u, "done")
                /\ UNCHANGED <<row, runs, history>>

\* The worker is stopped: CancelledError is no Exception, so no verdict is
\* written, but `finally' deletes the file.  arq puts the job back.  (The same
\* happens to a job whose worker is killed between the deletion and the result.)
Shutdown(u) == /\ "worker" \in Faults
               /\ stage[u] \in {"running", "closing"}
               /\ raw' = Cleared(u)
               /\ To(u, "queued")
               /\ UNCHANGED <<row, runs, history>>

\* The worker is killed, and the job runs again when its lease is over.
Kill(u) == /\ "worker" \in Faults
           /\ stage[u] \in {"running", "closing"}
           /\ To(u, "queued")
           /\ UNCHANGED <<row, raw, runs, history>>

\* The job times out, or its commit fails: the same without another run.
NoVerdict(u) == /\ Faults \cap {"worker", "backend"} # {}
                /\ stage[u] = "running"
                /\ raw' = Cleared(u)
                /\ To(u, "done")
                /\ stranded' = TRUE
                /\ UNCHANGED <<row, runs, latest, crossed, flaky>>

\* The database cannot be reached when the job starts: outside the `try'.
NoRow(u) == /\ "backend" \in Faults
            /\ stage[u] = "queued"
            /\ To(u, "done")
            /\ stranded' = TRUE
            /\ UNCHANGED <<row, raw, runs, latest, crossed, flaky>>

Job(u) == \/ Start(u) \/ GiveUp(u) \/ Approve(u) \/ Reject(u)
          \/ DeleteRaw(u)

Next == \E u \in Uploads :
          \/ Upload(u) \/ Check(u) \/ Mark(u) \/ Enqueue(u) \/ Interrupted(u)
          \/ Job(u)
          \/ Shutdown(u) \/ Kill(u) \/ NoVerdict(u) \/ NoRow(u)

Spec == Init /\ [][Next]_vars

\* A handler that has begun goes on, and a worker takes every job there is.
FairSpec == /\ Spec
            /\ \A u \in Uploads : WF_vars(Mark(u)) /\ WF_vars(Enqueue(u))
                                  /\ WF_vars(Job(u))

-----------------------------------------------------------------------------
(* Properties                                                              *)

TypeOK == /\ status \in Status
          /\ shown \in Good \cup {NoVideo}
          /\ raw \subseteq Uploads
          /\ stage \in [Uploads -> Stage]
          /\ saw \in [Uploads -> Status]
          /\ runs \in [Uploads -> 0 .. MaxRuns]
          /\ latest \in Uploads \cup {NoVideo}
          /\ crossed \in BOOLEAN /\ stranded \in BOOLEAN /\ flaky \in BOOLEAN

\* PROCESSING, which bars every further upload, always has a job or a handler
\* that will end it, unless some upload was given up: no crossing of confirms,
\* jobs and re-runs loses the last verdict to dirty tracking.
StuckOnlyByFault == status = "processing" => Pending # {} \/ stranded

\* A job was put back into the queue.
Repeated == \E u \in Uploads : runs[u] > IF stage[u] = "queued" THEN 0 ELSE 1

\* The check for PROCESSING keeps the videos apart: two are under way only if
\* two confirms crossed or a job was run again.
OneAtATime ==
  \/ crossed
  \/ Repeated
  \/ \A u, v \in Pending : u = v

Rest == Pending = {}

Undisturbed == ~crossed /\ ~Repeated /\ ~stranded /\ ~flaky

\* When nothing is under way and nothing went wrong, the profile tells the
\* truth about the video that was confirmed last: it is approved and shown if
\* it is good, rejected if it is not.
LatestDecides ==
  Rest /\ Undisturbed /\ latest # NoVideo =>
    IF latest \in Good THEN status = "approved" /\ shown = latest
                       ELSE status = "rejected"

\* Turning down a good video takes trouble with a store that has its file, or
\* an earlier run of the same job: no other job takes its raw file away.
JustVerdict ==
  [][\A u \in Good : stage[u] = "running" /\ stage'[u] = "closing" =>
       shown' = u \/ u \in raw \/ runs[u] > 1]_vars

\* A profile in PROCESSING leaves it in the end, unless a video was stranded: a
\* handler that died after the mark, or a job whose last run ended without a
\* verdict.  Workers that are stopped or killed strand none while runs are left.
EveryVideoIsJudged ==
  status = "processing" ~> status # "processing" \/ stranded

-----------------------------------------------------------------------------
(* A claim of the repository's texts that the code does not keep.          *)

\* design/support.json:5: after moderation the profile is in the feed, so a
\* good video whose job was taken on is not turned down.
GoodVideosPass ==
  [][\A u \in Good : stage[u] = "running" /\ stage'[u] = "closing" =>
       shown' = u /\ status' = "approved"]_vars
=============================================================================
