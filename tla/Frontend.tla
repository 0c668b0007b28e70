------------------------------ MODULE Frontend ------------------------------
(***************************************************************************)
(* The speech front end of one device: jobs of all slots cut into shared   *)
(* launches, by a service thread or by the caller itself                   *)
(* (src/inference/frontend.c).                                             *)
(*                                                                         *)
(* Job <<s, k>> is the k-th of the call slot s makes.  What is done under  *)
(* one hold of fe->lock (a launch) or of q_lock is a step.  Audio is       *)
(* counted in units of one frame, so vv_vae_frames of a piece is its       *)
(* length.  What the device does with a launch, its events, the buffers    *)
(* and the two log counters are left out: a launch succeeds or fails as a  *)
(* whole.                                                                  *)
(***************************************************************************)
EXTENDS Naturals, Sequences, FiniteSets, SequencesExt, TLC

CONSTANTS Slot,       \* threads that use the front end, one stream each
          Cap,        \* p.max_samples
          MaxItems,   \* p.max_items
          MaxActive,  \* VV_VAE_MAX_ITEMS
          Submits,    \* jobs passed to vv_frontend_submit
          Runs,       \* sequences of jobs passed to vv_frontend_run
          MaxCalls    \* bound on calls

JobKind == [stream : BOOLEAN, len : Nat, final : BOOLEAN, skip : Nat]

ASSUME FrontendAssumption ==
    /\ IsFiniteSet(Slot)
    /\ Cap \in Nat \ {0, 1, 2, 3}
    /\ MaxItems \in Nat \ {0} /\ MaxActive \in Nat \ {0}
    /\ MaxItems <= MaxActive
    /\ Submits \subseteq JobKind /\ Runs \subseteq Seq(JobKind)
    /\ MaxCalls \in Nat

MaxBatch == Max({1} \cup {Len(r) : r \in Runs})
Job == Slot \X (1..MaxBatch)

VARIABLES
    svcOn, svcStop,
    wpc,        \* the service thread
    queue,      \* q_head ..: the jobs submitted and not yet taken in
    act,        \* the service thread's active jobs, in arrival order
    fresh,      \* nf: how many of them, the last ones, are not yet admitted
    size,       \* per slot: the number of jobs of its call
    base,       \* per slot: first job of the window vv_frontend_run is at
    cpc,        \* per slot: where its call is
    answered,   \* per slot: r.done
    err,        \* per slot: first_err of a run; then what the call returned
    job,        \* per job: what was asked
    pg,         \* per job: progress and status
    enc,        \* history, per job: the units encoded, 0 for the end padding
    ctx,        \* history, per slot: what its stream has seen since a reset
    calls

service == <<svcOn, svcStop, wpc, queue, act, fresh>>
caller == <<size, base, cpc, answered, err>>
history == <<enc, ctx>>
vars == <<service, caller, job, pg, history, calls>>

Admitted == [done |-> 0, written |-> 0, started |-> FALSE, finished |-> FALSE,
             status |-> "ok"]

NoJob == [stream |-> FALSE, len |-> 0, final |-> FALSE, skip |-> 0]

Owner(j) == j[1]
Jobs(s) == [k \in 1..size[s] |-> <<s, k>>]

TypeOK ==
    /\ svcOn \in BOOLEAN /\ svcStop \in BOOLEAN
    /\ wpc \in {"off", "top", "asleep", "admit", "step", "exit"}
    /\ queue \in Seq(Job)
    /\ fresh \in 0..MaxActive
    /\ act \in Seq(Job) /\ Len(act) <= MaxActive
    /\ size \in [Slot -> 0..MaxBatch] /\ base \in [Slot -> Nat]
    /\ cpc \in [Slot -> {"idle", "asleep", "awake", "admit", "run"}]
    /\ answered \in [Slot -> BOOLEAN] /\ err \in [Slot -> BOOLEAN]
    /\ DOMAIN job = Job /\ DOMAIN pg = Job
    /\ \A j \in Job :
          /\ pg[j].done \in 0..job[j].len
          /\ pg[j].written \in 0..pg[j].done
          /\ pg[j].status \in {"ok", "error", "overflow"}

Init ==
    /\ svcOn = FALSE /\ svcStop = FALSE /\ wpc = "off"
    /\ queue = <<>> /\ act = <<>> /\ fresh = 0
    /\ size = [s \in Slot |-> 0] /\ base = [s \in Slot |-> 0]
    /\ cpc = [s \in Slot |-> "idle"]
    /\ answered = [s \in Slot |-> FALSE] /\ err = [s \in Slot |-> FALSE]
    /\ job = [j \in Job |-> NoJob]
    /\ pg = [j \in Job |-> Admitted]
    /\ enc = [j \in Job |-> <<>>]
    /\ ctx = [s \in Slot |-> <<>>]
    /\ calls = 0

-----------------------------------------------------------------------------
(* Planning one launch *)

Rem(j) == job[j].len - pg[j].done

(* Nothing new; only the end of a stream still has work.                   *)
Over(j) ==
    /\ Rem(j) = 0
    /\ ~job[j].stream \/ ~job[j].final \/ pg[j].started

(* mutant: chunks of one stream share a launch.                            *)
blockedNever(live, i) == FALSE

(* One chunk per stream per launch, and in order.                          *)
blocked(live, i) ==
    \E k \in 1..(i - 1) :
        /\ job[live[k]].stream /\ job[live[i]].stream
        /\ Owner(live[k]) = Owner(live[i])

take(j, room) ==
    IF job[j].stream /\ room < Rem(j) THEN room ELSE Rem(j)

fits(j, room) ==
    IF job[j].stream THEN Rem(j) = 0 \/ room > 0 ELSE Rem(j) <= room

(* A plan: the room left, and how much of which job goes out.              *)
add_piece(plan, j) ==
    [room |-> plan.room - take(j, plan.room),
     take |-> (j :> take(j, plan.room)) @@ plan.take]

AddIfFits(plan, j, limit) ==
    IF Cardinality(DOMAIN plan.take) < limit /\ fits(j, plan.room)
    THEN add_piece(plan, j) ELSE plan

(* mutant: nothing is kept for a stream.                                   *)
ReserveWindows(j) == IF job[j].stream THEN 0 ELSE Rem(j)

(* What the launch keeps for the oldest job.                               *)
Reserve(j) ==
    IF job[j].stream /\ Cap \div 4 < Rem(j) THEN Cap \div 4 ELSE Rem(j)

(* Those with less left than the oldest, shortest first; the oldest; the   *)
(* others as they came.                                                    *)
plan_launch(live) ==
    LET oldest == live[1]
        cand == {i \in 2..Len(live) : ~blocked(live, i)}
        left(i) == Rem(live[i])
        short == SetToSortSeq({i \in cand : left(i) < Rem(oldest)},
                     LAMBDA i, k : \/ left(i) < left(k)
                                   \/ left(i) = left(k) /\ i < k)
        long == SetToSortSeq({i \in cand : left(i) >= Rem(oldest)}, <)
        empty == [room |-> Cap - Reserve(oldest), take |-> <<>>]
        p1 == FoldLeft(LAMBDA p, i : AddIfFits(p, live[i], MaxItems - 1),
                       empty, short)
        p2 == add_piece([p1 EXCEPT !.room = @ + Reserve(oldest)], oldest)
    IN  FoldLeft(LAMBDA p, i : AddIfFits(p, live[i], MaxItems), p2, long).take

Total(plan) == FoldSet(LAMBDA j, n : n + plan[j], 0, DOMAIN plan)

-----------------------------------------------------------------------------
(* Driving launches *)

Fin(j, n) == job[j].stream => job[j].final /\ n = Rem(j)

Units(j, n) ==
    [i \in 1..n |-> pg[j].done + i] \o IF Fin(j, n) THEN <<0>> ELSE <<>>

finish_job(p, status) == [p EXCEPT !.finished = TRUE, !.status = status]

(* One piece booked: what it wrote leaves out the frames to skip.          *)
commit_piece(j, n) ==
    LET want == IF job[j].skip > pg[j].done THEN job[j].skip - pg[j].done ELSE 0
        skip == IF want > n THEN n ELSE want
        p == [pg[j] EXCEPT !.done = @ + n, !.written = @ + (n - skip),
                           !.started = TRUE]
    IN  IF p.done >= job[j].len THEN finish_job(p, "ok") ELSE p

(* launch and commit_launch.                                               *)
Book(plan, over, status) ==
    /\ pg' = [j \in Job |->
                 IF j \in over THEN finish_job(pg[j], "ok")
                 ELSE IF j \notin DOMAIN plan THEN pg[j]
                 ELSE IF status = "ok" THEN commit_piece(j, plan[j])
                 ELSE finish_job(pg[j], status)]
    /\ enc' = [j \in Job |-> IF j \in DOMAIN plan /\ status = "ok"
                             THEN enc[j] \o Units(j, plan[j]) ELSE enc[j]]
    /\ ctx' = [s \in Slot |->
                 IF \E j \in DOMAIN plan : job[j].stream /\ Owner(j) = s
                 THEN IF status # "ok" THEN <<>>
                      ELSE LET j == CHOOSE j \in DOMAIN plan :
                                        job[j].stream /\ Owner(j) = s
                           IN  ctx[s] \o [i \in DOMAIN Units(j, plan[j]) |->
                                             <<j[2], Units(j, plan[j])[i]>>]
                 ELSE ctx[s]]

Live(js) == SelectSeq(js, LAMBDA j : ~pg[j].finished /\ ~Over(j))

(* One launch over the active jobs js, if any of them has work left. It is *)
(* refused for its audio; the rows of a launch that is not are never more  *)
(* than f_max, its other bound (EncoderArena.ArenaFits).                   *)
step(js) ==
    \E plan \in {IF Live(js) = <<>> THEN <<>> ELSE plan_launch(Live(js))},
       over \in {{j \in ToSet(js) : ~pg[j].finished /\ Over(j)}} :
        \E status \in IF Total(plan) > Cap THEN {"overflow"}
                      ELSE {"ok"} \cup {"error" : j \in DOMAIN plan} :
            Book(plan, over, status)

(* admit_job: a stateless window has to fit one launch.                    *)
Refused(j) == ~job[j].stream /\ job[j].len > Cap

admit_jobs(js) ==
    pg' = [j \in Job |-> IF j \notin js THEN pg[j]
                         ELSE IF Refused(j) THEN finish_job(Admitted, "overflow")
                         ELSE Admitted]

-----------------------------------------------------------------------------
(* Calls *)

Failed(j) == pg[j].status # "ok"

(* The caller sets its jobs up, and its stream back to the start.          *)
Ask(s, kinds) ==
    /\ cpc[s] = "idle" /\ calls < MaxCalls
    /\ calls' = calls + 1
    /\ job' = [j \in Job |-> IF Owner(j) # s THEN job[j]
                             ELSE IF j[2] \in DOMAIN kinds THEN kinds[j[2]]
                             ELSE NoJob]
    /\ pg' = [j \in Job |-> IF Owner(j) = s THEN Admitted ELSE pg[j]]
    /\ enc' = [j \in Job |-> IF Owner(j) = s THEN <<>> ELSE enc[j]]
    /\ ctx' = [ctx EXCEPT ![s] = <<>>]
    /\ size' = [size EXCEPT ![s] = Len(kinds)]
    /\ err' = [err EXCEPT ![s] = FALSE]

(* run_ptrs, up to taking the lock.                                        *)
Direct(s) ==
    /\ base' = [base EXCEPT ![s] = 0]
    /\ cpc' = [cpc EXCEPT ![s] = "admit"]
    /\ UNCHANGED <<service, answered>>

(* vv_frontend_submit.  No submit may begin while the service is stopped.  *)
Submit(s) ==
    /\ \E kind \in Submits : Ask(s, <<kind>>)
    /\ svcOn => ~svcStop
    /\ IF svcOn
       THEN /\ queue' = Append(queue, <<s, 1>>)
            /\ wpc' = IF wpc = "asleep" THEN "top" ELSE wpc
            /\ answered' = [answered EXCEPT ![s] = FALSE]
            /\ cpc' = [cpc EXCEPT ![s] = "asleep"]
            /\ UNCHANGED <<svcOn, svcStop, act, fresh, base>>
       ELSE Direct(s)

(* vv_frontend_run *)
Run(s) == (\E kinds \in Runs : Ask(s, kinds)) /\ Direct(s)

(* The waiting submitter, awake: return, or wait again.                    *)
Wait(s) ==
    /\ cpc[s] = "awake"
    /\ IF answered[s]
       THEN /\ cpc' = [cpc EXCEPT ![s] = "idle"]
            /\ err' = [err EXCEPT ![s] = Failed(<<s, 1>>)]
       ELSE cpc' = [cpc EXCEPT ![s] = "asleep"] /\ UNCHANGED err
    /\ UNCHANGED <<service, size, base, answered, job, pg, history, calls>>

SpuriousWait(s) ==
    /\ cpc[s] = "asleep"
    /\ cpc' = [cpc EXCEPT ![s] = "awake"]
    /\ UNCHANGED <<service, size, base, answered, err, job, pg, history, calls>>

RunAdmit(s) ==
    /\ cpc[s] = "admit"
    /\ admit_jobs(ToSet(Jobs(s)))
    /\ cpc' = [cpc EXCEPT ![s] = "run"]
    /\ err' = [err EXCEPT ![s] = \E j \in ToSet(Jobs(s)) : Refused(j)]
    /\ UNCHANGED <<service, size, base, answered, job, history, calls>>

(* The planner looks at MaxActive jobs at a time; more go in windows.      *)
Window(s) ==
    SelectSeq(Jobs(s), LAMBDA j : base[s] < j[2] /\ j[2] <= base[s] + MaxActive)

RunStep(s) ==
    /\ cpc[s] = "run"
    /\ step(Window(s))
    /\ err' = [err EXCEPT ![s] =
                  @ \/ \E j \in ToSet(Jobs(s)) : ~Failed(j) /\ pg'[j].status # "ok"]
    /\ base' = [base EXCEPT ![s] = IF Live(Window(s)) # <<>> THEN @
                                   ELSE @ + MaxActive]
    /\ cpc' = [cpc EXCEPT ![s] = IF base'[s] >= size[s] THEN "idle" ELSE "run"]
    /\ UNCHANGED <<service, size, answered, job, calls>>

-----------------------------------------------------------------------------
(* The service thread *)

(* mutant: q_done is signalled and not broadcast.                          *)
WakeOne(done) ==
    LET asleep == {s \in Slot : cpc[s] = "asleep"}
    IN  IF done = {} \/ asleep = {} THEN UNCHANGED cpc
        ELSE \E s \in asleep : cpc' = [cpc EXCEPT ![s] = "awake"]

(* The broadcast of q_done, if anybody is done.                            *)
WakeSubmitters(done) ==
    cpc' = [s \in Slot |-> IF done # {} /\ cpc[s] = "asleep" THEN "awake"
                           ELSE cpc[s]]

(* Wake whoever is done and close the gaps; then take in what has been     *)
(* submitted since, or sleep, or leave.                                    *)
Gather ==
    /\ wpc = "top"
    /\ LET done == {Owner(j) : j \in {j \in ToSet(act) : pg[j].finished}}
           keep == SelectSeq(act, LAMBDA j : ~pg[j].finished)
           n == Min({MaxActive - Len(keep), Len(queue)})
           new == keep \o SubSeq(queue, 1, n)
       IN  /\ answered' = [s \in Slot |-> answered[s] \/ s \in done]
           /\ WakeSubmitters(done)
           /\ act' = new
           /\ queue' = SubSeq(queue, n + 1, Len(queue))
           /\ fresh' = n
           /\ wpc' = IF new = <<>> THEN IF svcStop THEN "exit" ELSE "asleep"
                     ELSE IF n > 0 THEN "admit" ELSE "step"
    /\ UNCHANGED <<svcOn, svcStop, size, base, err, job, pg, history, calls>>

SpuriousGather ==
    /\ wpc = "asleep"
    /\ wpc' = "top"
    /\ UNCHANGED <<svcOn, svcStop, queue, act, fresh, caller, job, pg, history,
                   calls>>

ServiceAdmit ==
    /\ wpc = "admit"
    /\ admit_jobs({act[i] : i \in (Len(act) - fresh + 1)..Len(act)})
    /\ wpc' = "step"
    /\ UNCHANGED <<svcOn, svcStop, queue, act, fresh, caller, job, history,
                   calls>>

ServiceStep ==
    /\ wpc = "step"
    /\ step(act)
    /\ wpc' = "top"
    /\ UNCHANGED <<svcOn, svcStop, queue, act, fresh, caller, job, calls>>

(* vv_frontend_service_start, before anybody uses the front end.           *)
ServiceStart ==
    /\ ~svcOn /\ \A s \in Slot : cpc[s] = "idle"
    /\ svcOn' = TRUE /\ svcStop' = FALSE /\ wpc' = "top"
    /\ UNCHANGED <<queue, act, fresh, caller, job, pg, history, calls>>

(* vv_frontend_service_stop: ask, then join.                               *)
ServiceStop ==
    /\ svcOn /\ ~svcStop
    /\ svcStop' = TRUE
    /\ wpc' = IF wpc = "asleep" THEN "top" ELSE wpc
    /\ UNCHANGED <<svcOn, queue, act, fresh, caller, job, pg, history, calls>>

ServiceJoin ==
    /\ svcOn /\ wpc = "exit"
    /\ svcOn' = FALSE /\ wpc' = "off"
    /\ UNCHANGED <<svcStop, queue, act, fresh, caller, job, pg, history, calls>>

-----------------------------------------------------------------------------
Service == Gather \/ ServiceAdmit \/ ServiceStep \/ ServiceJoin

Calling(s) == Wait(s) \/ RunAdmit(s) \/ RunStep(s)

Next ==
    \/ Service \/ SpuriousGather \/ ServiceStart \/ ServiceStop
    \/ \E s \in Slot : Submit(s) \/ Run(s) \/ Calling(s) \/ SpuriousWait(s)

Spec == Init /\ [][Next]_vars

(* The service thread and a calling thread are scheduled.                  *)
FairSpec == Spec /\ WF_vars(Service) /\ \A s \in Slot : WF_vars(Calling(s))

-----------------------------------------------------------------------------
(* Properties *)

Whole(j) ==
    LET ends == IF job[j].stream THEN job[j].final ELSE job[j].len > 0
    IN  [i \in 1..job[j].len |-> i] \o IF ends THEN <<0>> ELSE <<>>

(* A call that has returned tells the truth: it reports an error exactly   *)
(* when one of its jobs failed, and every other job has had all its audio  *)
(* encoded, once, in order, with the end padding once and at the end, and  *)
(* wrote the frames it did not ask to skip, however the job was cut and    *)
(* whatever it shared launches with (vv_frontend_submit, vv_frontend_run). *)
ReturnsTruth ==
    \A s \in Slot : cpc[s] = "idle" =>
        /\ err[s] = \E j \in ToSet(Jobs(s)) : Failed(j)
        /\ \A j \in ToSet(Jobs(s)) : ~Failed(j) =>
              /\ pg[j].finished
              /\ enc[j] = Whole(j)
              /\ pg[j].written = Max({0, job[j].len - job[j].skip})

(* What the stream of s has to see from its k-th job on.                   *)
AudioFrom(s, k) ==
    FlattenSeq([m \in 1..(size[s] + 1 - k) |->
        LET j == <<s, k + m - 1>>
        IN  IF ~job[j].stream THEN <<>>
            ELSE [i \in DOMAIN Whole(j) |-> <<j[2], Whole(j)[i]>>]])

(* "One chunk per stream per launch, and in order": between two resets the *)
(* encoder's carried context sees audio without a gap, a repetition or a   *)
(* swap, and from the beginning of a job, after a failed launch too        *)
(* (plan_launch, finish_job).                                              *)
StreamUnbroken ==
    \A s \in Slot : ctx[s] # <<>> =>
        \E k \in 1..size[s] : IsPrefix(ctx[s], AudioFrom(s, k))

(* The planner never makes a launch that the launch refuses: the only jobs *)
(* told VV_ERR_OVERFLOW are stateless windows larger than a launch         *)
(* (plan_launch against launch).                                           *)
OverflowIsOversize ==
    \A j \in Job : pg[j].finished /\ pg[j].status = "overflow" => Refused(j)

(* The safety of the front end: what its callers and streams are promised, *)
(* with the types the promises rest on.                                    *)
LaunchesRight == TypeOK /\ ReturnsTruth /\ StreamUnbroken /\ OverflowIsOversize

Took(j) == pg'[j].done - pg[j].done

(* "The oldest job always keeps a quarter of the launch (all of it when it *)
(* is alone), so a stream of short arrivals cannot starve a long file":    *)
(* whatever shares the launch, the oldest job goes on by that much or ends *)
(* (plan_launch).                                                          *)
OldestGoesOn ==
    wpc = "step" /\ wpc' = "top" /\ Live(act) # <<>> =>
        LET oldest == Live(act)[1]
            all == Min({Rem(oldest), Cap})
        IN  \/ pg'[oldest].finished
            \/ Took(oldest) >= IF Len(Live(act)) = 1 THEN all
                               ELSE Min({all, Cap \div 4})

(* Every call returns: no submitter sleeps through its answer, the service *)
(* never sleeps on a submitted job, and a stop lets what was submitted     *)
(* finish (service_main, vv_frontend_service_stop).                        *)
CallsReturn == \A s \in Slot : cpc[s] # "idle" ~> cpc[s] = "idle"
=============================================================================
