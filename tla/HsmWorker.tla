----------------------------- MODULE HsmWorker -----------------------------
(***************************************************************************)
(* The program examples/linux/hsm_worker.c: state machines that offload    *)
(* work to one worker pool.  In each round main posts SIG_WORK_START to    *)
(* the machines in turn, with a small delay in between, and then sleeps    *)
(* until the round should be over; timers post HSM_SIG_PERIOD throughout.  *)
(* A machine in state idle that receives START goes through working, where *)
(* it allocates, initialises and submits a job (JobPool), to processing;   *)
(* a completion event takes it back to idle.  JobPool's pc tells the state *)
(* of a machine: "idle", "submitted" for processing, else working.         *)
(*                                                                         *)
(* Nothing but time keeps the machines apart: main waits for nobody.  With *)
(* Paced, the delays are as long as its comments say: 100 ms are enough    *)
(* for a machine to start, and 4 s for the round to be over.  Without,     *)
(* they may end at any time.                                               *)
(***************************************************************************)
EXTENDS JobPool

CONSTANTS
    Rounds,      \* how often main goes through its loop
    Paced,       \* TRUE: 100 ms are enough for a start, 4 s for a round
    Considerate  \* TRUE: only jobs that workers have taken are cancelled

ASSUME MachinesAssumption == Clients = 1 .. Cardinality(Clients) /\ Clients # {}
ASSUME RoundsAssumption == Rounds \in Nat \ {0}
ASSUME UsersAssumption == Paced \in BOOLEAN /\ Considerate \in BOOLEAN
ASSUME EventsAssumption == {"START", "CANCEL", "PERIOD"} \subseteq Signals

VARIABLES
    open,     \* the machines whose thread has created their queue
    phase,    \* where main is
    turn,     \* the machine that main posts to next, or posted to last
    round,    \* the rounds that are over
    ticking   \* the timers are running

main == <<phase, turn, round, ticking>>
vars == <<poolVars, open, main>>

\* When main returns the process exits, and its threads with it.
Alive == phase # "ended"

Pending(c, signal) == \E i \in DOMAIN inbox[c] : inbox[c][i].signal = signal

\* The START that was posted to c has been handled, up to the submit.
Started(c) == pc[c] \in {"idle", "submitted", "freeing"} /\ ~Pending(c, "START")

\* A round is over: every machine is back in idle, and no job is left.
Quiet ==
    /\ open = Clients
    /\ \A c \in Clients :
           pc[c] = "idle" /\ ~Pending(c, "START") /\ ~Pending(c, "COMPLETE")
    /\ queued = {}
    /\ \A w \in Workers : job[w] = 0

\* example_create: the machines are initialised to idle and their dispatcher
\* threads started, which have yet to create their queues.
MachinesCreated == pc = [c \in Clients |-> "idle"] /\ open = {}

\* The pool and the machines are set up, and osa_hsm_active_period has started
\* the timers.
Init ==
    /\ PoolInit
    /\ MachinesCreated
    /\ phase = "post"
    /\ turn = 1
    /\ round = 0
    /\ ticking = TRUE

-----------------------------------------------------------------------------
(* The machines: osa_hsm_active_run and the handlers *)

\* After the entry action of idle the dispatcher creates its queue.
Open(c) ==
    /\ Alive
    /\ c \notin open
    /\ open' = open \cup {c}
    /\ UNCHANGED <<poolVars, main>>

\* One step of the dispatcher of c: an event, or a step of the entry action of
\* working, which runs inside the handler of START.
Handle(c) ==
    /\ Alive
    /\ c \in open
    /\ \/ Begin(c) \/ Look(c) \/ Claim(c) \/ Number(c)
       \/ InitJob(c) \/ InitJobEnds(c) \/ Submit(c)
       \/ Finish(c) \/ FreeJob(c)
       \/ Cancel(c)
       \/ \E signal \in Signals \cup {"COMPLETE"} : Ignore(c, signal)
    /\ UNCHANGED <<open, main>>

-----------------------------------------------------------------------------
(* The worker threads *)

TakeJob(w) ==
    /\ Alive /\ phase # "stopping"
    /\ \E s \in Slots : Take(w, s)
    /\ UNCHANGED <<open, main>>

\* simulate_heavy_computation takes 2.5 s: with Paced, all the starts of the
\* round have been handled when it ends.
EndJob(w) ==
    /\ Alive
    /\ Paced => phase = "sleep" /\ \A c \in Clients : Started(c)
    /\ \E outcome \in {"COMPLETED", "ERROR"} : End(w, outcome)
    /\ UNCHANGED <<open, main>>

ReportJob(w) ==
    /\ Alive
    /\ Report(w)
    /\ UNCHANGED <<open, main>>

-----------------------------------------------------------------------------
(* Timers and the user *)

\* HSM_SIG_PERIOD, once a second: with Paced, the last one has been handled.
Tick(c) ==
    /\ Alive /\ ticking
    /\ c \in open
    /\ Paced => ~Pending(c, "PERIOD")
    /\ Post(c, "PERIOD")
    /\ UNCHANGED <<open, main>>

\* A user posts SIG_WORK_CANCEL; main never does.  A user who is Considerate
\* does so for a job that a worker has taken, as one of the four does at once,
\* and not again until it has been handled.
AskCancel(c) ==
    /\ Alive
    /\ c \in open
    /\ Considerate => /\ pc[c] = "submitted" /\ slot[c] \notin queued
                      /\ ~Pending(c, "CANCEL")
    /\ Post(c, "CANCEL")
    /\ UNCHANGED <<open, main>>

-----------------------------------------------------------------------------
(* main *)

\* example_post_event.  The result is not looked at: a START for a machine that
\* has no queue yet, or whose queue is full, is lost.
PostStart ==
    /\ phase = "post"
    /\ IF turn \in open /\ HasRoom(turn)
       THEN Post(turn, "START")
       ELSE UNCHANGED poolVars
    /\ phase' = IF turn = Cardinality(Clients) THEN "sleep" ELSE "delay"
    /\ UNCHANGED <<open, turn, round, ticking>>

MutantDelayEnds ==
    /\ phase = "delay"
    /\ phase' = "post"
    /\ turn' = turn + 1
    /\ UNCHANGED <<poolVars, open, round, ticking>>

\* usleep(100000)
DelayEnds ==
    /\ phase = "delay"
    /\ Paced => Started(turn)
    /\ phase' = "post"
    /\ turn' = turn + 1
    /\ UNCHANGED <<poolVars, open, round, ticking>>

MutantRoundEnds ==
    /\ phase = "sleep"
    /\ round' = round + 1
    /\ turn' = 1
    /\ phase' = IF round' = Rounds THEN "cleanup" ELSE "post"
    /\ UNCHANGED <<poolVars, open, ticking>>

\* sleep(4), the statistics, and the next iteration.  The sleep ends whatever
\* the machines do; Paced is the assumption that the round is over by then.
RoundEnds ==
    /\ phase = "sleep"
    /\ Paced => Quiet
    /\ round' = round + 1
    /\ turn' = 1
    /\ phase' = IF round' = Rounds THEN "cleanup" ELSE "post"
    /\ UNCHANGED <<poolVars, open, ticking>>

\* osa_hsm_active_period(..., 0)
StopTimers ==
    /\ phase = "cleanup"
    /\ phase' = "stop"
    /\ ticking' = FALSE
    /\ UNCHANGED <<poolVars, open, turn, round>>

\* osa_worker_pool_stop sets the flag, and joins the workers.
StopPool ==
    /\ phase = "stop"
    /\ Unlocked
    /\ phase' = "stopping"
    /\ UNCHANGED <<poolVars, open, turn, round, ticking>>

Return ==
    /\ phase = "stopping"
    /\ \A w \in Workers : job[w] = 0
    /\ phase' = "ended"
    /\ UNCHANGED <<poolVars, open, turn, round, ticking>>

Main == PostStart \/ DelayEnds \/ RoundEnds \/ StopTimers \/ StopPool \/ Return

\* Nothing happens any more.
Exited == ~Alive /\ UNCHANGED vars

-----------------------------------------------------------------------------

Worker(w) == TakeJob(w) \/ EndJob(w) \/ ReportJob(w)

Next ==
    \/ \E c \in Clients : Open(c) \/ Handle(c) \/ Tick(c) \/ AskCancel(c)
    \/ \E w \in Workers : Worker(w)
    \/ Main
    \/ Exited

Spec == Init /\ [][Next]_vars

\* Threads are scheduled, the job function returns, and sleeps end.
Fairness ==
    /\ \A c \in Clients : WF_vars(Open(c)) /\ WF_vars(Handle(c))
    /\ \A w \in Workers : WF_vars(Worker(w))
    /\ WF_vars(Main)

FairSpec == Spec /\ Fairness

-----------------------------------------------------------------------------
(* Correctness *)

\* The types of the pool's, the machines' and main's variables.
TypeOK ==
    /\ PoolTypeOK
    /\ open \subseteq Clients
    /\ phase \in {"post", "delay", "sleep", "cleanup", "stop", "stopping", "ended"}
    /\ turn \in Clients
    /\ round \in 0 .. Rounds
    /\ ticking \in BOOLEAN

\* A machine that is processing has something to wait for: its job is in the
\* job queue, or with a worker that will tell this machine, or its completion
\* event is in its queue.  A completion is posted once, with timeout 0
\* (osa_worker.c:166), and nothing repeats it if it is refused.
NoMachineForgotten ==
    \A c \in Clients : pc[c] = "submitted" =>
        \/ slot[c] \in queued
        \/ \E w \in Workers : job[w] = slot[c] /\ target_hsm[job[w]] = c
        \/ \E i \in DOMAIN inbox[c] : inbox[c][i] = Event("COMPLETE", slot[c])

\* A machine that begins to work is idle again some time later
\* (hsm_worker.c:210-281): the scan for a job structure ends, the job is taken,
\* whatever it returns is reported, and the event is handled, whatever ticks
\* come in between, and cancels of the running job.
WorkIsDone == \A c \in Clients : pc[c] # "idle" ~> pc[c] = "idle"

\* The delays of main (hsm_worker.c:454-458) are all the discipline there is,
\* and they suffice: no machine allocates while another does, while a job ends
\* or a queued one is cancelled, or while an ended job is still to be freed
\* (osa_worker.c:68-75).
ImplementsJobPool == DisciplinedSpec
=============================================================================
