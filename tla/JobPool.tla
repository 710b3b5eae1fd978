------------------------------ MODULE JobPool ------------------------------
(***************************************************************************)
(* The static pool of job structures and the job ids (core/osa_worker.c),  *)
(* as active state machines use them (docs/worker_design.md, section 5):   *)
(* a machine that is told to start allocates a slot, initialises it,       *)
(* submits it, receives the job's completion event and frees it.           *)
(*                                                                         *)
(* A slot is free when its state is COMPLETED or CANCELLED, which are also *)
(* the states in which a worker or a cancel leaves a job that its machine  *)
(* still has.  Allocation, initialisation and free take no lock: they      *)
(* interleave with each other, and with the worker that reports a job's    *)
(* end under the pool's lock.                                              *)
(*                                                                         *)
(* OsaWorker models the job queue; here it is the set of the slots in it,  *)
(* and has room.  The machines' queues are bounded sequences of events,    *)
(* which is what BoundedQueue says of OsaQueue.                            *)
(***************************************************************************)
EXTENDS Integers, FiniteSets, Sequences

CONSTANTS
    Clients,     \* the state machines that use jobs of the static pool
    Workers,     \* the worker threads
    NULL,        \* the null pointer
    PoolSize,    \* OSA_JOB_POOL_SIZE
    InboxSize,   \* the capacity of a machine's message queue
    Signals      \* the signals others post; START and CANCEL mean something

ASSUME ClientsAssumption == NULL \notin Clients /\ IsFiniteSet(Clients)
ASSUME SizesAssumption == PoolSize \in Nat \ {0} /\ InboxSize \in Nat \ {0}
ASSUME SignalsAssumption == "COMPLETE" \notin Signals

VARIABLES
    state, id,         \* of each slot of g_job_pool
    target_hsm,        \* the machine that the slot's completion event goes to
    g_job_id_counter,
    queued,            \* the slots in the job queue
    pc, slot,          \* pc[c], slot[c]: where machine c is, and the slot of
                       \* its job: current_job, or the job it is freeing
    next_id,           \* next_id[c]: what ++g_job_id_counter gives c
    inbox,             \* inbox[c]: the events in the message queue of c
    job, reporting     \* job[w]: the slot that w runs, or 0; reporting: the
                       \* workers that have stored the outcome, lock held

slots == <<state, id, target_hsm>>
clients == <<pc, slot, next_id>>
workers == <<job, reporting>>
poolVars == <<state, id, target_hsm, g_job_id_counter, queued, pc, slot,
              next_id, inbox, job, reporting>>

Slots == 1 .. PoolSize

Event(signal, data) == [signal |-> signal, data |-> data]

Free(s) == state[s] \in {"COMPLETED", "CANCELLED"}

\* pool->lock is held from the end of a job until it has been reported.
Unlocked == reporting = {}

Allocating(c) == pc[c] \in {"scan", "claim", "number", "init", "renumber"}

\* The slots whose job function a worker runs.
Running == {job[w] : w \in Workers \ reporting} \ {0}

\* The job of c has ended, and c has not freed it.
Unfreed(c) ==
    pc[c] \in {"submitted", "freeing"} /\ slot[c] \notin queued \cup Running

MutantHasRoom(c) == Len(inbox[c]) + 1 < InboxSize

\* A post with timeout 0 to machine c is accepted.
HasRoom(c) == Len(inbox[c]) < InboxSize

\* The dispatcher of c takes an event from its queue.
Receive(c, signal) ==
    /\ inbox[c] # <<>>
    /\ Head(inbox[c]).signal = signal
    /\ inbox' = [inbox EXCEPT ![c] = Tail(@)]

\* init_job_pool, and machines in their idle state
PoolInit ==
    /\ state = [s \in Slots |-> "COMPLETED"]
    /\ id = [s \in Slots |-> 0]
    /\ target_hsm = [s \in Slots |-> NULL]
    /\ g_job_id_counter = 0
    /\ queued = {}
    /\ pc = [c \in Clients |-> "idle"]
    /\ slot = [c \in Clients |-> 0]
    /\ next_id = [c \in Clients |-> 0]
    /\ inbox = [c \in Clients |-> <<>>]
    /\ job = [w \in Workers |-> 0]
    /\ reporting = {}

-----------------------------------------------------------------------------
(* Events of other threads.  An event that is refused changes nothing. *)

Post(c, signal) ==
    /\ HasRoom(c)
    /\ inbox' = [inbox EXCEPT ![c] = Append(@, Event(signal, 0))]
    /\ UNCHANGED <<slots, g_job_id_counter, queued, clients, workers>>

\* The handler of the current state has no use for the event.
Ignore(c, signal) ==
    /\ \/ pc[c] = "idle" /\ signal # "START"
       \/ pc[c] = "submitted" /\ signal \notin {"CANCEL", "COMPLETE"}
    /\ Receive(c, signal)
    /\ UNCHANGED <<slots, g_job_id_counter, queued, clients, workers>>

-----------------------------------------------------------------------------
(* osa_worker_job_alloc and osa_worker_job_init, which take no lock *)

\* c calls osa_worker_job_alloc.
Begin(c) ==
    /\ pc[c] = "idle"
    /\ Receive(c, "START")
    /\ pc' = [pc EXCEPT ![c] = "scan"]
    /\ slot' = [slot EXCEPT ![c] = 1]
    /\ UNCHANGED <<slots, g_job_id_counter, queued, next_id, workers>>

\* c has no job any more.
MutantLeave(c) ==
    /\ pc' = [pc EXCEPT ![c] = "idle"]
    /\ UNCHANGED slot

Leave(c) ==
    /\ pc' = [pc EXCEPT ![c] = "idle"]
    /\ slot' = [slot EXCEPT ![c] = 0]

MutantReusable(s) == Free(s) \/ state[s] = "PENDING"

\* The test of job_pool_alloc on slot s.
Reusable(s) == Free(s)

\* The scan looks at one slot; past the last one the pool is exhausted.
Look(c) ==
    /\ pc[c] = "scan"
    /\ \/ /\ slot[c] > PoolSize
          /\ Leave(c)
       \/ /\ slot[c] <= PoolSize
          /\ Reusable(slot[c])
          /\ pc' = [pc EXCEPT ![c] = "claim"]
          /\ UNCHANGED slot
       \/ /\ slot[c] <= PoolSize
          /\ ~Reusable(slot[c])
          /\ slot' = [slot EXCEPT ![c] = @ + 1]
          /\ UNCHANGED pc
    /\ UNCHANGED <<slots, g_job_id_counter, queued, next_id, inbox, workers>>

\* The memset of the slot, and the read of the counter by get_next_job_id.
\* The memset leaves the state 0, which is OSA_JOB_PENDING.
Clear(c) ==
    /\ state' = [state EXCEPT ![slot[c]] = "PENDING"]
    /\ id' = [id EXCEPT ![slot[c]] = 0]
    /\ target_hsm' = [target_hsm EXCEPT ![slot[c]] = NULL]
    /\ next_id' = [next_id EXCEPT ![c] = g_job_id_counter + 1]

MutantAssignId(c) ==
    /\ id' = [id EXCEPT ![slot[c]] = next_id[c]]
    /\ state' = [state EXCEPT ![slot[c]] = "PENDING"]
    /\ UNCHANGED g_job_id_counter

\* The write of the counter and the assignments after the memset.
AssignId(c) ==
    /\ g_job_id_counter' = next_id[c]
    /\ id' = [id EXCEPT ![slot[c]] = next_id[c]]
    /\ state' = [state EXCEPT ![slot[c]] = "PENDING"]

Claim(c) ==
    /\ pc[c] = "claim"
    /\ Clear(c)
    /\ pc' = [pc EXCEPT ![c] = "number"]
    /\ UNCHANGED <<g_job_id_counter, queued, slot, inbox, workers>>

Number(c) ==
    /\ pc[c] = "number"
    /\ AssignId(c)
    /\ pc' = [pc EXCEPT ![c] = "init"]
    /\ UNCHANGED <<target_hsm, queued, slot, next_id, inbox, workers>>

\* osa_worker_job_init clears the slot again and takes another id.
InitJob(c) ==
    /\ pc[c] = "init"
    /\ Clear(c)
    /\ pc' = [pc EXCEPT ![c] = "renumber"]
    /\ UNCHANGED <<g_job_id_counter, queued, slot, inbox, workers>>

\* It ends, and osa_worker_pool_submit_to_hsm stores the machine in the job.
InitJobEnds(c) ==
    /\ pc[c] = "renumber"
    /\ AssignId(c)
    /\ target_hsm' = [target_hsm EXCEPT ![slot[c]] = c]
    /\ pc' = [pc EXCEPT ![c] = "ready"]
    /\ UNCHANGED <<queued, slot, next_id, inbox, workers>>

-----------------------------------------------------------------------------
(* osa_worker_pool_submit, _cancel and osa_worker_job_free *)

\* A job whose id is 0 is numbered now.  It is not unless another machine has
\* cleared its slot since.
EnsureId(c) ==
    IF id[slot[c]] = 0
    THEN /\ g_job_id_counter' = g_job_id_counter + 1
         /\ id' = [id EXCEPT ![slot[c]] = g_job_id_counter + 1]
    ELSE UNCHANGED <<id, g_job_id_counter>>

Submit(c) ==
    /\ pc[c] = "ready"
    /\ Unlocked
    /\ EnsureId(c)
    /\ state' = [state EXCEPT ![slot[c]] = "PENDING"]
    /\ queued' = queued \cup {slot[c]}
    /\ pc' = [pc EXCEPT ![c] = "submitted"]
    /\ UNCHANGED <<target_hsm, slot, next_id, inbox, workers>>

\* c receives a completion event and reads the result of the job in it.
Finish(c) ==
    /\ pc[c] = "submitted"
    /\ Receive(c, "COMPLETE")
    /\ pc' = [pc EXCEPT ![c] = "freeing"]
    /\ slot' = [slot EXCEPT ![c] = Head(inbox[c]).data]
    /\ UNCHANGED <<slots, g_job_id_counter, queued, next_id, workers>>

\* c frees this job, whoever has it by then, and is idle.
FreeJob(c) ==
    /\ pc[c] = "freeing"
    /\ state' = [state EXCEPT ![slot[c]] = "COMPLETED"]
    /\ Leave(c)
    /\ UNCHANGED <<id, target_hsm, g_job_id_counter, queued, next_id, inbox, workers>>

\* What a cancel with the id in the slot of c can take out of the job queue:
\* the first job that has this id, or nothing.
Found(c) ==
    LET Same == {s \in queued : id[s] = id[slot[c]]}
    IN  IF Same = {} THEN {{}} ELSE {{s} : s \in Same}

\* c cancels by id, and goes on waiting for a completion event.
Cancel(c) ==
    /\ pc[c] = "submitted"
    /\ Unlocked
    /\ Receive(c, "CANCEL")
    /\ \E found \in Found(c) :
           /\ queued' = queued \ found
           /\ state' = [s \in Slots |-> IF s \in found THEN "CANCELLED" ELSE state[s]]
    /\ UNCHANGED <<id, target_hsm, g_job_id_counter, clients, workers>>

-----------------------------------------------------------------------------
(* osa_worker_pool_thread *)

Take(w, s) ==
    /\ job[w] = 0
    /\ Unlocked
    /\ s \in queued
    /\ queued' = queued \ {s}
    /\ state' = [state EXCEPT ![s] = "RUNNING"]
    /\ job' = [job EXCEPT ![w] = s]
    /\ UNCHANGED <<id, target_hsm, g_job_id_counter, clients, inbox, reporting>>

\* The job function has returned; the worker locks and stores the outcome.
End(w, outcome) ==
    /\ job[w] # 0
    /\ Unlocked
    /\ state' = [state EXCEPT ![job[w]] = outcome]
    /\ reporting' = reporting \cup {w}
    /\ UNCHANGED <<id, target_hsm, g_job_id_counter, queued, clients, inbox, job>>

MutantNotify(w) ==
    LET c == target_hsm[job[w]]
    IN  IF c # NULL /\ HasRoom(c) /\ state[job[w]] # "ERROR"
        THEN inbox' = [inbox EXCEPT ![c] = Append(@, Event("COMPLETE", job[w]))]
        ELSE UNCHANGED inbox

\* The worker posts the completion event with timeout 0.
Notify(w) ==
    LET c == target_hsm[job[w]]
    IN  IF c # NULL /\ HasRoom(c)
        THEN inbox' = [inbox EXCEPT ![c] = Append(@, Event("COMPLETE", job[w]))]
        ELSE UNCHANGED inbox

Report(w) ==
    /\ w \in reporting
    /\ Notify(w)
    /\ reporting' = reporting \ {w}
    /\ job' = [job EXCEPT ![w] = 0]
    /\ UNCHANGED <<slots, g_job_id_counter, queued, clients>>

-----------------------------------------------------------------------------

PoolNext ==
    \/ \E c \in Clients :
           \/ Begin(c) \/ Look(c) \/ Claim(c) \/ Number(c)
           \/ InitJob(c) \/ InitJobEnds(c)
           \/ Submit(c) \/ Finish(c) \/ FreeJob(c) \/ Cancel(c)
           \/ \E signal \in Signals : Post(c, signal)
           \/ \E signal \in Signals \cup {"COMPLETE"} : Ignore(c, signal)
    \/ \E w \in Workers :
           \/ \E s \in Slots : Take(w, s)
           \/ \E outcome \in {"COMPLETED", "ERROR"} : End(w, outcome)
           \/ Report(w)

PoolSpec == PoolInit /\ [][PoolNext]_poolVars

\* What the machines must see to among themselves, as nothing in the pool does:
\* they allocate one at a time, while no job ends and no queued job is cancelled,
\* and only when every ended job has been freed.
Discipline ==
    /\ \A c \in Clients : Begin(c) =>
           \A d \in Clients : ~Allocating(d) /\ ~Unfreed(d)
    /\ \A w \in Workers, outcome \in {"COMPLETED", "ERROR"} : End(w, outcome) =>
           \A d \in Clients : ~Allocating(d)
    /\ \A c \in Clients : Cancel(c) /\ slot[c] \in queued =>
           \A d \in Clients : ~Allocating(d)

DisciplinedSpec == PoolInit /\ [][PoolNext /\ Discipline]_poolVars

-----------------------------------------------------------------------------
(* Correctness *)

Events == [signal : Signals, data : {0}] \cup [signal : {"COMPLETE"}, data : Slots]

\* The types of the variables.  A machine has a slot exactly while it is not
\* idle (current_job, hsm_worker.c:235-280).
PoolTypeOK ==
    /\ state \in [Slots -> {"PENDING", "RUNNING", "COMPLETED", "CANCELLED", "ERROR"}]
    /\ id \in [Slots -> Nat]
    /\ target_hsm \in [Slots -> Clients \cup {NULL}]
    /\ g_job_id_counter \in Nat
    /\ queued \subseteq Slots
    /\ pc \in [Clients -> {"idle", "scan", "claim", "number", "init", "renumber",
                           "ready", "submitted", "freeing"}]
    /\ slot \in [Clients -> 0 .. PoolSize + 1]
    /\ \A c \in Clients : /\ pc[c] = "idle" <=> slot[c] = 0
                          /\ pc[c] # "scan" => slot[c] <= PoolSize
    /\ next_id \in [Clients -> Nat]
    /\ inbox \in [Clients -> Seq(Events)]
    /\ \A c \in Clients : Len(inbox[c]) <= InboxSize
    /\ job \in [Workers -> 0 .. PoolSize]
    /\ reporting \subseteq Workers

\* A job that is queued, or that a worker runs, is not cleared under the pool's
\* hands (osa_worker.c:69-71): whoever allocates meanwhile gets another slot.
LiveJobsKeepTheirSlot ==
    [][\A c \in Clients : Claim(c) =>
           slot[c] \notin queued \cup Running]_poolVars

\* Jobs that are queued or running have different ids (osa_worker.c:33-36), so
\* that a cancel by id cannot hit another machine's job.
LiveIdsDistinct ==
    \A s, t \in queued \cup Running : id[s] = id[t] => s = t

\* Nobody but c has the job in slot s, the pool included; others may look at it.
OnlyUser(c, s) ==
    /\ s \notin queued \cup Running
    /\ \A d \in Clients \ {c} : slot[d] = s => pc[d] \in {"scan", "claim"}

\* The job in a completion event still belongs to the machine that handles the
\* event (hsm_worker.c:265-281): the result it reads is the result of its own
\* job, and when it then frees the job it frees nobody else's.
FreesOnlyItsOwn ==
    [][\A c \in Clients :
           /\ Finish(c) => Head(inbox[c]).data = slot[c] /\ OnlyUser(c, slot[c])
           /\ FreeJob(c) => OnlyUser(c, slot[c])]_poolVars
=============================================================================
