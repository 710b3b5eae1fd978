-------------------------- MODULE HsmWorkerProofs --------------------------
(***************************************************************************)
(* Proofs about the static job pool and the program that uses it, for any  *)
(* number of machines, workers, job structures, events and rounds.         *)
(***************************************************************************)
EXTENDS HsmWorker, SequenceFacts, FiniteSetTheorems, TLAPS

-----------------------------------------------------------------------------
(* The invariant of the job pool under the discipline *)

\* The job structure slot[c] is the one of c: it has claimed it.
Has(c) == pc[c] \in {"number", "init", "renumber", "ready", "submitted", "freeing"}

\* The machine that the job in slot s will be reported to waits for this job.
Owned(s) ==
    /\ target_hsm[s] \in Clients
    /\ pc[target_hsm[s]] = "submitted"
    /\ slot[target_hsm[s]] = s

\* Slot s is neither in the job queue nor with a worker.
Untouched(s) == s \notin queued /\ \A w \in Workers : job[w] # s

\* No two machines have one slot.
OneOwner ==
    \A c, d \in Clients : Has(c) /\ Has(d) /\ slot[c] = slot[d] => c = d

\* The job of c has ended, as Unfreed says.
Ended(c) ==
    /\ pc[c] \in {"submitted", "freeing"} /\ slot[c] \notin queued
    /\ \A w \in Workers \ reporting : job[w] # slot[c]

\* Who allocates is alone, and nobody has an ended job meanwhile.
OneAllocates ==
    \A c, d \in Clients : Allocating(c) => ~Ended(d) /\ (Allocating(d) => c = d)

\* What the state of a slot says of it.
StatesTell ==
    /\ \A c \in Clients :
           /\ pc[c] = "claim" => Free(slot[c])
           /\ pc[c] \in {"number", "init", "renumber", "ready"} =>
                  state[slot[c]] = "PENDING" /\ Untouched(slot[c])
    /\ \A s \in queued : state[s] = "PENDING"
    /\ \A w \in Workers \ reporting : job[w] # 0 => state[job[w]] = "RUNNING"

\* A job in the hands of the pool is in one place, and its machine waits for it.
JobsOwned ==
    /\ \A c \in Clients : pc[c] = "ready" => target_hsm[slot[c]] = c
    /\ \A s \in queued : Owned(s)
    /\ \A w \in Workers : job[w] # 0 => Owned(job[w]) /\ job[w] \notin queued
    /\ \A v, w \in Workers : job[v] = job[w] /\ job[w] # 0 => v = w

\* A worker that reports has a job to report.
ReportersHaveJobs == \A w \in reporting : job[w] # 0

\* A completion event is about the job of the machine that it is sent to, which
\* the pool has done with, and there is no other one.
EventsTell ==
    \A c \in Clients : \A k \in 1 .. Len(inbox[c]) :
        inbox[c][k].signal = "COMPLETE" =>
            /\ pc[c] = "submitted"
            /\ inbox[c][k].data = slot[c]
            /\ Untouched(slot[c])
            /\ \A m \in 1 .. Len(inbox[c]) :
                   inbox[c][m].signal = "COMPLETE" => m = k

\* Jobs that are ready or submitted have different ids, all of them used up.
IdsDistinct ==
    /\ \A c \in Clients :
           /\ pc[c] \in {"number", "renumber"} => next_id[c] = g_job_id_counter + 1
           /\ pc[c] \in {"ready", "submitted"} => id[slot[c]] \in 1 .. g_job_id_counter
    /\ \A c, d \in Clients :
           /\ pc[c] \in {"ready", "submitted"} /\ pc[d] \in {"ready", "submitted"}
           /\ id[slot[c]] = id[slot[d]]
           => c = d

PoolInv ==
    /\ PoolTypeOK /\ ReportersHaveJobs
    /\ OneOwner
    /\ OneAllocates
    /\ StatesTell
    /\ JobsOwned
    /\ EventsTell
    /\ IdsDistinct

-----------------------------------------------------------------------------
(* The invariant of the program, when its delays are long enough *)

\* The loops of main.
MainOK ==
    /\ phase = "delay" => turn < Cardinality(Clients)
    /\ phase \in {"post", "delay", "sleep"} => round < Rounds

\* A machine is on its way from START to the submit only in its turn.
InTurn ==
    \A c \in Clients : ~Started(c) => c = turn /\ phase \in {"delay", "sleep"}

\* The machines that have not had their turn in this round are idle.
IdleBefore ==
    \A c \in Clients :
        \/ phase = "post" /\ c >= turn
        \/ phase = "delay" /\ c > turn
        \/ phase \in {"cleanup", "stop", "stopping", "ended"}
        => pc[c] = "idle"

\* A job has ended in this round only after all of them were submitted.
EndsLate ==
    (\E c \in Clients : Ended(c)) \/ reporting # {} =>
        phase = "sleep" /\ \A d \in Clients : Started(d)

\* There are never two events of one kind in a queue, and a CANCEL that is left
\* from an earlier round comes before the START.
QueuesOK ==
    \A c \in Clients : \A k \in 1 .. Len(inbox[c]) :
        /\ inbox[c][k].signal \in {"START", "CANCEL", "PERIOD", "COMPLETE"}
        /\ \A m \in 1 .. Len(inbox[c]) :
               inbox[c][m].signal = inbox[c][k].signal => m = k
        /\ inbox[c][k].signal = "CANCEL" =>
               \A m \in 1 .. Len(inbox[c]) : inbox[c][m].signal = "START" => k < m

\* A START is for an idle machine, and a CANCEL for a job that a worker has taken
\* or for no job.
SignalsTell ==
    \A c \in Clients :
        /\ Pending(c, "START") => pc[c] = "idle"
        /\ Pending(c, "CANCEL") =>
               \/ pc[c] = "idle"
               \/ pc[c] \in {"submitted", "freeing"} /\ slot[c] \notin queued

PacedInv ==
    /\ TypeOK
    /\ MainOK
    /\ PoolInv
    /\ InTurn
    /\ IdleBefore
    /\ EndsLate
    /\ QueuesOK
    /\ SignalsTell

\* A machine whose job has left the pool has the completion event in its queue.
Told ==
    \A c \in Clients :
        pc[c] = "submitted" /\ Untouched(slot[c]) => Pending(c, "COMPLETE")

-----------------------------------------------------------------------------
(* Events and queues *)

\* A completion event carries a slot, every other one carries nothing.
LEMMA EventBasics ==
    /\ \A e \in Events : e.signal \in Signals \cup {"COMPLETE"}
    /\ \A e \in Events : e.signal = "COMPLETE" => e.data \in Slots
    /\ \A signal \in Signals : Event(signal, 0) \in Events
    /\ \A s \in Slots : Event("COMPLETE", s) \in Events
    /\ \A signal, data : Event(signal, data).signal = signal /\ Event(signal,
      data).data = data
  BY SignalsAssumption DEF Events, Event

\* The queue of c before and after an event is taken from it.
LEMMA ReceiveBasics ==
    ASSUME PoolTypeOK, NEW c \in Clients, NEW signal, Receive(c, signal)
    PROVE  /\ Len(inbox[c]) \in Nat /\ Len(inbox[c]) >= 1
           /\ Head(inbox[c]) = inbox[c][1] /\ inbox[c][1] \in Events
           /\ inbox[c][1].signal = signal
           /\ inbox' \in [Clients -> Seq(Events)]
           /\ Len(inbox'[c]) = Len(inbox[c]) - 1
           /\ \A k \in 1 .. Len(inbox'[c]) : inbox'[c][k] = inbox[c][k + 1]
           /\ \A d \in Clients : d # c => inbox'[d] = inbox[d]
  <1>1. inbox \in [Clients -> Seq(Events)] /\ inbox[c] \in Seq(Events) /\ inbox[c] # << >>
    BY DEF PoolTypeOK, Receive
  <1>2. /\ Tail(inbox[c]) \in Seq(Events)
        /\ Len(Tail(inbox[c])) = Len(inbox[c]) - 1
        /\ Len(inbox[c]) >= 1
        /\ \A k \in 1 .. Len(inbox[c]) - 1 : Tail(inbox[c])[k] = inbox[c][k + 1]
    BY <1>1, TailBasics
  <1>3. Len(inbox[c]) \in Nat /\ \A k \in 1 .. Len(inbox[c]) : inbox[c][k] \in Events
    BY <1>1, SeqBasics
  <1>4. Head(inbox[c]) = inbox[c][1]
    BY <1>1, HeadTailProperties
  <1>5. inbox' = [inbox EXCEPT ![c] = Tail(inbox[c])] /\ Head(inbox[c]).signal = signal
    BY DEF Receive
  <1>6. inbox'[c] = Tail(inbox[c]) /\ inbox' \in [Clients -> Seq(Events)]
    BY <1>1, <1>2, <1>5
  <1>7. \A d \in Clients : d # c => inbox'[d] = inbox[d]
    BY <1>1, <1>5
  <1>8. inbox[c][1] \in Events
    BY <1>2, <1>3
  <1> QED BY <1>2, <1>3, <1>4, <1>5, <1>6, <1>7, <1>8

\* The queue of c before and after an event is put into it.
LEMMA AppendToInbox ==
    ASSUME PoolTypeOK, NEW c \in Clients, NEW e \in Events,
           inbox' = [inbox EXCEPT ![c] = Append(@, e)]
    PROVE  /\ Len(inbox[c]) \in Nat
           /\ inbox' \in [Clients -> Seq(Events)]
           /\ Len(inbox'[c]) = Len(inbox[c]) + 1
           /\ \A k \in 1 .. Len(inbox[c]) : inbox'[c][k] = inbox[c][k]
           /\ inbox'[c][Len(inbox[c]) + 1] = e
           /\ \A d \in Clients : d # c => inbox'[d] = inbox[d]
  <1>1. inbox \in [Clients -> Seq(Events)] /\ inbox[c] \in Seq(Events)
    BY DEF PoolTypeOK
  <1>2. /\ Append(inbox[c], e) \in Seq(Events)
        /\ Len(Append(inbox[c], e)) = Len(inbox[c]) + 1
        /\ \A k \in 1 .. Len(inbox[c]) : Append(inbox[c], e)[k] = inbox[c][k]
        /\ Append(inbox[c], e)[Len(inbox[c]) + 1] = e
    BY <1>1, AppendBasics
  <1>3. inbox'[c] = Append(inbox[c], e) /\ inbox' \in [Clients -> Seq(Events)]
    BY <1>1, <1>2
  <1>4. \A d \in Clients : d # c => inbox'[d] = inbox[d]
    BY <1>1
  <1>5. Len(inbox[c]) \in Nat
    BY <1>1, SeqBasics
  <1> QED BY <1>2, <1>3, <1>4, <1>5

\* The lengths of the queues, and what is in them.
LEMMA InboxBasics ==
    ASSUME PoolTypeOK, NEW c \in Clients
    PROVE  /\ Len(inbox[c]) \in Nat /\ Len(inbox[c]) <= InboxSize
           /\ DOMAIN inbox[c] = 1 .. Len(inbox[c])
           /\ \A k \in 1 .. Len(inbox[c]) : inbox[c][k] \in Events
  BY SeqBasics DEF PoolTypeOK

-----------------------------------------------------------------------------
(* Types *)

\* The types, by the parts that steps change.
SlotTypes ==
    /\ state \in [Slots -> {"PENDING", "RUNNING", "COMPLETED", "CANCELLED", "ERROR"}]
    /\ id \in [Slots -> Nat]
    /\ target_hsm \in [Slots -> Clients \cup {NULL}]
    /\ g_job_id_counter \in Nat
    /\ queued \subseteq Slots
MachineTypes ==
    /\ pc \in [Clients -> {"idle", "scan", "claim", "number", "init", "renumber",
                           "ready", "submitted", "freeing"}]
    /\ slot \in [Clients -> 0 .. PoolSize + 1]
    /\ \A c \in Clients : /\ pc[c] = "idle" <=> slot[c] = 0
                          /\ pc[c] # "scan" => slot[c] <= PoolSize
    /\ next_id \in [Clients -> Nat]
InboxTypes ==
    /\ inbox \in [Clients -> Seq(Events)]
    /\ \A c \in Clients : Len(inbox[c]) <= InboxSize
WorkerTypes ==
    /\ job \in [Workers -> 0 .. PoolSize]
    /\ reporting \subseteq Workers
    /\ ReportersHaveJobs

\* Together they are the types of the pool, of job structures, machines and workers.
LEMMA TypeParts ==
    /\ PoolTypeOK /\ ReportersHaveJobs <=>
           SlotTypes /\ MachineTypes /\ InboxTypes /\ WorkerTypes
    /\ (PoolTypeOK /\ ReportersHaveJobs)' <=>
           (SlotTypes /\ MachineTypes /\ InboxTypes /\ WorkerTypes)'
  BY DEF PoolTypeOK, SlotTypes, MachineTypes, InboxTypes, WorkerTypes

\* A machine that is neither idle nor scanning has a slot.
LEMMA SlotType ==
    ASSUME PoolTypeOK, NEW c \in Clients, pc[c] \notin {"idle", "scan"}
    PROVE  slot[c] \in Slots
  BY SizesAssumption DEF PoolTypeOK, Slots

\* Every step of the pool keeps the types, whatever the machines do.
LEMMA PoolTypeStep ==
    ASSUME PoolTypeOK, ReportersHaveJobs, [PoolNext]_poolVars
    PROVE  PoolTypeOK' /\ ReportersHaveJobs'
  <1> DEFINE G == (SlotTypes /\ MachineTypes /\ InboxTypes /\ WorkerTypes)'
  <1>1. SlotTypes /\ MachineTypes /\ InboxTypes /\ WorkerTypes
    BY TypeParts
  <1>2. /\ UNCHANGED <<slots, g_job_id_counter, queued>> => SlotTypes'
        /\ UNCHANGED clients => MachineTypes'
        /\ UNCHANGED inbox => InboxTypes'
        /\ UNCHANGED workers => WorkerTypes'
    BY <1>1 DEF slots, clients, workers, SlotTypes, MachineTypes, InboxTypes,
       WorkerTypes,
                ReportersHaveJobs
  <1>3. ASSUME NEW c \in Clients, NEW signal, Receive(c, signal) PROVE InboxTypes'
    <2>1. /\ inbox' \in [Clients -> Seq(Events)] /\ Len(inbox'[c]) = Len(inbox[c]) - 1
          /\ \A d \in Clients : d # c => inbox'[d] = inbox[d]
      BY <1>3, ReceiveBasics
    <2>2. InboxSize \in Nat BY SizesAssumption
    <2> QED BY <2>1, <2>2, InboxBasics DEF InboxTypes
  <1>4. ASSUME NEW c \in Clients, NEW e \in Events, HasRoom(c),
               inbox' = [inbox EXCEPT ![c] = Append(@, e)]
        PROVE  InboxTypes'
    <2>1. /\ inbox' \in [Clients -> Seq(Events)] /\ Len(inbox'[c]) = Len(inbox[c]) + 1
          /\ \A d \in Clients : d # c => inbox'[d] = inbox[d]
      BY <1>4, AppendToInbox
    <2>2. Len(inbox[c]) < InboxSize BY <1>4 DEF HasRoom
    <2>3. InboxSize \in Nat BY SizesAssumption
    <2> QED BY <2>1, <2>2, <2>3, InboxBasics DEF InboxTypes
  <1>5. ASSUME NEW c \in Clients, Begin(c) PROVE G
    <2>1. MachineTypes'
      BY <1>1, <1>5, SizesAssumption DEF Begin, MachineTypes
    <2> QED BY <1>2, <1>3, <1>5, <2>1 DEF Begin
  <1>6. ASSUME NEW c \in Clients, Look(c) PROVE G
    <2>1. pc[c] = "scan" /\ slot[c] \in 1 .. PoolSize + 1 /\ next_id' = next_id
      BY <1>1, <1>6 DEF Look, MachineTypes
    <2>2. \/ pc' = [pc EXCEPT ![c] = "idle"] /\ slot' = [slot EXCEPT ![c] = 0]
          \/ pc' = [pc EXCEPT ![c] = "claim"] /\ slot' = slot /\ slot[c] <= PoolSize
          \/ pc' = pc /\ slot' = [slot EXCEPT ![c] = @ + 1] /\ slot[c] <= PoolSize
      BY <1>6 DEF Look, Leave
    <2>3. MachineTypes'
      BY <1>1, <2>1, <2>2, SizesAssumption DEF MachineTypes
    <2> QED BY <1>2, <1>6, <2>3 DEF Look
  <1>7. ASSUME NEW c \in Clients, Claim(c) \/ InitJob(c) PROVE G
    <2>1. slot[c] \in Slots
      BY <1>7, SlotType DEF Claim, InitJob
    <2>2. SlotTypes'
      BY <1>1, <1>7, <2>1 DEF Claim, InitJob, Clear, SlotTypes
    <2>3. MachineTypes'
      BY <1>1, <1>7 DEF Claim, InitJob, Clear, MachineTypes, SlotTypes
    <2> QED BY <1>2, <1>7, <2>2, <2>3 DEF Claim, InitJob
  <1>8. ASSUME NEW c \in Clients, Number(c) \/ InitJobEnds(c) \/ Submit(c) PROVE G
    <2>1. slot[c] \in Slots
      BY <1>8, SlotType DEF Number, InitJobEnds, Submit
    <2>2. SlotTypes'
      <3>1. CASE Number(c) \/ InitJobEnds(c)
        BY <1>1, <2>1, <3>1 DEF Number, InitJobEnds, AssignId, SlotTypes, MachineTypes
      <3>2. CASE Submit(c)
        BY <1>1, <2>1, <3>2 DEF Submit, EnsureId, SlotTypes
      <3> QED BY <1>8, <3>1, <3>2
    <2>3. MachineTypes'
      BY <1>1, <1>8 DEF Number, InitJobEnds, Submit, MachineTypes
    <2> QED BY <1>2, <1>8, <2>2, <2>3 DEF Number, InitJobEnds, Submit
  <1>9. ASSUME NEW c \in Clients, Finish(c) PROVE G
    <2>1. Head(inbox[c]).data \in Slots
      BY <1>9, ReceiveBasics, EventBasics DEF Finish
    <2>2. Head(inbox[c]).data \in 0 .. PoolSize + 1 /\ Head(inbox[c]).data # 0
          /\ Head(inbox[c]).data <= PoolSize
      BY <2>1, SizesAssumption DEF Slots
    <2>3. /\ slot' = [slot EXCEPT ![c] = Head(inbox[c]).data]
          /\ pc' = [pc EXCEPT ![c] = "freeing"] /\ next_id' = next_id
      BY <1>9 DEF Finish
    <2>4. MachineTypes'
      BY <1>1, <2>2, <2>3 DEF MachineTypes
    <2> QED BY <1>2, <1>3, <1>9, <2>4 DEF Finish
  <1>20. ASSUME NEW c \in Clients, FreeJob(c) PROVE G
    <2>1. slot[c] \in Slots
      BY <1>20, SlotType DEF FreeJob
    <2>2. SlotTypes'
      BY <1>1, <1>20, <2>1 DEF FreeJob, SlotTypes
    <2>3. MachineTypes'
      BY <1>1, <1>20, SizesAssumption DEF FreeJob, Leave, MachineTypes
    <2> QED BY <1>2, <1>20, <2>2, <2>3 DEF FreeJob
  <1>10. ASSUME NEW c \in Clients, Cancel(c) PROVE G
    <2>1. SlotTypes'
      BY <1>1, <1>10 DEF Cancel, SlotTypes
    <2> QED BY <1>2, <1>3, <1>10, <2>1 DEF Cancel
  <1>11. ASSUME NEW c \in Clients, NEW signal \in Signals, Post(c, signal) PROVE G
    BY <1>2, <1>4, <1>11, EventBasics DEF Post
  <1>12. ASSUME NEW c \in Clients, NEW signal \in Signals \cup {"COMPLETE"}, Ignore(c,
                signal)
         PROVE  G
    BY <1>2, <1>3, <1>12 DEF Ignore
  <1>13. ASSUME NEW w \in Workers, NEW s \in Slots, Take(w, s) PROVE G
    <2>1. SlotTypes'
      BY <1>1, <1>13 DEF Take, SlotTypes
    <2>2. WorkerTypes'
      BY <1>1, <1>13, SizesAssumption
         DEF Take, Unlocked, WorkerTypes, ReportersHaveJobs, Slots
    <2> QED BY <1>2, <1>13, <2>1, <2>2 DEF Take
  <1>14. ASSUME NEW w \in Workers, NEW outcome \in {"COMPLETED", "ERROR"}, End(w,
                outcome)
         PROVE  G
    <2>1. SlotTypes'
      BY <1>1, <1>14 DEF End, SlotTypes
    <2>2. WorkerTypes'
      BY <1>1, <1>14 DEF End, WorkerTypes, ReportersHaveJobs
    <2> QED BY <1>2, <1>14, <2>1, <2>2 DEF End
  <1>15. ASSUME NEW w \in Workers, Report(w) PROVE G
    <2>1. job[w] \in Slots /\ target_hsm[job[w]] \in Clients \cup {NULL}
      BY <1>1, <1>15, SizesAssumption
         DEF Report, SlotTypes, WorkerTypes, ReportersHaveJobs, Slots
    <2>2. InboxTypes'
      <3>1. Event("COMPLETE", job[w]) \in Events
        BY <2>1, EventBasics
      <3> QED BY <1>2, <1>4, <1>15, <2>1, <3>1 DEF Report, Notify
    <2>3. WorkerTypes'
      BY <1>1, <1>15, SizesAssumption DEF Report, WorkerTypes, ReportersHaveJobs
    <2> QED BY <1>2, <1>15, <2>2, <2>3 DEF Report
  <1>16. ASSUME UNCHANGED poolVars PROVE G
    <2>1. /\ UNCHANGED <<slots, g_job_id_counter, queued>> /\ UNCHANGED clients
          /\ UNCHANGED inbox /\ UNCHANGED workers
      BY <1>16 DEF poolVars, slots, clients, workers
    <2> QED BY <1>2, <2>1
  <1> HIDE DEF G
  <1>17. ASSUME NEW c \in Clients,
                \/ Begin(c) \/ Look(c) \/ Claim(c) \/ Number(c)
                \/ InitJob(c) \/ InitJobEnds(c)
                \/ Submit(c) \/ Finish(c) \/ FreeJob(c) \/ Cancel(c)
                \/ \E signal \in Signals : Post(c, signal)
                \/ \E signal \in Signals \cup {"COMPLETE"} : Ignore(c, signal)
         PROVE  G
    BY <1>5, <1>6, <1>7, <1>8, <1>9, <1>10, <1>11, <1>12, <1>17, <1>20
  <1>18. ASSUME NEW w \in Workers,
                \/ \E s \in Slots : Take(w, s)
                \/ \E outcome \in {"COMPLETED", "ERROR"} : End(w, outcome)
                \/ Report(w)
         PROVE  G
    BY <1>13, <1>14, <1>15, <1>18
  <1>19. G
    BY <1>16, <1>17, <1>18 DEF PoolNext
  <1> QED BY <1>19, TypeParts DEF G

-----------------------------------------------------------------------------
(* Every step of the disciplined pool keeps the invariant *)

\* The slot that a machine claims is nobody's: no machine has it, and it is
\* neither queued nor with a worker, reporting ones included.
LEMMA ClaimIsSafe ==
    ASSUME PoolInv, NEW c \in Clients, pc[c] = "claim"
    PROVE  /\ slot[c] \in Slots /\ Untouched(slot[c])
           /\ \A d \in Clients : Has(d) => slot[d] # slot[c]
  <1> USE DEF PoolInv
  <1>1. slot[c] \in Slots /\ Free(slot[c])
    BY SlotType DEF StatesTell
  <1>2. slot[c] \notin queued
    BY <1>1 DEF StatesTell, Free
  <1>3. \A d \in Clients : ~Ended(d)
    BY DEF OneAllocates, Allocating
  <1>4. ASSUME NEW w \in Workers, job[w] = slot[c] PROVE FALSE
    <2>1. job[w] # 0 /\ Owned(job[w])
      BY <1>1, <1>4, SizesAssumption DEF JobsOwned, Slots
    <2>2. w \in reporting
      BY <1>1, <1>4, <2>1 DEF StatesTell, Free
    <2>3. \A v \in Workers \ reporting : job[v] # job[w]
      BY <2>1, <2>2 DEF JobsOwned
    <2> QED BY <1>2, <1>3, <1>4, <2>1, <2>3 DEF Owned, Ended
  <1>5. ASSUME NEW d \in Clients, Has(d), slot[d] = slot[c] PROVE FALSE
    <2>1. pc[d] \in {"submitted", "freeing"}
      BY <1>1, <1>5 DEF StatesTell, Free, Has
    <2> QED BY <1>2, <1>3, <1>4, <1>5, <2>1 DEF Ended
  <1> QED BY <1>1, <1>2, <1>4, <1>5 DEF Untouched

\* The job in a completion event is the one of the machine that receives it, and
\* nobody else's.
LEMMA FinishIsOwn ==
    ASSUME PoolInv, NEW c \in Clients, Finish(c)
    PROVE  /\ slot[c] \in Slots /\ Head(inbox[c]).data = slot[c]
           /\ Untouched(slot[c])
           /\ \A d \in Clients \ {c} : Has(d) => slot[d] # slot[c]
           /\ \A k \in 1 .. Len(inbox'[c]) : inbox'[c][k].signal # "COMPLETE"
  <1> USE DEF PoolInv
  <1>1. pc[c] = "submitted" /\ Receive(c, "COMPLETE")
    BY DEF Finish
  <1>2. /\ Len(inbox[c]) \in Nat /\ Len(inbox[c]) >= 1
        /\ Head(inbox[c]) = inbox[c][1] /\ inbox[c][1].signal = "COMPLETE"
        /\ Len(inbox'[c]) = Len(inbox[c]) - 1
        /\ \A k \in 1 .. Len(inbox'[c]) : inbox'[c][k] = inbox[c][k + 1]
    BY <1>1, ReceiveBasics
  <1>3. 1 \in 1 .. Len(inbox[c]) /\ \A k \in 1 .. Len(inbox'[c]) : k + 1 \in 1 .. Len(inbox[c])
    BY <1>2
  <1>4. /\ inbox[c][1].data = slot[c] /\ Untouched(slot[c])
        /\ \A m \in 1 .. Len(inbox[c]) : inbox[c][m].signal = "COMPLETE" => m = 1
    BY <1>2, <1>3 DEF EventsTell
  <1>5. \A k \in 1 .. Len(inbox'[c]) : inbox'[c][k].signal # "COMPLETE"
    BY <1>2, <1>3, <1>4
  <1>6. \A d \in Clients \ {c} : Has(d) => slot[d] # slot[c]
    BY <1>1 DEF OneOwner, Has
  <1>7. slot[c] \in Slots
    BY <1>1, SlotType
  <1> QED BY <1>2, <1>4, <1>5, <1>6, <1>7

\* The job that a machine is freeing is nobody else's either.
LEMMA FreeIsOwn ==
    ASSUME PoolInv, NEW c \in Clients, pc[c] = "freeing"
    PROVE  /\ slot[c] \in Slots
           /\ Untouched(slot[c])
           /\ \A d \in Clients \ {c} : Has(d) => slot[d] # slot[c]
  <1> USE DEF PoolInv
  <1>1. slot[c] \in Slots
    BY SlotType
  <1>2. \A d \in Clients \ {c} : Has(d) => slot[d] # slot[c]
    BY DEF OneOwner, Has
  <1>3. ~Owned(slot[c])
    BY <1>2 DEF Owned, Has
  <1>4. slot[c] # 0
    BY <1>1, SizesAssumption DEF Slots
  <1>5. Untouched(slot[c])
    BY <1>3, <1>4 DEF Untouched, JobsOwned
  <1> QED BY <1>1, <1>2, <1>5

\* A job that is submitted has an id.
LEMMA SubmitHasId ==
    ASSUME PoolInv, NEW c \in Clients, Submit(c)
    PROVE  UNCHANGED <<id, g_job_id_counter>>
  <1>1. id[slot[c]] \in 1 .. g_job_id_counter /\ g_job_id_counter \in Nat
    BY DEF PoolInv, IdsDistinct, PoolTypeOK, Submit
  <1>2. id[slot[c]] # 0
    BY <1>1
  <1> QED BY <1>2 DEF Submit, EnsureId

\* A cancel by id removes the job of the machine that asks, if it is queued, and
\* otherwise nothing.
LEMMA CancelIsOwn ==
    ASSUME PoolInv, NEW c \in Clients, Cancel(c)
    PROVE  /\ slot[c] \in Slots
           /\ queued' = queued \ {slot[c]}
           /\ slot[c] \in queued => state' = [state EXCEPT ![slot[c]] = "CANCELLED"]
           /\ slot[c] \notin queued => state' = state
  <1> USE DEF PoolInv
  <1>1. pc[c] = "submitted" /\ slot[c] \in Slots
    BY SlotType DEF Cancel
  <1>2. ASSUME NEW s \in queued, id[s] = id[slot[c]] PROVE s = slot[c]
    <2>1. Owned(s) BY DEF JobsOwned
    <2> QED BY <1>1, <1>2, <2>1 DEF Owned, IdsDistinct
  <1>3. PICK found \in Found(c) :
            /\ queued' = queued \ found
            /\ state' = [s \in Slots |-> IF s \in found THEN "CANCELLED" ELSE state[s]]
    BY DEF Cancel
  <1>4. state \in [Slots -> {"PENDING", "RUNNING", "COMPLETED", "CANCELLED", "ERROR"}]
    BY DEF PoolTypeOK
  <1>5. CASE slot[c] \in queued
    <2>1. found = {slot[c]}
      BY <1>2, <1>3, <1>5 DEF Found
    <2> QED BY <1>1, <1>3, <1>4, <1>5, <2>1
  <1>6. CASE slot[c] \notin queued
    <2>1. found = {}
      BY <1>2, <1>3, <1>6 DEF Found
    <2> QED BY <1>1, <1>3, <1>4, <1>6, <2>1
  <1> QED BY <1>5, <1>6

\* The scan goes to the next slot, or ends.
LEMMA LookKeeps ==
    ASSUME PoolInv, PoolTypeOK', ReportersHaveJobs', NEW c \in Clients, Look(c)
    PROVE  PoolInv'
  <1> USE DEF PoolInv, PoolTypeOK, slots, clients, workers, Reusable
  <1>1. /\ pc[c] = "scan" /\ pc'[c] \in {"idle", "scan", "claim"}
        /\ pc'[c] = "claim" => Free(slot'[c])
        /\ \A d \in Clients : d # c => pc'[d] = pc[d] /\ slot'[d] = slot[d]
        /\ UNCHANGED <<state, id, target_hsm, g_job_id_counter, queued, next_id, inbox,
                       job, reporting>>
    BY DEF Look, Leave
  <1> HIDE DEF PoolTypeOK
  <1>2. OneOwner'
    BY <1>1 DEF OneOwner, Has
  <1>3. OneAllocates'
    BY <1>1 DEF OneAllocates, Allocating, Ended
  <1>4. StatesTell'
    BY <1>1 DEF StatesTell, Has, Free, Untouched
  <1>5. JobsOwned'
    BY <1>1 DEF JobsOwned, Owned
  <1>6. EventsTell'
    BY <1>1 DEF EventsTell, Untouched
  <1>7. IdsDistinct'
    BY <1>1 DEF IdsDistinct
  <1> QED BY <1>2, <1>3, <1>4, <1>5, <1>6, <1>7

\* The memset of osa_worker_job_alloc hits a slot that is nobody's.
LEMMA ClaimKeeps ==
    ASSUME PoolInv, PoolTypeOK', ReportersHaveJobs', NEW c \in Clients, Claim(c)
    PROVE  PoolInv'
  <1> USE DEF PoolInv, PoolTypeOK, slots, clients, workers, Claim, Clear
  <1>1. /\ slot[c] \in Slots /\ Untouched(slot[c])
        /\ \A d \in Clients : Has(d) => slot[d] # slot[c]
    BY ClaimIsSafe
  <1>2. OneOwner'
    BY <1>1 DEF OneOwner, Has, Untouched
  <1>3. OneAllocates'
    BY <1>1 DEF OneAllocates, Allocating, Ended
  <1>4. StatesTell'
    BY <1>1 DEF StatesTell, Has, Free, Untouched, OneAllocates, Allocating
  <1>5. JobsOwned'
    BY <1>1 DEF JobsOwned, Owned, Has, Untouched
  <1>6. EventsTell'
    BY <1>1 DEF EventsTell, Untouched, Has
  <1>7. IdsDistinct'
    BY <1>1 DEF IdsDistinct, Has, Untouched
  <1> QED BY <1>2, <1>3, <1>4, <1>5, <1>6, <1>7

\* The first id is stored.
LEMMA NumberKeeps ==
    ASSUME PoolInv, PoolTypeOK', ReportersHaveJobs', NEW c \in Clients, Number(c)
    PROVE  PoolInv'
  <1> USE DEF PoolInv, PoolTypeOK, slots, clients, workers, Number, AssignId
  <1>1. OneOwner'
    BY DEF OneOwner, Has
  <1>2. OneAllocates'
    BY DEF OneAllocates, Allocating, Ended
  <1>3. StatesTell'
    BY DEF StatesTell, Has, Free, Untouched, OneOwner, OneAllocates, Allocating
  <1>4. JobsOwned'
    BY DEF JobsOwned, Owned, OneOwner, Has, StatesTell, Untouched
  <1>5. EventsTell'
    BY DEF EventsTell, Untouched, StatesTell
  <1>6. IdsDistinct'
    BY DEF IdsDistinct, OneOwner, Has, OneAllocates, Allocating
  <1> QED BY <1>1, <1>2, <1>3, <1>4, <1>5, <1>6

\* osa_worker_job_init clears the slot again.
LEMMA InitJobKeeps ==
    ASSUME PoolInv, PoolTypeOK', ReportersHaveJobs', NEW c \in Clients, InitJob(c)
    PROVE  PoolInv'
  <1> USE DEF PoolInv, PoolTypeOK, slots, clients, workers, InitJob, Clear
  <1>1. OneOwner'
    BY DEF OneOwner, Has
  <1>2. OneAllocates'
    BY DEF OneAllocates, Allocating, Ended
  <1>3. StatesTell'
    BY DEF StatesTell, Has, Free, Untouched, OneOwner, OneAllocates, Allocating
  <1>4. JobsOwned'
    BY DEF JobsOwned, Owned, OneOwner, Has, StatesTell, Untouched
  <1>5. EventsTell'
    BY DEF EventsTell, Untouched, StatesTell
  <1>6. IdsDistinct'
    BY DEF IdsDistinct, OneOwner, Has, OneAllocates, Allocating
  <1> QED BY <1>1, <1>2, <1>3, <1>4, <1>5, <1>6

\* The second id is stored, and the job is ready.
LEMMA InitJobEndsKeeps ==
    ASSUME PoolInv, PoolTypeOK', ReportersHaveJobs', NEW c \in Clients, InitJobEnds(c)
    PROVE  PoolInv'
  <1> USE DEF PoolInv, PoolTypeOK, slots, clients, workers, InitJobEnds, AssignId
  <1>1. OneOwner'
    BY DEF OneOwner, Has
  <1>2. OneAllocates'
    BY DEF OneAllocates, Allocating, Ended
  <1>3. StatesTell'
    BY DEF StatesTell, Has, Free, Untouched, OneOwner, OneAllocates, Allocating
  <1>4. JobsOwned'
    BY DEF JobsOwned, Owned, OneOwner, Has, StatesTell, Untouched
  <1>5. EventsTell'
    BY DEF EventsTell, Untouched, StatesTell
  <1>6. IdsDistinct'
    BY DEF IdsDistinct, OneOwner, Has, OneAllocates, Allocating
  <1> QED BY <1>1, <1>2, <1>3, <1>4, <1>5, <1>6

\* The job is queued.
LEMMA SubmitKeeps ==
    ASSUME PoolInv, PoolTypeOK', ReportersHaveJobs', NEW c \in Clients, Submit(c)
    PROVE  PoolInv'
  <1> USE SubmitHasId DEF PoolInv, PoolTypeOK, slots, clients, workers, Submit
  <1>1. OneOwner'
    BY DEF OneOwner, Has
  <1>2. OneAllocates'
    BY DEF OneAllocates, Allocating, Ended
  <1>3. StatesTell'
    BY DEF StatesTell, Has, Free, Untouched, OneOwner, JobsOwned, Owned
  <1>4. JobsOwned'
    BY DEF JobsOwned, Owned, StatesTell, Untouched, Has
  <1>5. EventsTell'
    BY DEF EventsTell, Untouched, StatesTell, Has, OneOwner
  <1>6. IdsDistinct'
    <2>1. /\ UNCHANGED <<id, g_job_id_counter, slot, next_id>>
          /\ pc[c] = "ready"
          /\ pc' = [pc EXCEPT ![c] = "submitted"]
      OBVIOUS
    <2> HIDE SubmitHasId DEF Submit
    <2>2. \A d \in Clients :
              pc'[d] \in {"ready", "submitted"} => pc[d] \in {"ready", "submitted"}
      BY <2>1
    <2>3. \A d \in Clients :
              pc'[d] \in {"number", "renumber"} => pc[d] \in {"number", "renumber"}
      BY <2>1
    <2> QED BY <2>1, <2>2, <2>3 DEF IdsDistinct
  <1> QED BY <1>1, <1>2, <1>3, <1>4, <1>5, <1>6

\* A worker takes a job.
LEMMA TakeKeeps ==
    ASSUME PoolInv, PoolTypeOK', ReportersHaveJobs', NEW w \in Workers,
           NEW s \in Slots, Take(w, s)
    PROVE  PoolInv'
  <1> USE DEF PoolInv, PoolTypeOK, slots, clients, workers, Take, Unlocked
  <1>1. OneOwner'
    BY DEF OneOwner, Has
  <1>2. OneAllocates'
    BY DEF OneAllocates, Allocating, Ended, JobsOwned
  <1>3. StatesTell'
    BY DEF StatesTell, Has, Free, Untouched, JobsOwned
  <1>4. JobsOwned'
    BY DEF JobsOwned, Owned
  <1>5. EventsTell'
    BY DEF EventsTell, Untouched
  <1>6. IdsDistinct'
    BY DEF IdsDistinct
  <1> QED BY <1>1, <1>2, <1>3, <1>4, <1>5, <1>6

\* A job function has returned, and nobody is allocating.
LEMMA EndKeeps ==
    ASSUME PoolInv, PoolTypeOK', ReportersHaveJobs', NEW w \in Workers,
           NEW outcome \in {"COMPLETED", "ERROR"}, End(w, outcome),
           \A d \in Clients : ~Allocating(d)
    PROVE  PoolInv'
  <1> USE DEF PoolInv, PoolTypeOK, slots, clients, workers, End, Unlocked
  <1>1. OneOwner'
    BY DEF OneOwner, Has
  <1>2. OneAllocates'
    BY DEF OneAllocates, Allocating, Ended, JobsOwned
  <1>3. StatesTell'
    BY DEF StatesTell, Has, Free, Untouched, JobsOwned, Allocating, ReportersHaveJobs
  <1>4. JobsOwned'
    BY DEF JobsOwned, Owned
  <1>5. EventsTell'
    BY DEF EventsTell, Untouched
  <1>6. IdsDistinct'
    BY DEF IdsDistinct
  <1> QED BY <1>1, <1>2, <1>3, <1>4, <1>5, <1>6

\* The completion events that are left when some event has been received, as long
\* as the machines that they are for still wait.
LEMMA EventsAfterReceive ==
    ASSUME PoolInv, NEW c \in Clients, NEW signal, Receive(c, signal),
           \A d \in Clients :
               /\ pc[d] = "submitted" /\ Untouched(slot[d])
               /\ \E k \in 1 .. Len(inbox'[d]) : inbox'[d][k].signal = "COMPLETE"
               => pc'[d] = "submitted" /\ slot'[d] = slot[d] /\ Untouched(slot[d])'
    PROVE  EventsTell'
  <1> USE DEF PoolInv
  <1>1. SUFFICES ASSUME NEW d \in Clients, NEW k \in 1 .. Len(inbox'[d]),
                        inbox'[d][k].signal = "COMPLETE"
                 PROVE  /\ pc'[d] = "submitted"
                        /\ inbox'[d][k].data = slot'[d]
                        /\ Untouched(slot[d])'
                        /\ \A m \in 1 .. Len(inbox'[d]) :
                               inbox'[d][m].signal = "COMPLETE" => m = k
    BY DEF EventsTell
  <1>2. CASE d = c
    <2>1. /\ Len(inbox[c]) \in Nat
          /\ Len(inbox'[c]) = Len(inbox[c]) - 1
          /\ \A m \in 1 .. Len(inbox'[c]) : inbox'[c][m] = inbox[c][m + 1]
      BY ReceiveBasics
    <2>2. \A m \in 1 .. Len(inbox'[c]) : m + 1 \in 1 .. Len(inbox[c])
      BY <2>1
    <2>3. k + 1 \in 1 .. Len(inbox[c]) /\ inbox[c][k + 1].signal = "COMPLETE"
      BY <1>1, <1>2, <2>1, <2>2
    <2>4. /\ pc[c] = "submitted" /\ inbox[c][k + 1].data = slot[c] /\ Untouched(slot[c])
          /\ \A m \in 1 .. Len(inbox[c]) : inbox[c][m].signal = "COMPLETE" => m = k + 1
      BY <2>3 DEF EventsTell
    <2>5. \A m \in 1 .. Len(inbox'[c]) : inbox'[c][m].signal = "COMPLETE" => m + 1 = k + 1
      BY <2>1, <2>2, <2>4
    <2>6. pc'[c] = "submitted" /\ slot'[c] = slot[c] /\ Untouched(slot[c])'
      BY <1>1, <1>2, <2>4
    <2>7. \A m \in 1 .. Len(inbox'[c]) : m + 1 = k + 1 => m = k
      BY <1>2, <2>1
    <2> QED BY <1>1, <1>2, <2>1, <2>4, <2>5, <2>6, <2>7
  <1>3. CASE d # c
    <2>1. inbox'[d] = inbox[d]
      BY <1>3, ReceiveBasics
    <2>2. /\ pc[d] = "submitted" /\ inbox[d][k].data = slot[d] /\ Untouched(slot[d])
          /\ \A m \in 1 .. Len(inbox[d]) : inbox[d][m].signal = "COMPLETE" => m = k
      BY <1>1, <2>1 DEF EventsTell
    <2> QED BY <1>1, <2>1, <2>2
  <1> QED BY <1>2, <1>3

\* The completion events when one more event has been posted.
LEMMA EventsAfterPost ==
    ASSUME PoolInv, NEW c \in Clients, NEW e \in Events,
           inbox' = [inbox EXCEPT ![c] = Append(@, e)],
           UNCHANGED <<pc, slot>>,
           \A s \in Slots : Untouched(s) => Untouched(s)',
           e.signal = "COMPLETE" =>
               /\ pc[c] = "submitted" /\ e.data = slot[c] /\ Untouched(slot[c])'
               /\ \A k \in 1 .. Len(inbox[c]) : inbox[c][k].signal # "COMPLETE"
    PROVE  EventsTell'
  <1> USE DEF PoolInv
  <1>1. SUFFICES ASSUME NEW d \in Clients, NEW k \in 1 .. Len(inbox'[d]),
                        inbox'[d][k].signal = "COMPLETE"
                 PROVE  /\ pc[d] = "submitted"
                        /\ inbox'[d][k].data = slot[d]
                        /\ Untouched(slot[d])'
                        /\ \A m \in 1 .. Len(inbox'[d]) :
                               inbox'[d][m].signal = "COMPLETE" => m = k
    BY DEF EventsTell, Untouched
  <1>2. /\ Len(inbox[c]) \in Nat
        /\ Len(inbox'[c]) = Len(inbox[c]) + 1
        /\ \A m \in 1 .. Len(inbox[c]) : inbox'[c][m] = inbox[c][m]
        /\ inbox'[c][Len(inbox[c]) + 1] = e
        /\ d # c => inbox'[d] = inbox[d]
    BY AppendToInbox
  <1>3. CASE d # c
    BY <1>1, <1>2, <1>3, SlotType DEF EventsTell
  <1>4. CASE d = c /\ k = Len(inbox[c]) + 1
    <2>1. \A m \in 1 .. Len(inbox'[c]) : m \in 1 .. Len(inbox[c]) \/ m = k
      BY <1>2, <1>4
    <2> QED BY <1>1, <1>2, <1>4, <2>1
  <1>5. CASE d = c /\ k # Len(inbox[c]) + 1
    <2>1. k \in 1 .. Len(inbox[c]) /\ inbox'[c][k] = inbox[c][k]
      BY <1>1, <1>2, <1>5
    <2>2. /\ pc[c] = "submitted" /\ inbox[c][k].data = slot[c] /\ Untouched(slot[c])
          /\ \A m \in 1 .. Len(inbox[c]) : inbox[c][m].signal = "COMPLETE" => m = k
      BY <1>1, <1>5, <2>1 DEF EventsTell
    <2>3. e.signal # "COMPLETE"
      BY <1>1, <1>5, <2>1
    <2>4. \A m \in 1 .. Len(inbox'[c]) : m \in 1 .. Len(inbox[c]) \/ m = Len(inbox[c]) + 1
      BY <1>2
    <2>5. Untouched(slot[c])'
      BY <2>2, SlotType
    <2> QED BY <1>1, <1>2, <1>5, <2>1, <2>2, <2>3, <2>4, <2>5
  <1> QED BY <1>3, <1>4, <1>5

\* osa_worker_job_alloc is called, by one machine at a time.
LEMMA BeginKeeps ==
    ASSUME PoolInv, PoolTypeOK', ReportersHaveJobs', NEW c \in Clients, Begin(c),
           \A d \in Clients : ~Allocating(d) /\ ~Ended(d)
    PROVE  PoolInv'
  <1> USE DEF PoolInv, PoolTypeOK, slots, clients, workers, Begin
  <1>1. OneOwner'
    BY DEF OneOwner, Has
  <1>2. OneAllocates'
    BY DEF OneAllocates, Allocating, Ended
  <1>3. StatesTell'
    BY DEF StatesTell, Has, Free, Untouched
  <1>4. JobsOwned'
    BY DEF JobsOwned, Owned
  <1>5. EventsTell'
    <2>1. Receive(c, "START") BY DEF Begin
    <2> QED BY <2>1, EventsAfterReceive DEF Untouched
  <1>6. IdsDistinct'
    BY DEF IdsDistinct
  <1> QED BY <1>1, <1>2, <1>3, <1>4, <1>5, <1>6

\* An event is dropped.
LEMMA IgnoreKeeps ==
    ASSUME PoolInv, PoolTypeOK', ReportersHaveJobs', NEW c \in Clients, NEW signal,
           Ignore(c, signal)
    PROVE  PoolInv'
  <1> USE DEF PoolInv, PoolTypeOK, slots, clients, workers, Ignore
  <1>1. OneOwner'
    BY DEF OneOwner, Has
  <1>2. OneAllocates'
    BY DEF OneAllocates, Allocating, Ended
  <1>3. StatesTell'
    BY DEF StatesTell, Has, Free, Untouched
  <1>4. JobsOwned'
    BY DEF JobsOwned, Owned
  <1>5. EventsTell'
    <2>1. Receive(c, signal) BY DEF Ignore
    <2> QED BY <2>1, EventsAfterReceive DEF Untouched
  <1>6. IdsDistinct'
    BY DEF IdsDistinct
  <1> QED BY <1>1, <1>2, <1>3, <1>4, <1>5, <1>6

\* A machine reads the result of its own job.
LEMMA FinishKeeps ==
    ASSUME PoolInv, PoolTypeOK', ReportersHaveJobs', NEW c \in Clients, Finish(c)
    PROVE  PoolInv'
  <1> USE DEF PoolInv, PoolTypeOK, slots, clients, workers
  <1>1. /\ slot[c] \in Slots /\ Head(inbox[c]).data = slot[c]
        /\ Untouched(slot[c])
        /\ \A d \in Clients \ {c} : Has(d) => slot[d] # slot[c]
        /\ \A k \in 1 .. Len(inbox'[c]) : inbox'[c][k].signal # "COMPLETE"
    BY FinishIsOwn
  <1>2. /\ pc[c] = "submitted" /\ pc' = [pc EXCEPT ![c] = "freeing"]
        /\ slot' = slot
        /\ UNCHANGED <<state, id, target_hsm, g_job_id_counter, queued, next_id,
                       job, reporting>>
    BY <1>1 DEF Finish
  <1>3. OneOwner'
    BY <1>2 DEF OneOwner, Has
  <1>4. OneAllocates'
    BY <1>1, <1>2 DEF OneAllocates, Allocating, Ended
  <1>5. StatesTell'
    BY <1>2 DEF StatesTell, Free, Untouched
  <1>6. JobsOwned'
    BY <1>1, <1>2 DEF JobsOwned, Owned, Untouched
  <1>7. EventsTell'
    <2>1. Receive(c, "COMPLETE") BY DEF Finish
    <2>2. /\ \A d \in Clients : d # c => pc'[d] = pc[d] /\ slot'[d] = slot[d]
          /\ UNCHANGED <<queued, job>>
      BY <1>2
    <2> HIDE DEF PoolTypeOK
    <2> QED BY <1>1, <2>1, <2>2, EventsAfterReceive DEF Untouched
  <1>8. IdsDistinct'
    BY <1>2 DEF IdsDistinct
  <1> QED BY <1>3, <1>4, <1>5, <1>6, <1>7, <1>8

\* A machine frees its own job.
LEMMA FreeKeeps ==
    ASSUME PoolInv, PoolTypeOK', ReportersHaveJobs', NEW c \in Clients, FreeJob(c)
    PROVE  PoolInv'
  <1> USE DEF PoolInv, PoolTypeOK, slots, clients, workers, FreeJob, Leave
  <1>1. /\ slot[c] \in Slots
        /\ Untouched(slot[c])
        /\ \A d \in Clients \ {c} : Has(d) => slot[d] # slot[c]
    BY FreeIsOwn
  <1>2. OneOwner'
    BY <1>1 DEF OneOwner, Has
  <1>3. OneAllocates'
    BY <1>1 DEF OneAllocates, Allocating, Ended
  <1>4. StatesTell'
    BY <1>1 DEF StatesTell, Has, Free, Untouched
  <1>5. JobsOwned'
    BY <1>1 DEF JobsOwned, Owned, Untouched
  <1>6. EventsTell'
    BY DEF EventsTell, Untouched
  <1>7. IdsDistinct'
    BY <1>1 DEF IdsDistinct, Has
  <1> QED BY <1>2, <1>3, <1>4, <1>5, <1>6, <1>7

\* A machine cancels its own job, and no other one.
LEMMA CancelKeeps ==
    ASSUME PoolInv, PoolTypeOK', ReportersHaveJobs', NEW c \in Clients, Cancel(c),
           slot[c] \in queued => \A d \in Clients : ~Allocating(d)
    PROVE  PoolInv'
  <1> USE DEF PoolInv, PoolTypeOK, slots, clients, workers
  <1>1. /\ slot[c] \in Slots /\ pc[c] = "submitted"
        /\ queued' = queued \ {slot[c]}
        /\ slot[c] \in queued => state' = [state EXCEPT ![slot[c]] = "CANCELLED"]
        /\ slot[c] \notin queued => state' = state
        /\ UNCHANGED <<id, target_hsm, g_job_id_counter, pc, slot, next_id, job,
          reporting>>
    BY CancelIsOwn DEF Cancel
  <1>2. OneOwner'
    BY <1>1 DEF OneOwner, Has
  <1>3. OneAllocates'
    BY <1>1 DEF OneAllocates, Allocating, Ended
  <1>4. StatesTell'
    <2>1. CASE slot[c] \notin queued
      BY <1>1, <2>1 DEF StatesTell, Has, Free, Untouched
    <2>2. CASE slot[c] \in queued
      <3>1. \A w \in Workers : job[w] # slot[c]
        BY <1>1, <2>2, SizesAssumption DEF JobsOwned, Slots
      <3>2. \A d \in Clients : Has(d) /\ pc[d] # "submitted" => slot[d] # slot[c]
        BY <1>1 DEF OneOwner, Has
      <3>3. \A d \in Clients : pc[d] # "claim"
        BY <2>2 DEF Allocating
      <3>4. \A s \in Slots : s # slot[c] => state'[s] = state[s]
        BY <1>1, <2>2
      <3>5. \A d \in Clients : Has(d) => slot[d] \in Slots
        BY SlotType DEF Has
      <3>6. queued \subseteq Slots /\ \A w \in Workers : job[w] # 0 => job[w] \in Slots
        BY SizesAssumption DEF Slots
      <3> HIDE DEF PoolTypeOK
      <3> QED BY <1>1, <2>2, <3>1, <3>2, <3>3, <3>4, <3>5, <3>6
              DEF StatesTell, Has, Free, Untouched
    <2> QED BY <2>1, <2>2
  <1>5. JobsOwned'
    BY <1>1 DEF JobsOwned, Owned, OneOwner, Has
  <1>6. EventsTell'
    <2>1. Receive(c, "CANCEL") BY DEF Cancel
    <2> QED BY <1>1, <2>1, EventsAfterReceive DEF Untouched
  <1>7. IdsDistinct'
    BY <1>1 DEF IdsDistinct
  <1> QED BY <1>2, <1>3, <1>4, <1>5, <1>6, <1>7

\* An event of another thread is queued.
LEMMA PostKeeps ==
    ASSUME PoolInv, PoolTypeOK', ReportersHaveJobs', NEW c \in Clients,
           NEW signal \in Signals, Post(c, signal)
    PROVE  PoolInv'
  <1> USE DEF PoolInv, PoolTypeOK, slots, clients, workers, Post
  <1>1. OneOwner'
    BY DEF OneOwner, Has
  <1>2. OneAllocates'
    BY DEF OneAllocates, Allocating, Ended
  <1>3. StatesTell'
    BY DEF StatesTell, Has, Free, Untouched
  <1>4. JobsOwned'
    BY DEF JobsOwned, Owned
  <1>5. EventsTell'
    <2>1. /\ Event(signal, 0) \in Events /\ Event(signal, 0).signal # "COMPLETE"
          /\ inbox' = [inbox EXCEPT ![c] = Append(@, Event(signal, 0))]
          /\ UNCHANGED <<pc, slot>>
      BY EventBasics, SignalsAssumption DEF Post
    <2>2. \A s \in Slots : Untouched(s) => Untouched(s)'
      BY DEF Post, Untouched
    <2> HIDE DEF Post, PoolTypeOK
    <2> QED BY <2>1, <2>2, EventsAfterPost
  <1>6. IdsDistinct'
    BY DEF IdsDistinct
  <1> QED BY <1>1, <1>2, <1>3, <1>4, <1>5, <1>6

\* A job is reported to the machine that waits for it.
LEMMA ReportKeeps ==
    ASSUME PoolInv, PoolTypeOK', ReportersHaveJobs', NEW w \in Workers, Report(w)
    PROVE  PoolInv'
  <1> USE DEF PoolInv, PoolTypeOK, slots, clients, workers, Report
  <1>1. /\ job[w] \in Slots /\ Owned(job[w]) /\ job[w] \notin queued
        /\ \A v \in Workers : job[v] = job[w] => v = w
    BY SizesAssumption DEF ReportersHaveJobs, JobsOwned, Slots
  <1>2. OneOwner'
    BY <1>1 DEF OneOwner, Has
  <1>3. OneAllocates'
    BY <1>1 DEF OneAllocates, Allocating, Ended
  <1>4. StatesTell'
    BY <1>1 DEF StatesTell, Has, Free, Untouched
  <1>5. JobsOwned'
    BY <1>1 DEF JobsOwned, Owned
  <1>6. EventsTell'
    <2>1. PICK c \in Clients, e \in Events :
              /\ c = target_hsm[job[w]] /\ pc[c] = "submitted" /\ slot[c] = job[w]
              /\ e = Event("COMPLETE",
                job[w]) /\ e.signal = "COMPLETE" /\ e.data = job[w]
      BY <1>1, EventBasics DEF Owned
    <2>2. /\ UNCHANGED <<pc, slot>> /\ queued' = queued /\ job' = [job EXCEPT ![w] = 0]
          /\ inbox' = inbox \/ inbox' = [inbox EXCEPT ![c] = Append(@, e)]
      BY <2>1 DEF Notify
    <2>3. \A s \in Slots : Untouched(s) => Untouched(s)'
      BY <2>2, SizesAssumption DEF Untouched, Slots
    <2>4. Untouched(slot[c])'
      BY <1>1, <2>1, <2>2, SizesAssumption DEF Untouched, Slots
    <2>5. \A k \in 1 .. Len(inbox[c]) : inbox[c][k].signal # "COMPLETE"
      BY <2>1 DEF EventsTell, Untouched
    <2> HIDE DEF Report, PoolTypeOK
    <2>6. CASE inbox' = inbox
      BY <2>2, <2>3, <2>6, SlotType DEF EventsTell
    <2>7. CASE inbox' = [inbox EXCEPT ![c] = Append(@, e)]
      BY <2>1, <2>2, <2>3, <2>4, <2>5, <2>7, EventsAfterPost
    <2> QED BY <2>2, <2>6, <2>7
  <1>7. IdsDistinct'
    BY <1>1 DEF IdsDistinct
  <1> QED BY <1>2, <1>3, <1>4, <1>5, <1>6, <1>7

\* The two ways to say that a job has ended.
LEMMA UnfreedIsEnded ==
    ASSUME PoolTypeOK, NEW c \in Clients
    PROVE  Unfreed(c) <=> Ended(c)
  <1>1. pc[c] \in {"submitted", "freeing"} => slot[c] # 0
    BY DEF PoolTypeOK
  <1> QED BY <1>1 DEF Unfreed, Ended, Running

\* The invariant holds in the initial state of the pool.
LEMMA PoolInvInit == PoolInit => PoolInv
  <1> SUFFICES ASSUME PoolInit PROVE PoolInv OBVIOUS
  <1> USE DEF PoolInit
  <1>1. PoolTypeOK
    <2>1. << >> \in Seq(Events) /\ Len(<< >>) = 0
      BY EmptySeq
    <2>2. inbox \in [Clients -> Seq(Events)] /\ \A c \in Clients : Len(inbox[c]) <= InboxSize
      BY <2>1, SizesAssumption
    <2> QED BY <2>2, SizesAssumption DEF PoolTypeOK
  <1>2. /\ ReportersHaveJobs /\ OneOwner /\ OneAllocates /\ StatesTell /\ JobsOwned
        /\ IdsDistinct
    BY DEF ReportersHaveJobs, OneOwner, OneAllocates, StatesTell, JobsOwned,
       IdsDistinct,
           Has, Allocating
  <1>3. \A c \in Clients : Len(inbox[c]) = 0
    BY EmptySeq
  <1>4. EventsTell
    BY <1>3 DEF EventsTell
  <1> QED BY <1>1, <1>2, <1>4 DEF PoolInv

\* Every step that obeys the discipline keeps the invariant.
LEMMA PoolInvStep ==
    ASSUME PoolInv, [PoolNext /\ Discipline]_poolVars
    PROVE  PoolInv'
  <1>1. PoolTypeOK' /\ ReportersHaveJobs'
    BY PoolTypeStep DEF PoolInv
  <1>2. CASE UNCHANGED poolVars
    <2>1. UNCHANGED <<state, id, target_hsm, g_job_id_counter, queued, pc, slot,
          next_id,
                      inbox, job, reporting>>
      BY <1>2 DEF poolVars
    <2> QED BY <1>1, <2>1 DEF PoolInv, OneOwner, OneAllocates, StatesTell, JobsOwned,
                EventsTell, IdsDistinct, Has, Owned, Untouched, Ended, Allocating, Free
  <1>3. ASSUME NEW c \in Clients, PoolNext, Discipline,
               \/ Begin(c) \/ Look(c) \/ Claim(c) \/ Number(c)
               \/ InitJob(c) \/ InitJobEnds(c)
               \/ Submit(c) \/ Finish(c) \/ FreeJob(c) \/ Cancel(c)
               \/ \E signal \in Signals : Post(c, signal)
               \/ \E signal \in Signals \cup {"COMPLETE"} : Ignore(c, signal)
        PROVE  PoolInv'
    <2>1. \A d \in Clients : Unfreed(d) <=> Ended(d)
      BY UnfreedIsEnded DEF PoolInv
    <2>2. Begin(c) => \A d \in Clients : ~Allocating(d) /\ ~Ended(d)
      BY <1>3, <2>1 DEF Discipline
    <2>3. Cancel(c) => (slot[c] \in queued => \A d \in Clients : ~Allocating(d))
      BY <1>3 DEF Discipline
    <2> QED BY <1>1, <1>3, <2>2, <2>3, BeginKeeps, LookKeeps, ClaimKeeps, NumberKeeps,
               InitJobKeeps, InitJobEndsKeeps, SubmitKeeps, FinishKeeps, FreeKeeps,
               CancelKeeps, PostKeeps, IgnoreKeeps
  <1>4. ASSUME NEW w \in Workers, PoolNext, Discipline,
               \/ \E s \in Slots : Take(w, s)
               \/ \E outcome \in {"COMPLETED", "ERROR"} : End(w, outcome)
               \/ Report(w)
        PROVE  PoolInv'
    <2>1. (\E outcome \in {"COMPLETED", "ERROR"} : End(w, outcome)) =>
              \A d \in Clients : ~Allocating(d)
      BY <1>4 DEF Discipline
    <2> QED BY <1>1, <1>4, <2>1, TakeKeeps, EndKeeps, ReportKeeps
  <1> QED BY <1>2, <1>3, <1>4 DEF PoolNext

\* What the invariant says of the ids of live jobs.
LEMMA LiveIdsFollow == PoolInv => LiveIdsDistinct
  <1> SUFFICES ASSUME PoolInv, NEW s \in queued \cup Running,
      NEW t \in queued \cup Running,
                      id[s] = id[t]
               PROVE  s = t
    BY DEF LiveIdsDistinct
  <1>1. Owned(s) /\ Owned(t)
    BY DEF PoolInv, JobsOwned, Running
  <1> QED BY <1>1 DEF PoolInv, Owned, IdsDistinct

\* A claim never hits a live slot.
LEMMA ClaimsFollow ==
    ASSUME PoolInv, NEW c \in Clients, Claim(c)
    PROVE  slot[c] \notin queued \cup Running
  <1>1. Untouched(slot[c])
    BY ClaimIsSafe DEF Claim
  <1> QED BY <1>1 DEF Untouched, Running

\* Nobody else uses the slot of a machine, if nobody else has it.
LEMMA OnlyUserFollows ==
    ASSUME PoolTypeOK, NEW c \in Clients, slot[c] \in Slots, Untouched(slot[c]),
           \A d \in Clients \ {c} : Has(d) => slot[d] # slot[c]
    PROVE  OnlyUser(c, slot[c])
  <1>1. \A d \in Clients \ {c} : slot[d] = slot[c] => pc[d] # "idle"
    BY SizesAssumption DEF PoolTypeOK, Slots
  <1>2. \A d \in Clients \ {c} : slot[d] = slot[c] => pc[d] \in {"scan", "claim"}
    BY <1>1 DEF PoolTypeOK, Has
  <1> QED BY <1>2 DEF OnlyUser, Untouched, Running

\* A machine reads and frees its own job only.
LEMMA FreesFollow ==
    ASSUME PoolInv, NEW c \in Clients
    PROVE  /\ Finish(c) => Head(inbox[c]).data = slot[c] /\ OnlyUser(c, slot[c])
           /\ FreeJob(c) => OnlyUser(c, slot[c])
  <1>1. PoolTypeOK
    BY DEF PoolInv
  <1>2. ASSUME Finish(c)
        PROVE  Head(inbox[c]).data = slot[c] /\ OnlyUser(c, slot[c])
    BY <1>1, <1>2, FinishIsOwn, OnlyUserFollows
  <1>3. ASSUME FreeJob(c) PROVE OnlyUser(c, slot[c])
    <2>1. pc[c] = "freeing" BY <1>3 DEF FreeJob
    <2> QED BY <1>1, <2>1, FreeIsOwn, OnlyUserFollows
  <1> QED BY <1>2, <1>3

-----------------------------------------------------------------------------
(* The disciplined pool *)

\* As long as the machines keep the discipline, no two jobs that are queued or
\* running have the same id (get_next_job_id and both of its callers), and a
\* cancel by id hits the job it is meant for.
THEOREM DisciplineKeepsIdsDistinct == DisciplinedSpec => []LiveIdsDistinct
  <1>1. PoolInv /\ [PoolNext /\ Discipline]_poolVars => PoolInv'
    BY PoolInvStep
  <1> QED BY <1>1, PoolInvInit, LiveIdsFollow, PTL DEF DisciplinedSpec

\* As long as the machines keep the discipline, job_pool_alloc never clears the
\* structure of a job that is queued or running.
THEOREM DisciplineKeepsSlots == DisciplinedSpec => LiveJobsKeepTheirSlot
  <1>1. PoolInv /\ [PoolNext /\ Discipline]_poolVars => PoolInv'
    BY PoolInvStep
  <1>2. PoolInv => \A c \in Clients : Claim(c) => slot[c] \notin queued \cup Running
    BY ClaimsFollow
  <1> QED BY <1>1, <1>2, PoolInvInit, PTL DEF DisciplinedSpec, LiveJobsKeepTheirSlot

\* As long as the machines keep the discipline, a machine that handles a
\* completion event frees its own job and nobody else's (osa_worker_job_free).
THEOREM DisciplineFreesOwn == DisciplinedSpec => FreesOnlyItsOwn
  <1>1. PoolInv /\ [PoolNext /\ Discipline]_poolVars => PoolInv'
    BY PoolInvStep
  <1>2. PoolInv => \A c \in Clients :
            /\ Finish(c) => Head(inbox[c]).data = slot[c] /\ OnlyUser(c, slot[c])
            /\ FreeJob(c) => OnlyUser(c, slot[c])
    BY FreesFollow
  <1> QED BY <1>1, <1>2, PoolInvInit, PTL DEF DisciplinedSpec, FreesOnlyItsOwn

-----------------------------------------------------------------------------
(* The program: types *)

\* What a step of main does to its own variables.
LEMMA MainKeepsTypes ==
    ASSUME TypeOK, MainOK, Main \/ UNCHANGED main
    PROVE  /\ MainOK'
           /\ phase' \in {"post", "delay", "sleep", "cleanup", "stop", "stopping",
             "ended"}
           /\ turn' \in Clients /\ round' \in 0 .. Rounds /\ ticking' \in BOOLEAN
  <1> DEFINE N == Cardinality(Clients)
  <1>1. N \in Nat /\ Clients = 1 .. N /\ 1 \in Clients
    <2>1. N \in Nat BY ClientsAssumption, FS_CardinalityType
    <2> QED BY <2>1, MachinesAssumption
  <1> HIDE DEF N
  <1>2. /\ phase \in {"post", "delay", "sleep", "cleanup", "stop", "stopping", "ended"}
        /\ turn \in 1 .. N /\ round \in 0 .. Rounds /\ ticking \in BOOLEAN
        /\ phase = "delay" => turn < N
        /\ phase \in {"post", "delay", "sleep"} => round < Rounds
        /\ Rounds \in Nat
    BY <1>1, RoundsAssumption DEF TypeOK, MainOK, N
  <1>3. CASE UNCHANGED main
    BY <1>1, <1>2, <1>3 DEF main, MainOK, N
  <1>4. CASE PostStart
    <2>1. phase = "post" /\ phase' = (IF turn = N THEN "sleep" ELSE "delay")
          /\ UNCHANGED <<turn, round, ticking>>
      BY <1>4 DEF PostStart, N
    <2> QED BY <1>1, <1>2, <2>1 DEF MainOK, N
  <1>5. CASE DelayEnds
    BY <1>1, <1>2, <1>5 DEF DelayEnds, MainOK, N
  <1>6. CASE RoundEnds
    BY <1>1, <1>2, <1>6 DEF RoundEnds, MainOK, N
  <1>7. CASE StopTimers \/ StopPool \/ Return
    BY <1>1, <1>2, <1>7 DEF StopTimers, StopPool, Return, MainOK, N
  <1> QED BY <1>3, <1>4, <1>5, <1>6, <1>7 DEF Main

\* Whatever main, the timers and the machines do is a step of the pool or leaves
\* it alone.
LEMMA ProgramUsesPool ==
    ASSUME TypeOK, [Next]_vars
    PROVE  [PoolNext]_poolVars /\ (Main \/ UNCHANGED main) /\ open' \in SUBSET Clients
  <1>1. CASE UNCHANGED vars
    BY <1>1 DEF vars, TypeOK
  <1>2. ASSUME NEW c \in Clients, Open(c) \/ Handle(c) \/ Tick(c) \/ AskCancel(c)
        PROVE  [PoolNext]_poolVars /\ UNCHANGED main /\ open' \in SUBSET Clients
    <2>1. CASE Open(c)
      BY <2>1 DEF Open, TypeOK
    <2>2. CASE Handle(c)
      BY <2>2 DEF Handle, TypeOK, PoolNext
    <2>3. CASE Tick(c) \/ AskCancel(c)
      BY <2>3, EventsAssumption DEF Tick, AskCancel, TypeOK, PoolNext
    <2> QED BY <1>2, <2>1, <2>2, <2>3
  <1>3. ASSUME NEW w \in Workers, Worker(w)
        PROVE  [PoolNext]_poolVars /\ UNCHANGED main /\ open' \in SUBSET Clients
    BY <1>3 DEF Worker, TakeJob, EndJob, ReportJob, TypeOK, PoolNext
  <1>4. CASE Main
    <2>1. CASE PostStart
      BY <2>1, <1>4, EventsAssumption DEF PostStart, TypeOK, PoolNext
    <2>2. CASE DelayEnds \/ RoundEnds \/ StopTimers \/ StopPool \/ Return
      BY <2>2, <1>4 DEF DelayEnds, RoundEnds, StopTimers, StopPool, Return, TypeOK
    <2> QED BY <1>4, <2>1, <2>2 DEF Main
  <1>5. CASE Exited
    BY <1>5 DEF Exited, vars, TypeOK
  <1> QED BY <1>1, <1>2, <1>3, <1>4, <1>5 DEF Next

\* The types, the loops of main and the reporters hold at first ...
LEMMA ProgramInit == Init => TypeOK /\ MainOK /\ PoolInv
  <1> SUFFICES ASSUME Init PROVE TypeOK /\ MainOK /\ PoolInv OBVIOUS
  <1>1. PoolInv
    BY PoolInvInit DEF Init
  <1>2. Cardinality(Clients) \in Nat
    BY ClientsAssumption, FS_CardinalityType
  <1>3. 1 \in Clients
    BY <1>2, MachinesAssumption
  <1> QED BY <1>1, <1>3, RoundsAssumption DEF Init, MachinesCreated, TypeOK, MainOK,
             PoolInv

\* ... and after every step, however long the delays are.
LEMMA ProgramTypeStep ==
    ASSUME TypeOK, MainOK, ReportersHaveJobs, [Next]_vars
    PROVE  TypeOK' /\ MainOK' /\ ReportersHaveJobs'
  <1>1. [PoolNext]_poolVars /\ (Main \/ UNCHANGED main) /\ open' \in SUBSET Clients
    BY ProgramUsesPool
  <1>2. PoolTypeOK' /\ ReportersHaveJobs'
    BY <1>1, PoolTypeStep DEF TypeOK
  <1>3. /\ MainOK'
        /\ phase' \in {"post", "delay", "sleep", "cleanup", "stop", "stopping", "ended"}
        /\ turn' \in Clients /\ round' \in 0 .. Rounds /\ ticking' \in BOOLEAN
    BY <1>1, MainKeepsTypes
  <1> QED BY <1>1, <1>2, <1>3 DEF TypeOK

\* The example's variables keep their types, with delays of any length: no scan
\* leaves the pool, no queue exceeds its capacity, main's loops stay in range.
THEOREM ProgramTypes == Spec => []TypeOK
  <1> DEFINE Inv == TypeOK /\ MainOK /\ ReportersHaveJobs
  <1>1. Init => Inv
    BY ProgramInit DEF PoolInv
  <1>2. Inv /\ [Next]_vars => Inv'
    BY ProgramTypeStep
  <1>3. Inv => TypeOK
    OBVIOUS
  <1> QED BY <1>1, <1>2, <1>3, PTL DEF Spec

-----------------------------------------------------------------------------
(* The program with long enough delays: its queues *)

\* Pending, with the positions of a queue as numbers.
LEMMA PendingBasics ==
    ASSUME PoolTypeOK, PoolTypeOK', NEW c \in Clients, NEW signal
    PROVE  /\ Pending(c, signal) <=>
                  \E k \in 1 .. Len(inbox[c]) : inbox[c][k].signal = signal
           /\ Pending(c, signal)' <=>
                  \E k \in 1 .. Len(inbox'[c]) : inbox'[c][k].signal = signal
  <1>1. inbox[c] \in Seq(Events) /\ inbox'[c] \in Seq(Events)
    BY DEF PoolTypeOK
  <1>2. DOMAIN inbox[c] = 1 .. Len(inbox[c]) /\ DOMAIN inbox'[c] = 1 .. Len(inbox'[c])
    BY <1>1, SeqBasics
  <1> QED BY <1>2 DEF Pending

\* When c has received an event there is none of this kind left in its queue, and
\* no CANCEL after a START; everything else is as before.
LEMMA QueuesAfterReceive ==
    ASSUME PoolTypeOK, PoolTypeOK', QueuesOK,
           NEW c \in Clients, NEW signal, Receive(c, signal)
    PROVE  /\ QueuesOK'
           /\ Pending(c, signal) /\ ~Pending(c, signal)'
           /\ signal = "START" => ~Pending(c, "CANCEL")'
           /\ \A d \in Clients : \A s : Pending(d, s)' => Pending(d, s)
           /\ \A d \in Clients : \A s :
                  Pending(d, s) /\ (d # c \/ s # signal) => Pending(d, s)'
  <1>1. /\ Len(inbox[c]) \in Nat /\ Len(inbox[c]) >= 1
        /\ inbox[c][1].signal = signal
        /\ Len(inbox'[c]) = Len(inbox[c]) - 1
        /\ \A k \in 1 .. Len(inbox'[c]) : inbox'[c][k] = inbox[c][k + 1]
        /\ \A d \in Clients : d # c => inbox'[d] = inbox[d]
    BY ReceiveBasics
  <1>2. \A k \in 1 .. Len(inbox'[c]) : k + 1 \in 1 .. Len(inbox[c]) /\ k + 1 # 1
    BY <1>1
  <1>3. 1 \in 1 .. Len(inbox[c])
    BY <1>1
  <1>4. \A k \in 1 .. Len(inbox[c]) : k # 1 =>
            \E m \in 1 .. Len(inbox'[c]) : k = m + 1
    <2>1. \A k \in 1 .. Len(inbox[c]) : k # 1 => k - 1 \in 1 .. Len(inbox'[c]) /\ k = (k - 1) + 1
      BY <1>1
    <2> QED BY <2>1
  <1>5. Pending(c, signal)
    BY <1>1, <1>3, PendingBasics
  <1>6. \A k \in 1 .. Len(inbox'[c]) : inbox'[c][k].signal # signal
    <2>1. \A m \in 1 .. Len(inbox[c]) : inbox[c][m].signal = inbox[c][1].signal => m = 1
      BY <1>3 DEF QueuesOK
    <2> QED BY <1>1, <1>2, <2>1
  <1>7. ~Pending(c, signal)'
    BY <1>6, PendingBasics
  <1>8. signal = "START" => ~Pending(c, "CANCEL")'
    <2>1. SUFFICES ASSUME signal = "START", NEW k \in 1 .. Len(inbox'[c]),
                          inbox'[c][k].signal = "CANCEL"
                   PROVE  FALSE
      BY PendingBasics
    <2>2. inbox[c][k + 1].signal = "CANCEL" /\ k + 1 \in 1 .. Len(inbox[c])
      BY <1>1, <1>2, <2>1
    <2>3. k + 1 < 1
      BY <1>1, <1>3, <2>1, <2>2 DEF QueuesOK
    <2> QED BY <2>3
  <1>9. \A d \in Clients : \A s : Pending(d, s)' => Pending(d, s)
    <2>1. SUFFICES ASSUME NEW d \in Clients, NEW s, NEW k \in 1 .. Len(inbox'[d]),
                          inbox'[d][k].signal = s
                   PROVE  \E m \in 1 .. Len(inbox[d]) : inbox[d][m].signal = s
      BY PendingBasics
    <2>2. CASE d # c BY <1>1, <2>1, <2>2
    <2>3. CASE d = c BY <1>1, <1>2, <2>1, <2>3
    <2> QED BY <2>2, <2>3
  <1>10. ASSUME NEW d \in Clients, NEW s, Pending(d, s), d # c \/ s # signal
         PROVE  Pending(d, s)'
    <2>1. PICK k \in 1 .. Len(inbox[d]) : inbox[d][k].signal = s
      BY <1>10, PendingBasics
    <2>2. CASE d # c
      BY <1>1, <2>1, <2>2, PendingBasics
    <2>3. CASE d = c
      <3>1. k # 1 BY <1>1, <1>10, <2>1, <2>3
      <3>2. PICK m \in 1 .. Len(inbox'[c]) : k = m + 1 BY <1>4, <2>1, <2>3, <3>1
      <3> QED BY <1>1, <2>1, <2>3, <3>2, PendingBasics
    <2> QED BY <2>2, <2>3
  <1>11. QueuesOK'
    <2>1. SUFFICES ASSUME NEW d \in Clients, NEW k \in 1 .. Len(inbox'[d])
                   PROVE  /\ inbox'[d][k].signal \in {"START", "CANCEL", "PERIOD",
                               "COMPLETE"}
                          /\ \A m \in 1 .. Len(inbox'[d]) :
                                 inbox'[d][m].signal = inbox'[d][k].signal => m = k
                          /\ inbox'[d][k].signal = "CANCEL" =>
                                 \A m \in 1 .. Len(inbox'[d]) :
                                     inbox'[d][m].signal = "START" => k < m
      BY DEF QueuesOK
    <2>2. CASE d # c
      BY <1>1, <2>2 DEF QueuesOK
    <2>3. CASE d = c
      <3>1. /\ inbox[c][k + 1].signal \in {"START", "CANCEL", "PERIOD", "COMPLETE"}
            /\ \A m \in 1 .. Len(inbox[c]) :
                   inbox[c][m].signal = inbox[c][k + 1].signal => m = k + 1
            /\ inbox[c][k + 1].signal = "CANCEL" =>
                   \A m \in 1 .. Len(inbox[c]) : inbox[c][m].signal = "START" => k + 1 < m
        BY <1>2, <2>3 DEF QueuesOK
      <3>2. \A m \in 1 .. Len(inbox'[c]) :
                /\ m + 1 = k + 1 => m = k
                /\ k + 1 < m + 1 => k < m
        BY <2>3
      <3> QED BY <1>1, <1>2, <2>3, <3>1, <3>2
    <2> QED BY <2>2, <2>3
  <1> QED BY <1>5, <1>7, <1>8, <1>9, <1>10, <1>11

\* When an event of a new kind has been posted to c, and no CANCEL behind a
\* START, the queues are still in order.
LEMMA QueuesAfterPost ==
    ASSUME PoolTypeOK, PoolTypeOK', QueuesOK, NEW c \in Clients, NEW e \in Events,
           inbox' = [inbox EXCEPT ![c] = Append(@, e)],
           e.signal \in {"START", "CANCEL", "PERIOD", "COMPLETE"},
           ~Pending(c, e.signal),
           e.signal = "CANCEL" => ~Pending(c, "START")
    PROVE  /\ QueuesOK'
           /\ \A d \in Clients : \A s :
                  Pending(d, s)' <=> Pending(d, s) \/ (d = c /\ s = e.signal)
  <1>1. /\ Len(inbox[c]) \in Nat
        /\ Len(inbox'[c]) = Len(inbox[c]) + 1
        /\ \A k \in 1 .. Len(inbox[c]) : inbox'[c][k] = inbox[c][k]
        /\ inbox'[c][Len(inbox[c]) + 1] = e
        /\ \A d \in Clients : d # c => inbox'[d] = inbox[d]
    BY AppendToInbox
  <1>2. PICK n \in Nat : n = Len(inbox[c]) + 1 /\ n = Len(inbox'[c])
    BY <1>1
  <1>3. /\ \A k \in 1 .. Len(inbox'[c]) : k \in 1 .. Len(inbox[c]) \/ k = n
        /\ \A k \in 1 .. Len(inbox[c]) : k \in 1 .. Len(inbox'[c]) /\ k < n
        /\ n \in 1 .. Len(inbox'[c])
    BY <1>1, <1>2
  <1>4. inbox'[c][n] = e
    BY <1>1, <1>2
  <1>5. ASSUME NEW d \in Clients, NEW s
        PROVE  Pending(d, s)' <=> Pending(d, s) \/ (d = c /\ s = e.signal)
    <2>1. CASE d # c
      BY <1>1, <2>1, PendingBasics
    <2>2. CASE d = c
      <3>1. (\E k \in 1 .. Len(inbox'[c]) : inbox'[c][k].signal = s) <=>
                (\E k \in 1 .. Len(inbox[c]) : inbox[c][k].signal = s) \/ s = e.signal
        BY <1>1, <1>3, <1>4
      <3> QED BY <2>2, <3>1, PendingBasics
    <2> QED BY <2>1, <2>2
  <1>6. /\ \A k \in 1 .. Len(inbox[c]) : inbox[c][k].signal # e.signal
        /\ e.signal = "CANCEL" => \A k \in 1 .. Len(inbox[c]) : inbox[c][k].signal # "START"
    BY PendingBasics
  <1>7. QueuesOK'
    <2>1. SUFFICES ASSUME NEW d \in Clients, NEW k \in 1 .. Len(inbox'[d])
                   PROVE  /\ inbox'[d][k].signal \in {"START", "CANCEL", "PERIOD",
                               "COMPLETE"}
                          /\ \A m \in 1 .. Len(inbox'[d]) :
                                 inbox'[d][m].signal = inbox'[d][k].signal => m = k
                          /\ inbox'[d][k].signal = "CANCEL" =>
                                 \A m \in 1 .. Len(inbox'[d]) :
                                     inbox'[d][m].signal = "START" => k < m
      BY DEF QueuesOK
    <2>2. CASE d # c
      BY <1>1, <2>2 DEF QueuesOK
    <2>3. CASE d = c /\ k = n
      BY <1>1, <1>3, <1>4, <1>6, <2>3
    <2>4. CASE d = c /\ k # n
      <3>1. k \in 1 .. Len(inbox[c]) /\ k < n /\ inbox'[c][k] = inbox[c][k]
        BY <1>1, <1>3, <2>4
      <3>2. /\ inbox[c][k].signal \in {"START", "CANCEL", "PERIOD", "COMPLETE"}
            /\ \A m \in 1 .. Len(inbox[c]) :
                   inbox[c][m].signal = inbox[c][k].signal => m = k
            /\ inbox[c][k].signal = "CANCEL" =>
                   \A m \in 1 .. Len(inbox[c]) : inbox[c][m].signal = "START" => k < m
        BY <3>1 DEF QueuesOK
      <3> QED BY <1>1, <1>3, <1>4, <1>6, <2>4, <3>1, <3>2
    <2> QED BY <2>2, <2>3, <2>4
  <1> QED BY <1>5, <1>7

-----------------------------------------------------------------------------
(* The program with long enough delays keeps the discipline *)

\* The 100 ms between two STARTs, the 2.5 s of a job and the 4 s of a round keep
\* the machines from allocating together, and from allocating while a job ends;
\* a cancel meets no queued job.
LEMMA PacedIsDisciplined ==
    ASSUME Paced, PacedInv, [Next]_vars
    PROVE  [PoolNext /\ Discipline]_poolVars
  <1> USE DEF PacedInv
  <1>1. [PoolNext]_poolVars
    BY ProgramUsesPool
  <1>2. ASSUME NEW c \in Clients, Begin(c), NEW d \in Clients
        PROVE  ~Allocating(d) /\ ~Unfreed(d)
    <2>1. pc[c] = "idle" /\ Pending(c, "START")
      <3>1. pc[c] = "idle" /\ inbox[c] # << >> /\ Head(inbox[c]).signal = "START"
        BY <1>2 DEF Begin, Receive
      <3>2. inbox[c] \in Seq(Events)
        BY DEF TypeOK, PoolTypeOK
      <3>3. Head(inbox[c]) = inbox[c][1] /\ 1 \in DOMAIN inbox[c]
        BY <3>1, <3>2, HeadTailProperties, SeqBasics
      <3> QED BY <3>1, <3>3 DEF Pending
    <2>2. c = turn /\ ~Started(c)
      BY <2>1 DEF InTurn, Started
    <2>3. ~Ended(d)
      BY <2>2 DEF EndsLate
    <2>4. ~Allocating(d)
      BY <2>1, <2>2 DEF InTurn, Allocating, Started
    <2> QED BY <2>3, <2>4, UnfreedIsEnded DEF TypeOK
  <1>3. ASSUME NEW w \in Workers, NEW outcome, End(w, outcome), NEW d \in Clients
        PROVE  ~Allocating(d)
    <2>1. reporting = {} /\ reporting' # reporting
      BY <1>3 DEF End, Unlocked
    <2>2. \E v \in Workers : EndJob(v)
      <3>1. ASSUME NEW c \in Clients, Open(c) \/ Handle(c) \/ Tick(c) \/ AskCancel(c)
            PROVE  reporting' = reporting
        BY <3>1 DEF Open, Handle, Tick, AskCancel, Begin, Look, Claim, Number, InitJob,
                    InitJobEnds, Submit, Finish, FreeJob, Cancel, Ignore, Post,
                    poolVars, workers
      <3>2. ASSUME Main \/ Exited \/ UNCHANGED vars PROVE reporting' = reporting
        BY <3>2 DEF Main, Exited, PostStart, DelayEnds, RoundEnds, StopTimers, StopPool,
                    Return, Post, vars, poolVars, workers
      <3>3. ASSUME NEW v \in Workers,
                   TakeJob(v) \/ ReportJob(v) PROVE reporting' = reporting
        BY <2>1, <3>3 DEF TakeJob, ReportJob, Take, Report
      <3> QED BY <2>1, <3>1, <3>2, <3>3 DEF Next, Worker
    <2> QED BY <2>2 DEF EndJob, Started, Allocating
  <1>4. ASSUME NEW c \in Clients, Cancel(c) PROVE slot[c] \notin queued
    <2>1. pc[c] = "submitted" /\ inbox[c] # << >> /\ Head(inbox[c]).signal = "CANCEL"
      BY <1>4 DEF Cancel, Receive
    <2>2. inbox[c] \in Seq(Events)
      BY DEF TypeOK, PoolTypeOK
    <2>3. Head(inbox[c]) = inbox[c][1] /\ 1 \in DOMAIN inbox[c]
      BY <2>1, <2>2, HeadTailProperties, SeqBasics
    <2>4. Pending(c, "CANCEL")
      BY <2>1, <2>3 DEF Pending
    <2> QED BY <2>1, <2>4 DEF SignalsTell
  <1>5. Discipline
    BY <1>2, <1>3, <1>4 DEF Discipline
  <1> QED BY <1>1, <1>5

\* A step that leaves main alone keeps its pace: machines that have dealt with
\* their START do not allocate, and jobs end only late in a round.
KeepsPace ==
    /\ \A d \in Clients : Started(d) => Started(d)'
    /\ \A d \in Clients : pc[d] = "idle" /\ Started(d) => pc'[d] = "idle"
    /\ (\E d \in Clients : Ended(d)') \/ reporting' # {} =>
           \/ (\E d \in Clients : Ended(d)) \/ reporting # {}
           \/ phase = "sleep" /\ \A d \in Clients : Started(d)

\* Then the invariants about the pace are kept.
LEMMA PaceKept ==
    ASSUME PacedInv, KeepsPace, UNCHANGED main
    PROVE  InTurn' /\ IdleBefore' /\ EndsLate'
  <1> USE DEF PacedInv, KeepsPace
  <1>1. InTurn'
    BY DEF InTurn, main
  <1>2. IdleBefore'
    <2>1. SUFFICES ASSUME NEW c \in Clients,
                          \/ phase = "post" /\ c >= turn
                          \/ phase = "delay" /\ c > turn
                          \/ phase \in {"cleanup", "stop", "stopping", "ended"}
                   PROVE  pc'[c] = "idle"
      BY DEF IdleBefore, main
    <2>2. pc[c] = "idle"
      BY <2>1 DEF IdleBefore
    <2>3. phase = "delay" => c # turn
      <3>1. Cardinality(Clients) \in Nat
        BY ClientsAssumption, FS_CardinalityType
      <3>2. c \in Int /\ turn \in Int
        BY <3>1, MachinesAssumption DEF TypeOK
      <3> QED BY <2>1, <3>2
    <2>4. Started(c)
      BY <2>1, <2>3 DEF InTurn
    <2> QED BY <2>2, <2>4
  <1>3. EndsLate'
    <2>1. SUFFICES ASSUME (\E c \in Clients : Ended(c)') \/ reporting' # {}
                   PROVE  phase' = "sleep" /\ \A d \in Clients : Started(d)'
      BY DEF EndsLate
    <2>2. phase = "sleep" /\ \A d \in Clients : Started(d)
      BY <2>1 DEF EndsLate
    <2> QED BY <2>2 DEF main
  <1> QED BY <1>1, <1>2, <1>3

\* osa_worker_job_alloc returns, goes on or fails, osa_worker_job_init, and the
\* submit: steps of a machine whose START has been received.
LEMMA AllocationPaces ==
    ASSUME PacedInv, NEW c \in Clients,
           \/ Look(c) \/ Claim(c) \/ Number(c) \/ InitJob(c) \/ InitJobEnds(c) \/ Submit(c)
    PROVE  KeepsPace /\ QueuesOK' /\ SignalsTell' /\ (Told => Told')
  <1> USE DEF PacedInv
  <1>1. /\ pc[c] \notin {"idle", "submitted", "freeing"}
        /\ UNCHANGED <<inbox, job, reporting>>
        /\ \A d \in Clients : d # c => pc'[d] = pc[d] /\ slot'[d] = slot[d]
        /\ \/ queued' = queued /\ pc'[c] \notin {"submitted", "freeing"}
           \/ queued' = queued \cup {slot[c]} /\ slot'[c] = slot[c] /\ pc[c] = "ready"
    BY DEF Look, Claim, Number, InitJob, InitJobEnds, Submit, Leave, workers, TypeOK,
           PoolTypeOK
  <1>2. \A d \in Clients : \A s : Pending(d, s)' <=> Pending(d, s)
    BY <1>1 DEF Pending
  <1>3. ~Started(c) /\ ~Pending(c, "START") /\ ~Pending(c, "CANCEL")
    BY <1>1 DEF Started, SignalsTell
  <1>4. KeepsPace
    <2>1. \A d \in Clients : Started(d) => d # c /\ Started(d)'
      BY <1>1, <1>2, <1>3 DEF Started
    <2>2. \A d \in Clients : Ended(d)' => Ended(d)
      BY <1>1 DEF Ended
    <2> QED BY <1>1, <2>1, <2>2 DEF KeepsPace
  <1>5. QueuesOK'
    BY <1>1 DEF QueuesOK
  <1>6. SignalsTell'
    <2>1. \A d \in Clients :
              d # c /\ pc[d] \in {"submitted", "freeing"} /\ pc[c] = "ready" =>
                  slot[d] # slot[c]
      BY DEF PoolInv, OneOwner, Has
    <2> QED BY <1>1, <1>2, <1>3, <2>1 DEF SignalsTell
  <1>7. Told => Told'
    BY <1>1, <1>2 DEF Told, Untouched
  <1> QED BY <1>4, <1>5, <1>6, <1>7

\* A START takes a machine out of idle, in its turn.
LEMMA BeginPaces ==
    ASSUME PacedInv, TypeOK', NEW c \in Clients, Begin(c)
    PROVE  KeepsPace /\ QueuesOK' /\ SignalsTell' /\ (Told => Told')
  <1> USE DEF PacedInv
  <1>1. /\ pc[c] = "idle" /\ pc'[c] = "scan" /\ Receive(c, "START")
        /\ UNCHANGED <<queued, job, reporting>>
        /\ \A d \in Clients : d # c => pc'[d] = pc[d] /\ slot'[d] = slot[d]
    BY DEF Begin, workers, TypeOK, PoolTypeOK
  <1>2. /\ QueuesOK'
        /\ Pending(c, "START") /\ ~Pending(c, "START")' /\ ~Pending(c, "CANCEL")'
        /\ \A d \in Clients : \A s : Pending(d, s)' => Pending(d, s)
        /\ \A d \in Clients : \A s : Pending(d, s) /\ d # c => Pending(d, s)'
    BY <1>1, QueuesAfterReceive DEF TypeOK
  <1>3. KeepsPace
    <2>1. \A d \in Clients : Started(d) => d # c /\ Started(d)'
      BY <1>1, <1>2 DEF Started
    <2>2. \A d \in Clients : Ended(d)' => Ended(d)
      BY <1>1 DEF Ended
    <2> QED BY <1>1, <2>1, <2>2 DEF KeepsPace
  <1>4. SignalsTell'
    BY <1>1, <1>2 DEF SignalsTell
  <1>5. Told => Told'
    BY <1>1, <1>2 DEF Told, Untouched
  <1> QED BY <1>2, <1>3, <1>4, <1>5

\* A machine handles a completion event.
LEMMA FinishPaces ==
    ASSUME PacedInv, TypeOK', NEW c \in Clients, Finish(c)
    PROVE  KeepsPace /\ QueuesOK' /\ SignalsTell' /\ (Told => Told')
  <1> USE DEF PacedInv
  <1>1. Head(inbox[c]).data = slot[c] /\ Untouched(slot[c])
    BY FinishIsOwn
  <1>2. /\ pc[c] = "submitted" /\ pc'[c] = "freeing" /\ Receive(c, "COMPLETE")
        /\ UNCHANGED <<queued, job, reporting>> /\ slot'[c] = slot[c]
        /\ \A d \in Clients : d # c => pc'[d] = pc[d] /\ slot'[d] = slot[d]
    BY <1>1 DEF Finish, workers, TypeOK, PoolTypeOK
  <1>3. /\ QueuesOK'
        /\ \A d \in Clients : \A s : Pending(d, s)' => Pending(d, s)
        /\ \A d \in Clients : \A s : Pending(d, s) /\ d # c => Pending(d, s)'
    BY <1>2, QueuesAfterReceive DEF TypeOK
  <1>4. KeepsPace
    <2>1. \A d \in Clients : Started(d) => Started(d)'
      BY <1>2, <1>3 DEF Started
    <2>2. \A d \in Clients : Ended(d)' => Ended(d)
      BY <1>2 DEF Ended
    <2> QED BY <1>2, <2>1, <2>2 DEF KeepsPace
  <1>5. SignalsTell'
    BY <1>2, <1>3 DEF SignalsTell
  <1>6. Told => Told'
    BY <1>2, <1>3 DEF Told, Untouched
  <1> QED BY <1>3, <1>4, <1>5, <1>6

\* A machine frees its job and is idle.
LEMMA FreePaces ==
    ASSUME PacedInv, NEW c \in Clients, FreeJob(c)
    PROVE  KeepsPace /\ QueuesOK' /\ SignalsTell' /\ (Told => Told')
  <1> USE DEF PacedInv
  <1>1. /\ pc[c] = "freeing" /\ pc'[c] = "idle"
        /\ UNCHANGED <<inbox, queued, job, reporting>>
        /\ \A d \in Clients : d # c => pc'[d] = pc[d] /\ slot'[d] = slot[d]
    BY DEF FreeJob, Leave, workers, TypeOK, PoolTypeOK
  <1>2. \A d \in Clients : \A s : Pending(d, s)' <=> Pending(d, s)
    BY <1>1 DEF Pending
  <1>3. KeepsPace
    <2>1. \A d \in Clients : Started(d) => Started(d)'
      BY <1>1, <1>2 DEF Started
    <2>2. \A d \in Clients : Ended(d)' => Ended(d)
      BY <1>1 DEF Ended
    <2> QED BY <1>1, <2>1, <2>2 DEF KeepsPace
  <1>4. QueuesOK' /\ SignalsTell'
    BY <1>1, <1>2 DEF QueuesOK, SignalsTell
  <1>5. Told => Told'
    BY <1>1, <1>2 DEF Told, Untouched
  <1> QED BY <1>3, <1>4, <1>5

\* A machine drops an event, or cancels a job that is not queued any more.
LEMMA DropPaces ==
    ASSUME PacedInv, TypeOK', NEW c \in Clients, NEW signal,
           Cancel(c) \/ Ignore(c, signal)
    PROVE  KeepsPace /\ QueuesOK' /\ SignalsTell' /\ (Told => Told')
  <1> USE DEF PacedInv
  <1>1. PICK got : /\ Receive(c, got)
                   /\ UNCHANGED <<pc, slot, job, reporting>>
                   /\ pc[c] = "submitted" => got # "COMPLETE"
                   /\ (got = "CANCEL" /\ Cancel(c)) \/ queued' = queued
    BY DEF Cancel, Ignore, clients, workers
  <1>2. /\ QueuesOK'
        /\ Pending(c, got)
        /\ \A d \in Clients : \A s : Pending(d, s)' => Pending(d, s)
        /\ \A d \in Clients : \A s : Pending(d, s) /\ (d # c \/ s # got) => Pending(d,
          s)'
    BY <1>1, QueuesAfterReceive DEF TypeOK
  <1>3. queued' = queued
    <2>1. CASE got = "CANCEL" /\ Cancel(c)
      <3>1. slot[c] \notin queued
        BY <1>2, <2>1 DEF SignalsTell, Cancel
      <3> QED BY <2>1, <3>1, CancelIsOwn
    <2> QED BY <1>1, <2>1
  <1>4. KeepsPace
    <2>1. \A d \in Clients : Started(d) => Started(d)'
      BY <1>1, <1>2 DEF Started
    <2>2. \A d \in Clients : Ended(d)' => Ended(d)
      BY <1>1, <1>3 DEF Ended
    <2> QED BY <1>1, <2>1, <2>2 DEF KeepsPace
  <1>5. SignalsTell'
    BY <1>1, <1>2, <1>3 DEF SignalsTell
  <1>6. Told => Told'
    BY <1>1, <1>2, <1>3 DEF Told, Untouched
  <1> QED BY <1>2, <1>4, <1>5, <1>6

\* A worker takes a job.
LEMMA TakePaces ==
    ASSUME PacedInv, NEW w \in Workers, NEW s \in Slots, Take(w, s)
    PROVE  KeepsPace /\ QueuesOK' /\ SignalsTell' /\ (Told => Told')
  <1> USE DEF PacedInv
  <1>1. /\ s \in queued /\ queued' = queued \ {s} /\ reporting = {} /\ job[w] = 0
        /\ UNCHANGED <<pc, slot, inbox, reporting>>
        /\ job'[w] = s /\ \A v \in Workers : v # w => job'[v] = job[v]
    BY DEF Take, Unlocked, clients, TypeOK, PoolTypeOK
  <1>2. \A d \in Clients : \A e : Pending(d, e)' <=> Pending(d, e)
    BY <1>1 DEF Pending
  <1>3. \A d \in Clients :
            pc[d] \in {"submitted", "freeing"} => slot[d] \in Slots /\ slot[d] # 0
    BY SlotType, SizesAssumption DEF TypeOK, Slots
  <1>4. \A d \in Clients : Ended(d)' => Ended(d)
    BY <1>1, <1>3 DEF Ended
  <1>5. KeepsPace
    BY <1>1, <1>2, <1>4 DEF KeepsPace, Started
  <1>6. QueuesOK' /\ SignalsTell'
    BY <1>1, <1>2 DEF QueuesOK, SignalsTell
  <1>7. Told => Told'
    BY <1>1, <1>2, <1>3 DEF Told, Untouched
  <1> QED BY <1>5, <1>6, <1>7

\* A job ends, late in the round.
LEMMA EndPaces ==
    ASSUME Paced, PacedInv, NEW w \in Workers, EndJob(w)
    PROVE  KeepsPace /\ QueuesOK' /\ SignalsTell' /\ (Told => Told')
  <1> USE DEF PacedInv
  <1>1. /\ phase = "sleep" /\ \A d \in Clients : Started(d)
        /\ UNCHANGED <<pc, slot, inbox, queued, job>>
    BY DEF EndJob, End, clients
  <1>2. \A d \in Clients : \A e : Pending(d, e)' <=> Pending(d, e)
    BY <1>1 DEF Pending
  <1>3. KeepsPace
    BY <1>1, <1>2 DEF KeepsPace, Started
  <1>4. QueuesOK' /\ SignalsTell' /\ (Told => Told')
    BY <1>1, <1>2 DEF QueuesOK, SignalsTell, Told, Untouched
  <1> QED BY <1>3, <1>4

\* The machine that a job is reported to waits for it, with nothing but a PERIOD
\* and a CANCEL in its queue: there is room for the completion event.
LEMMA ReportIsHeard ==
    ASSUME PacedInv, NEW w \in Workers, w \in reporting
    PROVE  \E c \in Clients :
               /\ c = target_hsm[job[w]] /\ pc[c] = "submitted" /\ slot[c] = job[w]
               /\ job[w] \in Slots
               /\ ~Pending(c, "COMPLETE") /\ ~Pending(c, "START")
               /\ Len(inbox[c]) <= 2
  <1> USE DEF PacedInv
  <1>1. job[w] \in Slots /\ Owned(job[w])
    BY SizesAssumption DEF PoolInv, PoolTypeOK, ReportersHaveJobs, JobsOwned, Slots
  <1>2. PICK c \in Clients : c = target_hsm[job[w]] /\ pc[c] = "submitted" /\ slot[c] = job[w]
    BY <1>1 DEF Owned
  <1>3. Len(inbox[c]) \in Nat /\ DOMAIN inbox[c] = 1 .. Len(inbox[c])
    BY InboxBasics DEF TypeOK
  <1>4. ~Pending(c, "COMPLETE")
    BY <1>2, <1>3 DEF PoolInv, EventsTell, Untouched, Pending
  <1>5. ~Pending(c, "START")
    BY <1>2 DEF SignalsTell
  <1>6. ASSUME Len(inbox[c]) > 2 PROVE FALSE
    <2>1. 1 \in DOMAIN inbox[c] /\ 2 \in DOMAIN inbox[c] /\ 3 \in DOMAIN inbox[c]
      BY <1>3, <1>6
    <2>2. \A k \in DOMAIN inbox[c] : inbox[c][k].signal \in {"CANCEL", "PERIOD"}
      BY <1>3, <1>4, <1>5 DEF QueuesOK, Pending
    <2>3. \A k, m \in DOMAIN inbox[c] : inbox[c][m].signal = inbox[c][k].signal => m = k
      BY <1>3 DEF QueuesOK
    <2> QED BY <2>1, <2>2, <2>3
  <1>7. Len(inbox[c]) <= 2
    BY <1>3, <1>6
  <1> QED BY <1>1, <1>2, <1>4, <1>5, <1>7

\* A job is reported: the event of its end is the only one of its kind, and it is
\* not lost when the queue of the machine holds three events.
LEMMA ReportPaces ==
    ASSUME PacedInv, TypeOK', NEW w \in Workers, Report(w)
    PROVE  KeepsPace /\ QueuesOK' /\ SignalsTell' /\ (InboxSize >= 3 /\ Told => Told')
  <1> USE DEF PacedInv
  <1>1. w \in reporting /\ UNCHANGED <<pc, slot,
        queued>> /\ reporting' = reporting \ {w}
        /\ job'[w] = 0 /\ \A v \in Workers : v # w => job'[v] = job[v]
    BY DEF Report, clients, TypeOK, PoolTypeOK
  <1>2. PICK c \in Clients :
               /\ c = target_hsm[job[w]] /\ pc[c] = "submitted" /\ slot[c] = job[w]
               /\ job[w] \in Slots
               /\ ~Pending(c, "COMPLETE") /\ ~Pending(c, "START")
               /\ Len(inbox[c]) <= 2
    BY <1>1, ReportIsHeard
  <1>3. PICK e \in Events : e = Event("COMPLETE", job[w]) /\ e.signal = "COMPLETE"
    BY <1>2, EventBasics
  <1>4. IF HasRoom(c) THEN inbox' = [inbox EXCEPT ![c] = Append(@,
        e)] ELSE inbox' = inbox
    BY <1>2, <1>3, ClientsAssumption DEF Report, Notify
  <1>5. /\ QueuesOK'
        /\ \A d \in Clients : \A s : Pending(d, s) => Pending(d, s)'
        /\ \A d \in Clients : \A s : s # "COMPLETE" => (Pending(d, s)' <=> Pending(d,
          s))
        /\ HasRoom(c) => Pending(c, "COMPLETE")'
    <2>1. CASE HasRoom(c)
      BY <1>2, <1>3, <1>4, <2>1, QueuesAfterPost DEF TypeOK
    <2>2. CASE ~HasRoom(c)
      BY <1>4, <2>2 DEF QueuesOK, Pending
    <2> QED BY <2>1, <2>2
  <1>6. \A d \in Clients : pc[d] = "submitted" => slot[d] \in Slots /\ slot[d] # 0
    BY SlotType, SizesAssumption DEF TypeOK, Slots
  <1>7. KeepsPace
    <2>1. \A d \in Clients : Started(d) => Started(d)'
      BY <1>1, <1>5 DEF Started
    <2> QED BY <1>1, <2>1 DEF KeepsPace
  <1>8. SignalsTell'
    BY <1>1, <1>5 DEF SignalsTell
  <1>9. ASSUME InboxSize >= 3, Told PROVE Told'
    <2>1. HasRoom(c)
      <3>1. Len(inbox[c]) \in Nat BY InboxBasics DEF TypeOK
      <3>2. InboxSize \in Nat BY SizesAssumption
      <3> QED BY <1>2, <1>9, <3>1, <3>2 DEF HasRoom
    <2>2. \A d \in Clients : d # c /\ pc[d] = "submitted" => slot[d] # job[w]
      BY <1>2 DEF PoolInv, OneOwner, Has
    <2> QED BY <1>1, <1>5, <1>9, <2>1, <2>2 DEF Told, Untouched
  <1> QED BY <1>5, <1>7, <1>8, <1>9

\* A timer posts a PERIOD, or someone a CANCEL.
LEMMA PostPaces ==
    ASSUME Paced, Considerate, PacedInv, TypeOK', NEW c \in Clients,
           Tick(c) \/ AskCancel(c)
    PROVE  KeepsPace /\ QueuesOK' /\ SignalsTell' /\ (Told => Told')
  <1> USE DEF PacedInv
  <1>1. PICK signal \in {"PERIOD", "CANCEL"} :
            /\ Post(c, signal) /\ ~Pending(c, signal)
            /\ signal = "CANCEL" => pc[c] = "submitted" /\ slot[c] \notin queued
    BY DEF Tick, AskCancel
  <1>2. UNCHANGED <<pc, slot, queued, job, reporting>>
    BY <1>1 DEF Post, clients, workers
  <1>3. PICK e \in Events :
            e.signal = signal /\ inbox' = [inbox EXCEPT ![c] = Append(@, e)]
    BY <1>1, EventBasics, EventsAssumption DEF Post
  <1>4. signal = "CANCEL" => ~Pending(c, "START")
    BY <1>1 DEF SignalsTell
  <1>5. /\ QueuesOK'
        /\ \A d \in Clients : \A s :
               Pending(d, s)' <=> Pending(d, s) \/ (d = c /\ s = signal)
    BY <1>1, <1>3, <1>4, QueuesAfterPost DEF TypeOK
  <1>6. KeepsPace
    <2>1. \A d \in Clients : Started(d) => Started(d)'
      BY <1>1, <1>2, <1>5 DEF Started
    <2>2. \A d \in Clients : Ended(d)' => Ended(d)
      BY <1>2 DEF Ended
    <2> QED BY <1>2, <2>1, <2>2 DEF KeepsPace
  <1>7. SignalsTell' /\ (Told => Told')
    BY <1>1, <1>2, <1>5 DEF SignalsTell, Told, Untouched
  <1> QED BY <1>5, <1>6, <1>7

\* The pool and the machines are left alone.
LEMMA NothingPaces ==
    ASSUME PacedInv, UNCHANGED poolVars
    PROVE  KeepsPace /\ QueuesOK' /\ SignalsTell' /\ (Told => Told')
  <1>1. UNCHANGED <<inbox, pc, slot, queued, job, reporting>>
    BY DEF poolVars
  <1>2. \A d \in Clients : \A s : Pending(d, s)' <=> Pending(d, s)
    BY <1>1 DEF Pending
  <1>3. \A d \in Clients : (Started(d)' <=> Started(d)) /\ (Ended(d)' <=> Ended(d))
    BY <1>1, <1>2 DEF Started, Ended
  <1> QED BY <1>1, <1>2, <1>3 DEF PacedInv, KeepsPace, QueuesOK, SignalsTell, Told,
             Untouched

\* main posts a START to the machine whose turn it is, which is idle.
LEMMA PostStartPaces ==
    ASSUME PacedInv, TypeOK', PostStart
    PROVE  /\ InTurn' /\ IdleBefore' /\ EndsLate'
           /\ QueuesOK' /\ SignalsTell' /\ (Told => Told')
  <1> USE DEF PacedInv
  <1>1. /\ phase = "post" /\ phase' \in {"delay", "sleep"} /\ turn' = turn
        /\ turn \in Clients
        /\ Post(turn, "START") \/ UNCHANGED poolVars
    BY DEF PostStart, TypeOK
  <1>2. UNCHANGED <<pc, slot, queued, job, reporting>>
    BY <1>1 DEF Post, clients, workers, poolVars
  <1>3. /\ \A d \in Clients : Started(d)
        /\ \A d \in Clients : ~Ended(d)
        /\ reporting = {}
    BY <1>1 DEF InTurn, EndsLate
  <1>4. pc[turn] = "idle" /\ ~Pending(turn, "START")
    <2>1. turn >= turn
      <3>1. Cardinality(Clients) \in Nat
        BY ClientsAssumption, FS_CardinalityType
      <3> QED BY <1>1, <3>1, MachinesAssumption
    <2> QED BY <1>1, <1>3, <2>1 DEF IdleBefore, Started
  <1>5. /\ QueuesOK'
        /\ \A d \in Clients : \A s : Pending(d, s) => Pending(d, s)'
        /\ \A d \in Clients : \A s :
               Pending(d, s)' => Pending(d, s) \/ (d = turn /\ s = "START")
    <2>1. CASE Post(turn, "START")
      <3>1. PICK e \in Events :
                e.signal = "START" /\ inbox' = [inbox EXCEPT ![turn] = Append(@, e)]
        BY <2>1, EventBasics, EventsAssumption DEF Post
      <3>2. /\ PoolTypeOK /\ PoolTypeOK'
            /\ e.signal \in {"START", "CANCEL", "PERIOD", "COMPLETE"}
            /\ ~Pending(turn, e.signal) /\ e.signal # "CANCEL"
        BY <1>4, <3>1 DEF TypeOK
      <3> HIDE DEF PacedInv
      <3>3. /\ QueuesOK'
            /\ \A d \in Clients : \A s :
                   Pending(d, s)' <=> Pending(d, s) \/ (d = turn /\ s = e.signal)
        <4>1. QueuesOK BY DEF PacedInv
        <4> QED BY <1>1, <3>1, <3>2, <4>1, QueuesAfterPost
      <3> QED BY <3>1, <3>3
    <2>2. CASE UNCHANGED poolVars
      BY <2>2 DEF poolVars, QueuesOK, Pending
    <2> QED BY <1>1, <2>1, <2>2
  <1>6. InTurn'
    BY <1>1, <1>2, <1>3, <1>5 DEF InTurn, Started
  <1>7. IdleBefore'
    <2>1. SUFFICES ASSUME NEW d \in Clients, d > turn PROVE pc[d] = "idle"
      BY <1>1, <1>2 DEF IdleBefore
    <2>2. d >= turn
      <3>1. Cardinality(Clients) \in Nat
        BY ClientsAssumption, FS_CardinalityType
      <3> QED BY <1>1, <2>1, <3>1, MachinesAssumption
    <2> QED BY <1>1, <2>2 DEF IdleBefore
  <1>8. EndsLate'
    BY <1>2, <1>3 DEF EndsLate, Ended
  <1>9. SignalsTell' /\ (Told => Told')
    BY <1>2, <1>4, <1>5 DEF SignalsTell, Told, Untouched
  <1> QED BY <1>5, <1>6, <1>7, <1>8, <1>9

\* main waits between two STARTs, and for the end of a round; it stops the timers
\* and the pool when all machines are idle, and returns.
LEMMA WaitPaces ==
    ASSUME Paced, PacedInv, DelayEnds \/ RoundEnds \/ StopTimers \/ StopPool \/ Return
    PROVE  /\ InTurn' /\ IdleBefore' /\ EndsLate'
           /\ QueuesOK' /\ SignalsTell' /\ (Told => Told')
  <1> USE DEF PacedInv
  <1>1. UNCHANGED poolVars
    BY DEF DelayEnds, RoundEnds, StopTimers, StopPool, Return
  <1>2. UNCHANGED <<inbox, pc, slot, queued, job, reporting>>
    BY <1>1 DEF poolVars
  <1>3. \A d \in Clients : (Started(d)' <=> Started(d)) /\ (Ended(d)' <=> Ended(d))
    BY <1>2 DEF Started, Ended, Pending
  <1>4. \A d \in Clients : Started(d)
    BY DEF DelayEnds, RoundEnds, StopTimers, StopPool, Return, InTurn, Quiet, Started
  <1>5. reporting = {} /\ \A d \in Clients : ~Ended(d)
    <2>1. CASE RoundEnds
      <3>1. (\A w \in Workers : job[w] = 0) /\ \A d \in Clients : pc[d] = "idle"
        BY <2>1 DEF RoundEnds, Quiet
      <3>2. \A w \in reporting : job[w] # 0 /\ w \in Workers
        BY DEF PoolInv, ReportersHaveJobs, PoolTypeOK
      <3> QED BY <3>1, <3>2 DEF Ended
    <2>2. CASE DelayEnds \/ StopTimers \/ StopPool \/ Return
      BY <2>2 DEF DelayEnds, StopTimers, StopPool, Return, EndsLate
    <2> QED BY <2>1, <2>2
  <1>6. IdleBefore'
    <2>1. CASE RoundEnds
      <3>1. \A d \in Clients : pc[d] = "idle"
        BY <2>1 DEF RoundEnds, Quiet
      <3> QED BY <1>2, <3>1 DEF IdleBefore
    <2>2. CASE StopTimers \/ StopPool \/ Return
      <3>1. \A d \in Clients : pc[d] = "idle"
        BY <2>2 DEF StopTimers, StopPool, Return, IdleBefore
      <3> QED BY <1>2, <3>1 DEF IdleBefore
    <2>3. CASE DelayEnds
      <3>1. phase = "delay" /\ phase' = "post" /\ turn' = turn + 1
        BY <2>3 DEF DelayEnds
      <3>2. Cardinality(Clients) \in Nat
        BY ClientsAssumption, FS_CardinalityType
      <3>3. \A d \in Clients : d >= turn + 1 => d > turn
        BY <3>2, MachinesAssumption DEF TypeOK
      <3> QED BY <1>2, <3>1, <3>3 DEF IdleBefore
    <2> QED BY <2>1, <2>2, <2>3
  <1>7. InTurn' /\ EndsLate'
    BY <1>2, <1>3, <1>4, <1>5 DEF InTurn, EndsLate
  <1>8. QueuesOK' /\ SignalsTell' /\ (Told => Told')
    BY <1>1, NothingPaces
  <1> QED BY <1>6, <1>7, <1>8

\* Every step of the program keeps its invariant; no completion event is lost
\* when a machine's queue holds three events.
LEMMA PacedStep ==
    ASSUME Paced, Considerate, PacedInv, [Next]_vars
    PROVE  PacedInv' /\ (InboxSize >= 3 /\ Told => Told')
  <1>1. TypeOK' /\ MainOK'
    BY ProgramTypeStep DEF PacedInv, PoolInv
  <1>2. PoolInv'
    BY PacedIsDisciplined, PoolInvStep DEF PacedInv
  <1> DEFINE G == /\ InTurn' /\ IdleBefore' /\ EndsLate'
                  /\ QueuesOK' /\ SignalsTell' /\ (InboxSize >= 3 /\ Told => Told')
  <1>3. ASSUME UNCHANGED main, KeepsPace, QueuesOK', SignalsTell',
               InboxSize >= 3 /\ Told => Told'
        PROVE  G
    BY <1>3, PaceKept
  <1>4. ASSUME UNCHANGED <<poolVars, main>> PROVE G
    BY <1>3, <1>4, NothingPaces
  <1>5. ASSUME NEW c \in Clients,
               Open(c) \/ Handle(c) \/ Tick(c) \/ AskCancel(c) PROVE G
    <2>1. CASE Open(c)
      BY <1>4, <2>1 DEF Open
    <2>2. CASE Tick(c) \/ AskCancel(c)
      <3>1. UNCHANGED main BY <2>2 DEF Tick, AskCancel
      <3> QED BY <1>1, <1>3, <2>2, <3>1, PostPaces
    <2>3. CASE Handle(c)
      <3>1. UNCHANGED main BY <2>3 DEF Handle
      <3>2. \/ Look(c) \/ Claim(c) \/ Number(c) \/ InitJob(c) \/ InitJobEnds(c) \/ Submit(c)
            \/ Begin(c) \/ Finish(c) \/ FreeJob(c)
            \/ \E signal : Cancel(c) \/ Ignore(c, signal)
        BY <2>3 DEF Handle
      <3> QED BY <1>1, <1>3, <3>1, <3>2, AllocationPaces, BeginPaces, FinishPaces,
                 FreePaces, DropPaces
    <2> QED BY <1>5, <2>1, <2>2, <2>3
  <1>6. ASSUME NEW w \in Workers, Worker(w) PROVE G
    <2>1. UNCHANGED main
      BY <1>6 DEF Worker, TakeJob, EndJob, ReportJob
    <2>2. (\E s \in Slots : Take(w, s)) \/ EndJob(w) \/ Report(w)
      BY <1>6 DEF Worker, TakeJob, ReportJob
    <2> QED BY <1>1, <1>3, <2>1, <2>2, TakePaces, EndPaces, ReportPaces
  <1>7. ASSUME Main PROVE G
    BY <1>1, <1>7, PostStartPaces, WaitPaces DEF Main
  <1>8. ASSUME Exited \/ UNCHANGED vars PROVE G
    BY <1>4, <1>8 DEF Exited, vars
  <1>9. G
    BY <1>5, <1>6, <1>7, <1>8 DEF Next
  <1> QED BY <1>1, <1>2, <1>9 DEF PacedInv

\* The invariant holds when main begins: everything is idle and empty.
LEMMA PacedInit == Init => PacedInv /\ Told
  <1> SUFFICES ASSUME Init PROVE PacedInv /\ Told OBVIOUS
  <1>1. TypeOK /\ MainOK /\ PoolInv
    BY ProgramInit
  <1>2. /\ phase = "post" /\ reporting = {}
        /\ \A c \in Clients : pc[c] = "idle" /\ inbox[c] = << >>
    BY DEF Init, PoolInit
  <1>3. \A c \in Clients : Len(inbox[c]) = 0 /\ DOMAIN inbox[c] = {}
    BY <1>2, EmptySeq
  <1>4. \A c \in Clients : \A s : ~Pending(c, s)
    BY <1>3 DEF Pending
  <1>5. QueuesOK
    BY <1>3 DEF QueuesOK
  <1> QED BY <1>1, <1>2, <1>4, <1>5
          DEF PacedInv, Told, InTurn, IdleBefore, EndsLate, SignalsTell, Started, Ended

-----------------------------------------------------------------------------
(* What the delays of main ensure *)

\* The example with its delays, and with users who cancel only jobs that workers
\* have taken, uses the pool with the discipline that the pool needs and nothing
\* in the pool enforces.
THEOREM DelaysAreDiscipline ==
    ASSUME Paced, Considerate PROVE Spec => ImplementsJobPool
  <1>1. Init => PoolInit
    BY DEF Init
  <1>2. PacedInv /\ [Next]_vars => PacedInv'
    BY PacedStep
  <1>3. PacedInv /\ [Next]_vars => [PoolNext /\ Discipline]_poolVars
    BY PacedIsDisciplined
  <1>4. Init => PacedInv
    BY PacedInit
  <1> QED BY <1>1, <1>2, <1>3, <1>4, PTL DEF Spec, ImplementsJobPool, DisciplinedSpec

\* With the delays, live jobs of the example have different ids.
THEOREM DelaysKeepIdsDistinct ==
    ASSUME Paced, Considerate PROVE Spec => []LiveIdsDistinct
  BY DelaysAreDiscipline, DisciplineKeepsIdsDistinct, PTL DEF ImplementsJobPool

\* With the delays, no machine of the example clears a live job.
THEOREM DelaysKeepSlots ==
    ASSUME Paced, Considerate PROVE Spec => LiveJobsKeepTheirSlot
  BY DelaysAreDiscipline, DisciplineKeepsSlots, PTL DEF ImplementsJobPool

\* With the delays, every machine of the example frees its own job.
THEOREM DelaysFreeOwn ==
    ASSUME Paced, Considerate PROVE Spec => FreesOnlyItsOwn
  BY DelaysAreDiscipline, DisciplineFreesOwn, PTL DEF ImplementsJobPool

\* What the two invariants say of a machine that is processing.
LEMMA NobodyForgotten == PacedInv /\ Told => NoMachineForgotten
  <1> SUFFICES ASSUME PacedInv, Told, NEW c \in Clients, pc[c] = "submitted"
               PROVE  \/ slot[c] \in queued
                      \/ \E w \in Workers : job[w] = slot[c] /\ target_hsm[job[w]] = c
                      \/ \E i \in DOMAIN inbox[c] : inbox[c][i] = Event("COMPLETE",
                        slot[c])
    BY DEF NoMachineForgotten
  <1> USE DEF PacedInv, PoolInv
  <1>1. CASE ~Untouched(slot[c])
    <2>1. slot[c] # 0
      BY DEF PoolTypeOK
    <2>2. ASSUME NEW w \in Workers, job[w] = slot[c] PROVE target_hsm[job[w]] = c
      <3>1. Owned(job[w]) BY <2>1, <2>2 DEF JobsOwned
      <3> QED BY <2>2, <3>1 DEF Owned, OneOwner, Has
    <2> QED BY <1>1, <2>2 DEF Untouched
  <1>2. CASE Untouched(slot[c])
    <2>1. PICK i \in DOMAIN inbox[c] : inbox[c][i].signal = "COMPLETE"
      BY <1>2 DEF Told, Pending
    <2>2. i \in 1 .. Len(inbox[c]) /\ inbox[c][i] \in Events
      BY <2>1, InboxBasics
    <2>3. inbox[c][i].data = slot[c]
      BY <2>1, <2>2 DEF EventsTell
    <2>4. inbox[c][i] = Event("COMPLETE", slot[c])
      BY <2>1, <2>2, <2>3, SignalsAssumption DEF Events, Event
    <2> QED BY <2>1, <2>4
  <1> QED BY <1>1, <1>2

\* With the delays, and message queues of three events or more, no completion
\* event is refused (osa_worker.c:166): every processing machine has something to
\* wait for.
THEOREM DelaysForgetNobody ==
    ASSUME Paced, Considerate, InboxSize >= 3
    PROVE  Spec => []NoMachineForgotten
  <1>1. Init => PacedInv /\ Told
    BY PacedInit
  <1>2. PacedInv /\ Told /\ [Next]_vars => PacedInv' /\ Told'
    BY PacedStep
  <1> QED BY <1>1, <1>2, NobodyForgotten, PTL DEF Spec
=============================================================================
