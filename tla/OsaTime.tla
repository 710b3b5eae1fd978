------------------------------ MODULE OsaTime ------------------------------
(***************************************************************************)
(* The arithmetic of time in platform/linux: milliseconds, as the callers  *)
(* give them, turned into seconds and nanoseconds, as POSIX wants them.    *)
(* The intermediate values are int, long and uint32_t in the code.         *)
(***************************************************************************)
EXTENDS Integers, TLAPS

\* A struct timespec that POSIX accepts, as nanoseconds
Timespecs == [tv_sec : Int, tv_nsec : {n \in Nat : n < 1000000000}]
Nanoseconds(ts) == ts.tv_sec * 1000000000 + ts.tv_nsec

\* The nanoseconds before the carry
NsecSum(now, timeout_ms) == now.tv_nsec + (timeout_ms % 1000) * 1000000

\* calc_timeout of osa_queue.c: the time at which a wait that starts now ends
calc_timeout(now, timeout_ms) ==
    LET sec == now.tv_sec + timeout_ms \div 1000
        nsec == NsecSum(now, timeout_ms)
    IN  IF nsec >= 1000000000
        THEN [tv_sec |-> sec + 1, tv_nsec |-> nsec - 1000000000]
        ELSE [tv_sec |-> sec, tv_nsec |-> nsec]

\* The same calculation in osa_sem_wait
abs_timeout(now, timeout_ms) ==
    LET sec == now.tv_sec + timeout_ms \div 1000
        nsec == now.tv_nsec + (timeout_ms % 1000) * 1000000
        carry == nsec >= 1000000000
    IN  [tv_sec |-> IF carry THEN sec + 1 ELSE sec,
         tv_nsec |-> IF carry THEN nsec - 1000000000 ELSE nsec]

\* it_value and it_interval of osa_timer_create
TimerSpec(period_ms) ==
    [tv_sec |-> period_ms \div 1000, tv_nsec |-> (period_ms % 1000) * 1000000]

\* What osa_thread_sleep hands to usleep, in uint32_t
SleepMicroseconds(ms) == (ms * 1000) % 4294967296

-----------------------------------------------------------------------------

\* Moving a whole second from one field to the other, or not, changes nothing.
LEMMA CarryIsNeutral ==
    ASSUME NEW sec \in Int, NEW nsec \in Int, NEW q \in Int, NEW r \in Int
    PROVE  /\ (sec + q + 1) * 1000000000 + ((nsec + r * 1000000) - 1000000000)
                  = (sec * 1000000000 + nsec) + (1000 * q + r) * 1000000
           /\ (sec + q) * 1000000000 + (nsec + r * 1000000)
                  = (sec * 1000000000 + nsec) + (1000 * q + r) * 1000000
BY SMT

\* A wait with a timeout ends exactly timeout_ms after it starts: the deadline
\* that osa_queue.c computes has a valid tv_nsec, whatever the clock shows, and
\* is that far from it; the sum before the carry fits a 32-bit long.
THEOREM QueueDeadlineIsExact ==
    ASSUME NEW now \in Timespecs, NEW timeout_ms \in Nat
    PROVE  LET deadline == calc_timeout(now, timeout_ms)
           IN  /\ deadline \in Timespecs
               /\ Nanoseconds(deadline) = Nanoseconds(now) + timeout_ms * 1000000
               /\ NsecSum(now, timeout_ms) < 2147483648
<1> DEFINE q == timeout_ms \div 1000
           r == timeout_ms % 1000
           s == NsecSum(now, timeout_ms)
<1>1. q \in Nat /\ r \in Nat /\ r < 1000 /\ timeout_ms = 1000 * q + r
  BY SMT
<1>2. now.tv_sec \in Int /\ now.tv_nsec \in Nat /\ now.tv_nsec < 1000000000
  BY SMT DEF Timespecs
<1>3. s = now.tv_nsec + r * 1000000 /\ s \in Nat /\ s <= 1998999999
  BY SMT, <1>1, <1>2 DEF NsecSum
<1>4. Nanoseconds(now) = now.tv_sec * 1000000000 + now.tv_nsec
  BY SMT DEF Nanoseconds
<1> HIDE DEF q, r, s
<1>5. CASE s >= 1000000000
  <2>1. calc_timeout(now, timeout_ms)
            = [tv_sec |-> now.tv_sec + q + 1, tv_nsec |-> s - 1000000000]
    BY SMT, <1>5 DEF calc_timeout, q, s
  <2>2. s - 1000000000 \in Nat /\ s - 1000000000 < 1000000000 /\ now.tv_sec + q + 1 \in Int
    BY SMT, <1>1, <1>2, <1>3, <1>5
  <2>3. calc_timeout(now, timeout_ms) \in Timespecs
    BY SMT, <2>1, <2>2 DEF Timespecs
  <2>4. Nanoseconds(calc_timeout(now, timeout_ms))
            = (now.tv_sec + q + 1) * 1000000000 + (s - 1000000000)
    BY SMT, <2>1 DEF Nanoseconds
  <2>5. Nanoseconds(calc_timeout(now, timeout_ms))
            = Nanoseconds(now) + timeout_ms * 1000000
    BY SMT, <1>1, <1>2, <1>3, <1>4, <2>4, CarryIsNeutral
  <2> QED
    BY SMT, <1>3, <2>3, <2>5 DEF s
<1>6. CASE ~(s >= 1000000000)
  <2>1. calc_timeout(now, timeout_ms) = [tv_sec |-> now.tv_sec + q, tv_nsec |-> s]
    BY SMT, <1>6 DEF calc_timeout, q, s
  <2>2. s \in Nat /\ s < 1000000000 /\ now.tv_sec + q \in Int
    BY SMT, <1>1, <1>2, <1>3, <1>6
  <2>3. calc_timeout(now, timeout_ms) \in Timespecs
    BY SMT, <2>1, <2>2 DEF Timespecs
  <2>4. Nanoseconds(calc_timeout(now, timeout_ms)) = (now.tv_sec + q) * 1000000000 + s
    BY SMT, <2>1 DEF Nanoseconds
  <2>5. Nanoseconds(calc_timeout(now, timeout_ms))
            = Nanoseconds(now) + timeout_ms * 1000000
    BY SMT, <1>1, <1>2, <1>3, <1>4, <2>4, CarryIsNeutral
  <2> QED
    BY SMT, <1>3, <2>3, <2>5 DEF s
<1> QED
  BY SMT, <1>5, <1>6

\* A semaphore wait and a queue wait with the same timeout that start at the
\* same time end at the same time: the two copies of the arithmetic in
\* osa_sync.c:166-172 and osa_queue.c:41-46 agree.
THEOREM DeadlinesAgree ==
    ASSUME NEW now \in Timespecs, NEW timeout_ms \in Nat
    PROVE  abs_timeout(now, timeout_ms) = calc_timeout(now, timeout_ms)
BY SMT DEF abs_timeout, calc_timeout, NsecSum

\* A timer's first expiry and interval (osa_timer.c:69-80) are exactly its
\* period, and never the zero that would disarm it.
THEOREM PeriodIsExact ==
    ASSUME NEW period_ms \in Nat \ {0}
    PROVE  /\ TimerSpec(period_ms) \in Timespecs
           /\ Nanoseconds(TimerSpec(period_ms)) = period_ms * 1000000
           /\ Nanoseconds(TimerSpec(period_ms)) # 0
<1> DEFINE q == period_ms \div 1000
           r == period_ms % 1000
<1>1. q \in Nat /\ r \in Nat /\ r < 1000 /\ period_ms = 1000 * q + r
  BY SMT
<1>2. TimerSpec(period_ms) = [tv_sec |-> q, tv_nsec |-> r * 1000000]
  BY SMT DEF TimerSpec
<1> HIDE DEF q, r
<1>3. TimerSpec(period_ms) \in Timespecs
  BY SMT, <1>1, <1>2 DEF Timespecs
<1>4. Nanoseconds(TimerSpec(period_ms)) = q * 1000000000 + r * 1000000
  BY SMT, <1>2 DEF Nanoseconds
<1> QED
  BY SMT, <1>1, <1>3, <1>4

\* osa_thread_sleep sleeps as long as it is told up to 4294967 ms, some 71
\* minutes; one millisecond more wraps to less than a millisecond.
THEOREM SleepIsExact ==
    /\ \A ms \in Nat : ms <= 4294967 => SleepMicroseconds(ms) = ms * 1000
    /\ SleepMicroseconds(4294968) < 1000
BY SMT DEF SleepMicroseconds
=============================================================================
