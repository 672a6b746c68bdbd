----------------------------- MODULE SleepFutex -----------------------------
(***************************************************************************)
(* The blocking syscalls of one process whose threads share a futex table: *)
(* sys_nanosleep, the Wait/Wake/Requeue commands of sys_futex and the      *)
(* signal that interrupts them (sys_tkill), from os/src/syscall/process.rs.*)
(* The futex table (task/threads, do_futex_wait, wake, requeue), the timer *)
(* queue behind wait_with_timeout, the trap-return signal handling and the *)
(* scheduler are not in this repository; they are modelled from the spec   *)
(* (sections 4.4 and 5).                                                   *)
(*                                                                         *)
(* The kernel is one CPU that is not preempted in kernel mode: a syscall   *)
(* runs from its entry to block_current_and_run_next as one step, and the  *)
(* code after the block runs as one step once the scheduler picks the task.*)
(*                                                                         *)
(* The timer queue holds <<task, deadline>> entries.  wait_with_timeout    *)
(* keeps only a weak reference to the task and nothing removes an entry    *)
(* when its sleep ends some other way: an entry fires at its deadline and  *)
(* wakes the task if the task is Interruptible at that moment, whatever it *)
(* is blocked in then.                                                     *)
(***************************************************************************)
EXTENDS Naturals, Sequences, SequencesExt, FiniteSetsExt, BagsExt

CONSTANTS
  Tasks,       \* the threads of the process
  Addrs,       \* futex words (aligned, mapped user addresses)
  Vals,        \* values a futex word takes
  Durations,   \* nanosleep requests and futex timeouts, in timer ticks
  WakeCounts,  \* val (and the requeue count) of FUTEX_WAKE / FUTEX_REQUEUE
  MaxTime,     \* bound on the clock
  MaxSig,      \* bound on the signals sent
  MaxTimers,   \* bound on the entries of the timer queue
  NoTimeout    \* a futex wait with a null timeout pointer (a model value)

User == "user"                 \* running in user mode, not in a syscall

VARIABLES
  now,         \* TimeSpec::now(), in ticks
  status,      \* task_status: "Running", "Interruptible" or "Ready"
  pc,          \* the syscall a task is blocked in: "nanosleep", "futex", User
  wend,        \* the deadline of the current sleep (NoTimeout if none)
  sigpending,  \* inner.sigpending is not empty
  timers,      \* the timer queue: a bag of <<task, deadline>>
  fq,          \* the futex table: address -> queue of waiting tasks
  word,        \* the futex words in user memory
  assert_failed, \* the assert!(end <= now) of sys_nanosleep failed
  sent         \* signals sent so far

vars == <<now, status, pc, wend, sigpending, timers, fq, word,
          assert_failed, sent>>

\* Tasks that may enter a syscall, and the kernel has not panicked.
Runs(t) == ~assert_failed /\ status[t] = "Running" /\ pc[t] = User

\* Timer entries whose deadline has passed.
Expired == {e \in BagToSet(timers) : e[2] <= now}

\* The timer queue has room for one more entry.
TimerRoom == BagCardinality(timers) < MaxTimers

\* Mark the tasks of set W that are Interruptible as Ready (wake_interruptible).
WakeAll(st, W) ==
  [u \in Tasks |-> IF u \in W /\ st[u] = "Interruptible" THEN "Ready" ELSE st[u]]

Init ==
  /\ now = 0
  /\ status = [t \in Tasks |-> "Running"]
  /\ pc = [t \in Tasks |-> User]
  /\ wend = [t \in Tasks |-> NoTimeout]
  /\ sigpending = [t \in Tasks |-> FALSE]
  /\ timers = EmptyBag
  /\ fq = [a \in Addrs |-> <<>>]
  /\ word = [a \in Addrs |-> CHOOSE v \in Vals : TRUE]
  /\ assert_failed = FALSE
  /\ sent = 0

(***************************************************************************)
(* sys_nanosleep up to the block: end = now + req, wait_with_timeout       *)
(* registers the timer, block_current_and_run_next makes the task          *)
(* Interruptible.  A null req or a faulting get_from_user returns an error *)
(* with nothing changed and is not written out.                            *)
(***************************************************************************)
\* Mutant: the wait_with_timeout registration is missing.
sys_nanosleep_no_timer(t, req) ==
  /\ Runs(t)
  /\ now + req <= MaxTime
  /\ TimerRoom
  /\ wend' = [wend EXCEPT ![t] = now + req]
  /\ status' = [status EXCEPT ![t] = "Interruptible"]
  /\ pc' = [pc EXCEPT ![t] = "nanosleep"]
  /\ UNCHANGED <<now, sigpending, timers, fq, word, assert_failed, sent>>

sys_nanosleep(t, req) ==
  /\ Runs(t)
  /\ now + req <= MaxTime
  /\ TimerRoom
  /\ timers' = BagAdd(timers, <<t, now + req>>)
  /\ wend' = [wend EXCEPT ![t] = now + req]
  /\ status' = [status EXCEPT ![t] = "Interruptible"]
  /\ pc' = [pc EXCEPT ![t] = "nanosleep"]
  /\ UNCHANGED <<now, sigpending, fq, word, assert_failed, sent>>

(***************************************************************************)
(* sys_nanosleep after the block: with no signal pending it asserts        *)
(* end <= now and returns SUCCESS, otherwise EINTR with end - now.  The    *)
(* rem copies are user memory and are left out.                           *)
(***************************************************************************)
nanosleep_return(t) ==
  /\ ~assert_failed
  /\ status[t] = "Ready" /\ pc[t] = "nanosleep"
  /\ status' = [status EXCEPT ![t] = "Running"]
  /\ pc' = [pc EXCEPT ![t] = User]
  /\ wend' = [wend EXCEPT ![t] = NoTimeout]
  /\ assert_failed' = (~sigpending[t] /\ ~(wend[t] <= now))
  /\ UNCHANGED <<now, sigpending, timers, fq, word, sent>>

(***************************************************************************)
(* do_futex_wait: under the futex-table lock, block only if the word still *)
(* holds val (otherwise EAGAIN, nothing changed); enqueue the task at the  *)
(* address, register the timeout with the timer, and block.                *)
(***************************************************************************)
do_futex_wait(t, a, val, timeout) ==
  /\ word[a] = val
  /\ timeout \in Durations => now + timeout <= MaxTime /\ TimerRoom
  /\ fq' = [fq EXCEPT ![a] = Append(@, t)]
  /\ timers' = IF timeout \in Durations
               THEN BagAdd(timers, <<t, now + timeout>>) ELSE timers
  /\ wend' = [wend EXCEPT ![t] = IF timeout \in Durations
                                 THEN now + timeout ELSE NoTimeout]
  /\ status' = [status EXCEPT ![t] = "Interruptible"]
  /\ pc' = [pc EXCEPT ![t] = "futex"]

(***************************************************************************)
(* sys_futex with FutexCmd::Wait: read the timeout, drop the task          *)
(* reference, do_futex_wait.  A null or misaligned uaddr, an unmapped word *)
(* or a faulting timeout returns an error with nothing changed.            *)
(***************************************************************************)
sys_futex_wait(t, a, val, timeout) ==
  /\ Runs(t)
  /\ do_futex_wait(t, a, val, timeout)
  /\ UNCHANGED <<now, sigpending, word, assert_failed, sent>>

\* do_futex_wait after the block: a waiter that timed out or was
\* interrupted leaves the queue it is still in, and returns.
futex_wait_return(t) ==
  /\ ~assert_failed
  /\ status[t] = "Ready" /\ pc[t] = "futex"
  /\ fq' = [a \in Addrs |-> Remove(fq[a], t)]
  /\ status' = [status EXCEPT ![t] = "Running"]
  /\ pc' = [pc EXCEPT ![t] = User]
  /\ wend' = [wend EXCEPT ![t] = NoTimeout]
  /\ UNCHANGED <<now, sigpending, timers, word, assert_failed, sent>>

\* FutexTable::wake: dequeue up to n waiters at a, in order, and make them
\* Ready.
wake(a, n) ==
  LET k == Min({n, Len(fq[a])}) IN
  /\ fq' = [fq EXCEPT ![a] = SubSeq(@, k + 1, Len(@))]
  /\ status' = WakeAll(status, ToSet(SubSeq(fq[a], 1, k)))

\* sys_futex with FutexCmd::Wake.
sys_futex_wake(t, a, val) ==
  /\ Runs(t)
  /\ wake(a, val)
  /\ UNCHANGED <<now, pc, wend, sigpending, timers, word, assert_failed, sent>>

(***************************************************************************)
(* FutexTable::requeue(a1, a2, nwake, nmove): wake up to nwake waiters at  *)
(* a1, then move up to nmove of the rest, in order, to the end of a2's    *)
(* queue without waking them.                                              *)
(***************************************************************************)
requeue(a1, a2, nwake, nmove) ==
  LET q    == fq[a1]
      k    == Min({nwake, Len(q)})
      m    == Min({nmove, Len(q) - k})
      moved == SubSeq(q, k + 1, k + m)
  IN
  /\ fq' = [fq EXCEPT ![a1] = SubSeq(q, k + m + 1, Len(q)),
                      ![a2] = @ \o moved]
  /\ status' = WakeAll(status, ToSet(SubSeq(q, 1, k)))

\* sys_futex with FutexCmd::Requeue: requeue(uaddr, uaddr2, val,
\* timeout as u32).  A null or misaligned uaddr2 returns EINVAL.
sys_futex_requeue(t, a1, a2, val, val2) ==
  /\ Runs(t)
  /\ requeue(a1, a2, val, val2)
  /\ UNCHANGED <<now, pc, wend, sigpending, timers, word, assert_failed, sent>>

\* User code stores to a futex word.
store_word(t, a, v) ==
  /\ Runs(t)
  /\ word' = [word EXCEPT ![a] = v]
  /\ UNCHANGED <<now, status, pc, wend, sigpending, timers, fq,
                 assert_failed, sent>>

\* sys_tkill from another process: add the signal under the target's lock
\* and wake it if it is Interruptible.
\* Mutant: the target is made Ready whatever its status.
sys_tkill_wake_always(t) ==
  /\ ~assert_failed
  /\ sent < MaxSig
  /\ sigpending' = [sigpending EXCEPT ![t] = TRUE]
  /\ status' = [status EXCEPT ![t] = "Ready"]
  /\ sent' = sent + 1
  /\ UNCHANGED <<now, pc, wend, timers, fq, word, assert_failed>>

sys_tkill(t) ==
  /\ ~assert_failed
  /\ sent < MaxSig
  /\ sigpending' = [sigpending EXCEPT ![t] = TRUE]
  /\ status' = WakeAll(status, {t})
  /\ sent' = sent + 1
  /\ UNCHANGED <<now, pc, wend, timers, fq, word, assert_failed>>

\* On the return to user mode the pending signals are handled.
handle_signals(t) ==
  /\ Runs(t)
  /\ sigpending[t]
  /\ sigpending' = [sigpending EXCEPT ![t] = FALSE]
  /\ UNCHANGED <<now, status, pc, wend, timers, fq, word, assert_failed, sent>>

\* The timer interrupt takes an expired entry and wakes its task if the
\* weak reference upgrades to an Interruptible task.
timer_fire(e) ==
  /\ ~assert_failed
  /\ e \in Expired
  /\ timers' = BagRemove(timers, e)
  /\ status' = WakeAll(status, {e[1]})
  /\ UNCHANGED <<now, pc, wend, sigpending, fq, word, assert_failed, sent>>

\* The clock advances once the expired entries have been handled.
tick ==
  /\ ~assert_failed
  /\ now < MaxTime
  /\ Expired = {}
  /\ now' = now + 1
  /\ UNCHANGED <<status, pc, wend, sigpending, timers, fq, word,
                 assert_failed, sent>>

Next ==
  \/ \E t \in Tasks, d \in Durations : sys_nanosleep(t, d)
  \/ \E t \in Tasks : nanosleep_return(t)
  \/ \E t \in Tasks, a \in Addrs, v \in Vals, d \in Durations \cup {NoTimeout} :
       sys_futex_wait(t, a, v, d)
  \/ \E t \in Tasks : futex_wait_return(t)
  \/ \E t \in Tasks, a \in Addrs, n \in WakeCounts : sys_futex_wake(t, a, n)
  \/ \E t \in Tasks, a1, a2 \in Addrs, n, m \in WakeCounts :
       sys_futex_requeue(t, a1, a2, n, m)
  \/ \E t \in Tasks, a \in Addrs, v \in Vals : store_word(t, a, v)
  \/ \E t \in Tasks : sys_tkill(t)
  \/ \E t \in Tasks : handle_signals(t)
  \/ \E e \in Expired : timer_fire(e)
  \/ tick

(***************************************************************************)
(* The clock runs (timer interrupts), the timer interrupt handles every    *)
(* expired entry, and a Ready task is eventually scheduled.  Syscalls,     *)
(* stores and signals are choices of user programs and get no fairness.    *)
(***************************************************************************)
Fairness ==
  /\ WF_vars(tick)
  /\ \A t \in Tasks, d \in 0..MaxTime : WF_vars(timer_fire(<<t, d>>))
  /\ \A t \in Tasks : WF_vars(nanosleep_return(t)) /\ WF_vars(futex_wait_return(t))

Spec == Init /\ [][Next]_vars /\ Fairness

-----------------------------------------------------------------------------
\* Every task not in user mode is blocked in a syscall, and a Ready task is
\* one that was woken and has not yet run the code after its block: a wake
\* (a signal, a timer, a futex wake) never touches a task that is running.
TypeOK ==
  /\ now \in 0..MaxTime
  /\ status \in [Tasks -> {"Running", "Interruptible", "Ready"}]
  /\ pc \in [Tasks -> {User, "nanosleep", "futex"}]
  /\ \A t \in Tasks : (status[t] = "Running") <=> (pc[t] = User)
  /\ fq \in [Addrs -> Seq(Tasks)]
  /\ sigpending \in [Tasks -> BOOLEAN]

\* A task sleeping with a deadline (nanosleep, or a futex wait with a
\* timeout) eventually returns to user mode, unless the kernel panicked.
DeadlineHonoured ==
  \A t \in Tasks : (pc[t] # User /\ wend[t] # NoTimeout)
                     ~> (pc[t] = User \/ assert_failed)

\* The assert!(end <= now) of sys_nanosleep holds: a sleep that returns
\* with no signal pending has reached its deadline.
NanosleepAssertHolds == ~assert_failed
=============================================================================
