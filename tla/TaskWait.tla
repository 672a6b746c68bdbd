------------------------------ MODULE TaskWait ------------------------------
(***************************************************************************)
(* A parent task, the children it clones, and other tasks that send it and *)
(* its children signals: sys_clone/sys_fork, sys_wait4, sys_kill/sys_tkill *)
(* of os/src/syscall/process.rs, with the exit path and the scheduler      *)
(* (task/, not in this repository) modelled from the spec.                 *)
(*                                                                         *)
(* Each step is a stretch of kernel code between two points where another  *)
(* CPU can observe the state: a lock release, a block, a return.  With     *)
(* MultiCore FALSE the kernel is one CPU that is not preempted in kernel   *)
(* mode, so a stretch that begins on the CPU (cpu = the actor) runs to its *)
(* block or return before any other actor moves.                           *)
(*                                                                         *)
(* Children are leaders of their thread group or, for those in Threads,    *)
(* non-leader threads (pid # tgid).  A child's strong count is the         *)
(* Arc::strong_count that sys_wait4 asserts to be 1.                        *)
(***************************************************************************)
EXTENDS Naturals, Sequences, SequencesExt

CONSTANTS
  Parent,      \* the task calling sys_wait4
  Children,    \* the tasks it may clone
  Threads,     \* children that are non-leader threads (pid # tgid)
  Killers,     \* other tasks calling sys_kill / sys_tkill
  MultiCore,   \* TRUE: other CPUs run between the steps of a syscall
  SetTidFails  \* a ptid or ctid given to sys_clone may not translate

ASSUME Threads \subseteq Children /\ MultiCore \in BOOLEAN /\ SetTidFails \in BOOLEAN

None == "None"
AnyChild  == "AnyChild"                \* pid == -1 in sys_wait4

\* Task states: TaskStatus plus the states of a child before clone and
\* after its TCB has been dropped.
Unborn == "Unborn"
Ready == "Ready"             \* Ready or Running: not blocked, not exited
Interruptible == "Interruptible"
Zombie == "Zombie"
Reaped == "Reaped"
Stranded == "Stranded"       \* a TCB sys_clone never handed to the scheduler

VARIABLES
  children,    \* inner.children of the parent, in order
  cstatus,     \* task_status of each child
  strong,      \* Arc::strong_count of each child's TCB
  pstatus,     \* task_status of the parent
  ppc,         \* where the parent is in sys_wait4
  wpid,        \* the pid argument of the current sys_wait4 (AnyChild for -1)
  nohang,      \* WNOHANG in the current sys_wait4
  psig,        \* the parent's sigpending is not empty
  ktarget,     \* the TCB a killer holds between lookup and delivery
  exiting,     \* zombies still on their CPU, holding the scheduler's reference
  cpu          \* actor in a kernel stretch that the single CPU runs through

vars == <<children, cstatus, strong, pstatus, ppc, wpid, nohang, psig,
          ktarget, exiting, cpu>>

Actors == {Parent} \cup Children \cup Killers

\* The CPU is free for actor a.
OnCpu(a) == cpu \in {None, a}
\* a enters a stretch the single CPU runs through.
Hold(a) == cpu' = IF MultiCore THEN None ELSE a

\* Whether the SETTID stores of a sys_clone translate.
SetTidOutcomes == IF SetTidFails THEN BOOLEAN ELSE {TRUE}

Matches(c) == wpid = AnyChild \/ wpid = c
Alive(c) == cstatus[c] \in {Ready, Interruptible}
InChildren(c) == \E i \in DOMAIN children : children[i] = c

\* sys_wait4 returns to user mode; pending signals are handled there.
Return ==
  /\ ppc' = "idle"
  /\ psig' = FALSE
  /\ cpu' = None

Init ==
  /\ children = <<>>
  /\ cstatus = [c \in Children |-> Unborn]
  /\ strong = [c \in Children |-> 0]
  /\ pstatus = Ready
  /\ ppc = "idle"
  /\ wpid = AnyChild
  /\ nohang = FALSE
  /\ psig = FALSE
  /\ ktarget = [k \in Killers |-> None]
  /\ exiting = {}
  /\ cpu = None

(***************************************************************************)
(* The parent.                                                             *)
(***************************************************************************)
\* sys_clone / sys_fork: parent.sys_clone builds the child TCB and puts it
\* in the parent's children list.  With CLONE_PARENT_SETTID or
\* CLONE_CHILD_SETTID the child's pid is then stored through ptid or ctid;
\* a pointer that does not translate (settid_ok FALSE) returns its errno
\* at once, before add_task, and the child's local Arc is dropped: the
\* children list holds the only reference to a child nothing will run.
\* Otherwise add_task hands the child to the scheduler, and the children
\* list and the scheduler each hold a strong reference.
sys_clone(c, settid_ok) ==
  /\ ppc = "idle" /\ OnCpu(Parent)
  /\ cstatus[c] = Unborn
  /\ children' = Append(children, c)
  /\ cstatus' = [cstatus EXCEPT ![c] = IF settid_ok THEN Ready ELSE Stranded]
  /\ strong' = [strong EXCEPT ![c] = IF settid_ok THEN 2 ELSE 1]
  /\ UNCHANGED <<exiting, pstatus, ppc, wpid, nohang, psig, ktarget, cpu>>

\* sys_wait4 is entered with a pid (a child or -1) and options.
wait4_call(w, nh) ==
  /\ ppc = "idle" /\ OnCpu(Parent)
  /\ ppc' = "scan"
  /\ wpid' = w
  /\ nohang' = nh
  /\ Hold(Parent)
  /\ UNCHANGED <<exiting, children, cstatus, strong, pstatus, psig, ktarget>>

\* One pass of the loop under the parent's inner lock: no matching child
\* at all returns ECHILD.
wait4_echild ==
  /\ ppc = "scan" /\ OnCpu(Parent)
  /\ ~\E c \in Children : InChildren(c) /\ Matches(c)
  /\ Return
  /\ UNCHANGED <<exiting, children, cstatus, strong, pstatus, wpid, nohang, ktarget>>

\* (mutant) the leader test is inverted: a leader is reaped silently.
wait4_reap_swapped_leader ==
  LET zs == {i \in DOMAIN children :
               Matches(children[i]) /\ cstatus[children[i]] = Zombie}
      i == Min(zs)
      c == children[i] IN
  /\ ppc = "scan" /\ OnCpu(Parent)
  /\ zs # {}
  /\ children' = RemoveAt(children, i)
  /\ cstatus' = [cstatus EXCEPT ![c] = Reaped]
  /\ strong' = [strong EXCEPT ![c] = @ - 1]
  /\ IF c \in Threads
     THEN Return
     ELSE UNCHANGED <<ppc, psig, cpu>>
  /\ UNCHANGED <<exiting, pstatus, wpid, nohang, ktarget>>

\* The first matching zombie in the list is removed and its TCB dropped
\* (the code asserts strong_count == 1 first).  A leader's pid is returned;
\* a non-leader thread is dropped silently and the loop goes round again.
wait4_reap ==
  LET zs == {i \in DOMAIN children :
               Matches(children[i]) /\ cstatus[children[i]] = Zombie}
      i == Min(zs)
      c == children[i] IN
  /\ ppc = "scan" /\ OnCpu(Parent)
  /\ zs # {}
  /\ children' = RemoveAt(children, i)
  /\ cstatus' = [cstatus EXCEPT ![c] = Reaped]
  /\ strong' = [strong EXCEPT ![c] = @ - 1]
  /\ IF c \notin Threads
     THEN Return
     ELSE UNCHANGED <<ppc, psig, cpu>>
  /\ UNCHANGED <<exiting, pstatus, wpid, nohang, ktarget>>

\* A matching child exists but none is a zombie: the lock is dropped, and
\* WNOHANG returns 0; otherwise the parent goes on to block.
wait4_no_zombie ==
  /\ ppc = "scan" /\ OnCpu(Parent)
  /\ \E c \in Children : InChildren(c) /\ Matches(c)
  /\ ~\E c \in Children : InChildren(c) /\ Matches(c) /\ cstatus[c] = Zombie
  /\ IF nohang
     THEN Return
     ELSE ppc' = "blocking" /\ UNCHANGED <<psig, cpu>>
  /\ UNCHANGED <<exiting, children, cstatus, strong, pstatus, wpid, nohang, ktarget>>

\* block_current_and_run_next: the parent marks itself Interruptible and
\* switches away, whatever happened since the lock was dropped.
wait4_block ==
  /\ ppc = "blocking" /\ OnCpu(Parent)
  /\ ppc' = "blocked"
  /\ pstatus' = Interruptible
  /\ cpu' = None
  /\ UNCHANGED <<exiting, children, cstatus, strong, wpid, nohang, psig, ktarget>>

\* Woken (Ready), the parent is scheduled again and resumes the loop.
wait4_resume ==
  /\ ppc = "blocked" /\ pstatus = Ready /\ OnCpu(Parent)
  /\ ppc' = "scan"
  /\ Hold(Parent)
  /\ UNCHANGED <<exiting, children, cstatus, strong, pstatus, wpid, nohang, psig,
                 ktarget>>

(***************************************************************************)
(* The children: exit_current_and_run_next (modelled from the spec).       *)
(***************************************************************************)
\* Under its own lock the child becomes a Zombie; the parent, if blocked,
\* is woken as sys_kill wakes a task: only when it is Interruptible.
exit_mark(c) ==
  /\ cstatus[c] = Ready /\ OnCpu(c)
  /\ cstatus' = [cstatus EXCEPT ![c] = Zombie]
  /\ pstatus' = IF pstatus = Interruptible THEN Ready ELSE pstatus
  /\ exiting' = exiting \cup {c}
  /\ Hold(c)
  /\ UNCHANGED <<children, strong, ppc, wpid, nohang, psig, ktarget>>

\* The exiting child then drops the scheduler's reference and switches
\* away for ever.
exit_release(c) ==
  /\ c \in exiting /\ OnCpu(c)
  /\ strong' = [strong EXCEPT ![c] = @ - 1]
  /\ exiting' = exiting \ {c}
  /\ cpu' = None
  /\ UNCHANGED <<children, cstatus, pstatus, ppc, wpid, nohang, psig, ktarget>>

(***************************************************************************)
(* Other tasks: sys_kill / sys_tkill.                                      *)
(***************************************************************************)
\* (mutant) the lookup hands out the TCB without cloning the Arc.
kill_lookup_no_clone(k, t) ==
  /\ ktarget[k] = None /\ OnCpu(k)
  /\ t = Parent \/ (t \in Children /\ Alive(t))
  /\ ktarget' = [ktarget EXCEPT ![k] = t]
  /\ Hold(k)
  /\ UNCHANGED <<exiting, children, cstatus, strong, pstatus, ppc, wpid, nohang, psig>>

\* find_task_by_tgid / find_task_by_pid returns a strong reference to a
\* live task.  The task manager it searches (task/, not in this
\* repository) holds the tasks add_task was given, not a Stranded child.
kill_lookup(k, t) ==
  /\ ktarget[k] = None /\ OnCpu(k)
  /\ t = Parent \/ (t \in Children /\ Alive(t))
  /\ ktarget' = [ktarget EXCEPT ![k] = t]
  /\ strong' = IF t = Parent THEN strong ELSE [strong EXCEPT ![t] = @ + 1]
  /\ Hold(k)
  /\ UNCHANGED <<exiting, children, cstatus, pstatus, ppc, wpid, nohang, psig>>

\* (mutant) the reference taken by the lookup is never dropped.
kill_deliver_keep_ref(k) ==
  LET t == ktarget[k] IN
  /\ t # None /\ OnCpu(k)
  /\ psig' = IF t = Parent THEN TRUE ELSE psig
  /\ pstatus' = IF t = Parent /\ pstatus = Interruptible THEN Ready
                ELSE pstatus
  /\ ktarget' = [ktarget EXCEPT ![k] = None]
  /\ cpu' = None
  /\ UNCHANGED <<exiting, children, cstatus, strong, ppc, wpid, nohang>>

\* Under the target's lock the signal is added, and an Interruptible target
\* is set Ready and woken; the reference is dropped at the end of the call.
kill_deliver(k) ==
  LET t == ktarget[k] IN
  /\ t # None /\ OnCpu(k)
  /\ psig' = IF t = Parent THEN TRUE ELSE psig
  /\ pstatus' = IF t = Parent /\ pstatus = Interruptible THEN Ready
                ELSE pstatus
  /\ strong' = IF t = Parent THEN strong ELSE [strong EXCEPT ![t] = @ - 1]
  /\ ktarget' = [ktarget EXCEPT ![k] = None]
  /\ cpu' = None
  /\ UNCHANGED <<exiting, children, cstatus, ppc, wpid, nohang>>

Next ==
  \/ \E c \in Children, ok \in SetTidOutcomes : sys_clone(c, ok)
  \/ \E w \in Children \cup {AnyChild}, nh \in BOOLEAN : wait4_call(w, nh)
  \/ wait4_echild \/ wait4_reap \/ wait4_no_zombie
  \/ wait4_block \/ wait4_resume
  \/ \E c \in Children : exit_mark(c) \/ exit_release(c)
  \/ \E k \in Killers, t \in Children \cup {Parent} : kill_lookup(k, t)
  \/ \E k \in Killers : kill_deliver(k)

\* A task on a CPU in the kernel runs until it blocks or returns.  The
\* scheduler's ready queue is round robin, so a Ready task that other tasks
\* keep pre-empting on the CPU still runs eventually (strong fairness).  A
\* child need not ever exit and no task need ever send a signal.
Fairness ==
  /\ WF_vars(wait4_echild \/ wait4_reap \/ wait4_no_zombie)
  /\ WF_vars(wait4_block)
  /\ SF_vars(wait4_resume)
  /\ \A c \in Children : WF_vars(exit_release(c))
  /\ \A k \in Killers : WF_vars(kill_deliver(k))

Spec == Init /\ [][Next]_vars /\ Fairness

(***************************************************************************)
(* Properties.                                                             *)
(***************************************************************************)
TypeOK ==
  /\ children \in Seq(Children)
  /\ cstatus \in [Children -> {Unborn, Ready, Interruptible, Zombie, Reaped, Stranded}]
  /\ strong \in [Children -> Nat]
  /\ pstatus \in {Ready, Interruptible}
  /\ ppc \in {"idle", "scan", "blocking", "blocked"}
  /\ wpid \in Children \cup {AnyChild} /\ nohang \in BOOLEAN /\ psig \in BOOLEAN
  /\ ktarget \in [Killers -> Children \cup {Parent, None}]
  /\ exiting \subseteq Children
  /\ cpu \in Actors \cup {None}

\* The assertion of sys_wait4: when a zombie is removed from the children
\* list, that list holds the only strong reference to it, so the TCB is
\* freed there (no exiting CPU or concurrent sys_kill still uses it).
ReapSoleOwner ==
  [][\A c \in Children :
       cstatus[c] # Reaped /\ cstatus'[c] = Reaped => strong[c] = 1]_vars

\* A parent in sys_wait4 for which a matching leader child is a zombie
\* eventually returns (the exit of the child wakes it if it has blocked).
LeaderZombieWaiting ==
  /\ ppc \in {"scan", "blocking", "blocked"}
  /\ \E c \in Children \ Threads :
       InChildren(c) /\ Matches(c) /\ cstatus[c] = Zombie
WaitReturns == LeaderZombieWaiting ~> ppc = "idle"

\* Spec 4.3/5: a pending signal moves a blocked task back to Ready; no task
\* stays blocked in sys_wait4 with a signal pending.
NoBlockWithPendingSignal == pstatus = Interruptible => ~psig

\* Spec 4.3: clone enqueues the new task into the scheduler's ready set.
\* Every child in the parent's children list is one the scheduler runs or
\* has run, so a sys_wait4 for it can end.  sys_clone's error return after
\* a failed SETTID store (process.rs:481) leaves a child that never runs.
ChildrenScheduled == \A c \in Children : InChildren(c) => cstatus[c] # Stranded
=============================================================================
