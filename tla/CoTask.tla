------------------------------- MODULE CoTask -------------------------------
(***************************************************************************)
(* CoTask (src/lib/cotask/CoTask.h): coroutines that call, await and       *)
(* destroy each other, on the foreground thread and on pool threads.       *)
(*                                                                         *)
(* A call runs the new coroutine at once, on top of its caller, until it   *)
(* first suspends itself.  Whoever called it holds the CoTask and awaits   *)
(* it, or pumps messages in GetResult() until it is done, or has given it  *)
(* to the dispatcher (StartThread), which scavenges it.  The end of a task *)
(* is three steps of its thread: handle.done() becomes true, final_suspend *)
(* reads the precursor, the precursor is resumed in its place; and         *)
(* co_await is two: await_ready() and await_suspend().  No mutex makes     *)
(* either one step, so that on two threads two things go wrong: the        *)
(* precursor is written after it was read, and the frame is destroyed      *)
(* before it is.  The model takes both steps, and remembers who took them. *)
(*                                                                         *)
(* What a coroutine waits for, other than a task, is a hop: it suspends    *)
(* itself and its handle is posted to the foreground or to the pool, as    *)
(* CoForeground(), CoBackground(), and every service that has its result,  *)
(* do.  The queues are sets: their order is CoDispatcher's business.       *)
(***************************************************************************)
EXTENDS Naturals, Sequences, FiniteSets

CONSTANTS
  Tasks,        \* coroutines
  Foreground,   \* the foreground thread
  PoolThreads,
  NoTask,
  MaxHops,      \* the bound on a task's hops, except back to the foreground
  Pumpers       \* coroutines that call GetResult(), not only co_await

ASSUME TasksAssumption ==
  /\ Foreground \notin PoolThreads /\ NoTask \notin Tasks
  /\ Pumpers \subseteq Tasks /\ MaxHops \in Nat

VARIABLES
  stack,         \* of each thread: the coroutines that run, each called by or pumped by the last
  status,        \* of each coroutine
  postedHandles, \* handles in the dispatcher's queue and in the pool's
  precursor,     \* promise_type::precursor
  owner,         \* who holds the CoTask, NoTask for the dispatcher's coroutineThreads
  awaited,       \* the task that a coroutine tests, awaits or pumps for
  destroyed,     \* frames that were freed
  hops,
  tooLate,       \* coroutines that became the precursor of a task that had looked for one
  tooSoon,       \* frames freed when done() was true and the precursor not yet read
  crashed        \* the precursor was read in a freed frame, and something else was there

races == <<tooLate, tooSoon, crashed>>
taskVars == <<stack, status, postedHandles, precursor, owner, awaited, destroyed, hops, races>>

AllThreads == {Foreground} \cup PoolThreads
Places  == {"foreground", "pool"}

\* "testing" is between await_ready() and await_suspend(), "final" at the final suspend
\* point with the precursor still to be read.
Status == {"unborn", "running", "testing", "awaiting", "pumping", "posted", "final", "done"}

TaskTypeOK ==
  /\ stack \in [AllThreads -> Seq(Tasks)]
  /\ status \in [Tasks -> Status]
  /\ postedHandles \in [Places -> SUBSET Tasks]
  /\ precursor \in [Tasks -> Tasks \cup {NoTask}]
  /\ owner \in [Tasks -> Tasks \cup {NoTask}]
  /\ awaited \in [Tasks -> Tasks \cup {NoTask}]
  /\ destroyed \subseteq Tasks
  /\ hops \in [Tasks -> 0..MaxHops]
  /\ tooLate \subseteq Tasks /\ tooSoon \subseteq Tasks /\ crashed \in BOOLEAN

TaskInit ==
  /\ stack = [th \in AllThreads |-> <<>>]
  /\ status = [t \in Tasks |-> "unborn"]
  /\ postedHandles = [p \in Places |-> {}]
  /\ precursor = [t \in Tasks |-> NoTask]
  /\ owner = [t \in Tasks |-> NoTask]
  /\ awaited = [t \in Tasks |-> NoTask]
  /\ destroyed = {}
  /\ hops = [t \in Tasks |-> 0]
  /\ tooLate = {} /\ tooSoon = {} /\ crashed = FALSE

Top(th) == IF stack[th] = <<>> THEN NoTask ELSE stack[th][Len(stack[th])]
Push(th, t) == [stack EXCEPT ![th] = Append(@, t)]
Pop(th) == [stack EXCEPT ![th] = SubSeq(@, 1, Len(@) - 1)]
IsRunning(th, t) == Top(th) = t /\ t \in Tasks /\ status[t] = "running"

\* The thread looks into its queue: it has nothing to run, or is in GetResult().
Idles(th) == stack[th] = <<>> /\ ~crashed

Pumps(th) ==
  \/ Idles(th)
  \/ th = Foreground /\ Top(th) \in Tasks /\ status[Top(th)] = "pumping"

\* handle.done()
Done(t) == status[t] \in {"final", "done"}

\* handle.destroy(), by a thread that has seen done(): final_suspend may still have to read
\* the precursor in this frame, on the thread that the task ended on.
Destroy(t) ==
  /\ destroyed' = destroyed \cup {t}
  /\ tooSoon' = IF status[t] = "final" THEN tooSoon \cup {t} ELSE tooSoon
  /\ UNCHANGED <<tooLate, crashed>>

-----------------------------------------------------------------------------
\* A coroutine, or the main program on the foreground thread, calls a coroutine.
Call(th, c, holder) ==
  /\ status[c] = "unborn"
  /\ \/ holder \in Tasks /\ IsRunning(th, holder)
     \/ holder = NoTask /\ th = Foreground /\ (Idles(th) \/ IsRunning(th, Top(th)))
  /\ stack' = Push(th, c)
  /\ status' = [status EXCEPT ![c] = "running"]
  /\ owner' = [owner EXCEPT ![c] = holder]
  /\ UNCHANGED <<postedHandles, precursor, awaited, destroyed, hops, races>>

\* co_await on anything but a task; the thread goes on with the coroutine below.
Hop(th, t, place) ==
  /\ IsRunning(th, t)
  /\ IF th # Foreground /\ place = "foreground"
     THEN UNCHANGED hops
     ELSE hops[t] < MaxHops /\ hops' = [hops EXCEPT ![t] = @ + 1]
  /\ status' = [status EXCEPT ![t] = "posted"]
  /\ postedHandles' = [postedHandles EXCEPT ![place] = @ \cup {t}]
  /\ stack' = Pop(th)
  /\ UNCHANGED <<precursor, owner, awaited, destroyed, races>>

\* PumpMessages(), or a thread of the pool, resumes a handle.
ResumePosted(th, t) ==
  LET place == IF th = Foreground THEN "foreground" ELSE "pool" IN
  /\ Pumps(th) /\ t \in postedHandles[place]
  /\ postedHandles' = [postedHandles EXCEPT ![place] = @ \ {t}]
  /\ status' = [status EXCEPT ![t] = "running"]
  /\ stack' = Push(th, t)
  /\ UNCHANGED <<precursor, owner, awaited, destroyed, hops, races>>

MayAwait(th, p, c) ==
  IsRunning(th, p) /\ owner[c] = p /\ c \notin destroyed /\ status[c] # "unborn"

\* await_ready() is true: await_resume(), and the end of the task's scope.
AwaitDone(th, p, c) ==
  /\ MayAwait(th, p, c) /\ Done(c) /\ Destroy(c)
  /\ UNCHANGED <<stack, status, postedHandles, precursor, owner, awaited, hops>>

AwaitReady(th, p, c) ==
  /\ MayAwait(th, p, c) /\ ~Done(c)
  /\ status' = [status EXCEPT ![p] = "testing"]
  /\ awaited' = [awaited EXCEPT ![p] = c]
  /\ UNCHANGED <<stack, postedHandles, precursor, owner, destroyed, hops, races>>

\* The task may have come to its end since, and even to the end of final_suspend.
AwaitSuspend(th, p) ==
  /\ Top(th) = p /\ p \in Tasks /\ status[p] = "testing"
  /\ precursor' = [precursor EXCEPT ![awaited[p]] = p]
  /\ tooLate' = IF status[awaited[p]] = "done" THEN tooLate \cup {p} ELSE tooLate
  /\ status' = [status EXCEPT ![p] = "awaiting"]
  /\ stack' = Pop(th)
  /\ UNCHANGED <<postedHandles, owner, awaited, destroyed, hops, tooSoon, crashed>>

\* GetResult() on the foreground thread: from a destructor, or outside of coroutines
\* (which is ScavengeTasks' case below).
GetResult(p, c) ==
  /\ p \in Pumpers /\ MayAwait(Foreground, p, c)
  /\ status' = [status EXCEPT ![p] = "pumping"]
  /\ awaited' = [awaited EXCEPT ![p] = c]
  /\ UNCHANGED <<stack, postedHandles, precursor, owner, destroyed, hops, races>>

StopsAtOnce(c) == status[c] # "unborn"  \* a mutant: does not wait for the end
StopsPumping(c) == Done(c)

GetResultReturns(p) ==
  /\ Top(Foreground) = p /\ p \in Tasks /\ status[p] = "pumping"
  /\ StopsPumping(awaited[p])
  /\ status' = [status EXCEPT ![p] = "running"]
  /\ Destroy(awaited[p])
  /\ UNCHANGED <<stack, postedHandles, precursor, owner, awaited, hops>>

\* A task that has seen the end of the tasks it called comes to its own.
End(th, t) ==
  /\ IsRunning(th, t)
  /\ \A c \in Tasks : owner[c] = t => c \in destroyed
  /\ status' = [status EXCEPT ![t] = "final"]
  /\ UNCHANGED <<stack, postedHandles, precursor, owner, awaited, destroyed, hops, races>>

ForgetsPrecursor(t) == FALSE  \* a mutant
HasPrecursor(t) == precursor[t] # NoTask

\* final_suspend: nobody awaits the task, the thread goes on with what is below it.  That is
\* also what it reads in a freed frame that nobody has written to.
FinalSuspend(th, t) ==
  /\ Top(th) = t /\ t \in Tasks /\ status[t] = "final" /\ ~HasPrecursor(t)
  /\ status' = [status EXCEPT ![t] = "done"]
  /\ stack' = Pop(th)
  /\ UNCHANGED <<postedHandles, precursor, owner, awaited, destroyed, hops, races>>

\* Or somebody does: the thread goes on with that coroutine, which takes the result and
\* destroys the task.
StaysBelow(th, p) == Pop(th)  \* a mutant: the precursor is forgotten
Continuation(th, p) == [stack EXCEPT ![th] = Append(SubSeq(@, 1, Len(@) - 1), p)]

FinalResume(th, t) ==
  /\ Top(th) = t /\ t \in Tasks /\ status[t] = "final" /\ HasPrecursor(t)
  /\ status' = [status EXCEPT ![t] = "done", ![precursor[t]] = "running"]
  /\ stack' = Continuation(th, precursor[t])
  /\ destroyed' = destroyed \cup {t}
  /\ UNCHANGED <<postedHandles, precursor, owner, awaited, hops, races>>

\* Or the frame is gone, and what the thread reads and jumps to is not a handle.
FinalCrash(th, t) ==
  /\ Top(th) = t /\ t \in destroyed /\ status[t] = "final"
  /\ crashed' = TRUE
  /\ stack' = [x \in AllThreads |-> <<>>]
  /\ postedHandles' = [place \in Places |-> {}]
  /\ UNCHANGED <<status, precursor, owner, awaited, destroyed, hops, tooLate, tooSoon>>

\* The dispatcher destroys those of its coroutineThreads that are done: after pumping,
\* and when another one is started.
ScavengeTask(t) ==
  /\ Pumps(Foreground) \/ IsRunning(Foreground, Top(Foreground))
  /\ owner[t] = NoTask /\ Done(t) /\ t \notin destroyed /\ Destroy(t)
  /\ UNCHANGED <<stack, status, postedHandles, precursor, owner, awaited, hops>>

-----------------------------------------------------------------------------
\* What a thread does that has something to do.
Advance(th) ==
  \E t \in Tasks :
    \/ \E place \in Places : Hop(th, t, place)
    \/ ResumePosted(th, t)
    \/ \E c \in Tasks : AwaitDone(th, t, c) \/ AwaitReady(th, t, c)
    \/ AwaitSuspend(th, t)
    \/ End(th, t) \/ FinalSuspend(th, t) \/ FinalResume(th, t) \/ FinalCrash(th, t)

PumpInGetResult == \E p \in Tasks : GetResultReturns(p) \/ \E c \in Tasks : GetResult(p, c)

TaskNext ==
  \/ \E th \in AllThreads : Advance(th)
  \/ \E th \in AllThreads, c \in Tasks, holder \in Tasks \cup {NoTask} : Call(th, c, holder)
  \/ PumpInGetResult
  \/ \E t \in Tasks : ScavengeTask(t)

TaskSpec == TaskInit /\ [][TaskNext]_taskVars

\* Threads run and the foreground pumps; a task does not suspend itself for ever, since its
\* hops are bounded.
TaskFairSpec ==
  /\ TaskSpec
  /\ \A th \in AllThreads : WF_taskVars(Advance(th))
  /\ WF_taskVars(PumpInGetResult)
  /\ \A t \in Tasks : WF_taskVars(ScavengeTask(t))

-----------------------------------------------------------------------------
(* Properties. *)

\* A coroutine that awaits a task will be continued: the task has not yet looked for its
\* precursor, unless it had when the coroutine made itself known.
NoLostContinuation ==
  \A p \in Tasks : status[p] = "awaiting" =>
    p \in tooLate \/ (status[awaited[p]] # "done" /\ precursor[awaited[p]] = p)

\* No frame is freed that a thread has yet to run, or to leave its precursor in, or to look at
\* the precursor of, unless it is destroyed between the last two steps of its coroutine.
NoUseAfterDestroy ==
  \A t \in destroyed :
    /\ \A th \in AllThreads : \A i \in 1..Len(stack[th]) :
         stack[th][i] = t => t \in tooSoon /\ status[t] = "final"
    /\ \A place \in Places : t \notin postedHandles[place]
    /\ \A p \in Tasks : status[p] \in {"testing", "pumping"} => awaited[p] # t

\* A frame is continued while it is there, and freed when nobody needs it.
Safe == NoLostContinuation /\ NoUseAfterDestroy

\* Who waits for a coroutine that is never continued: itself, who holds a task that waits,
\* and who is below a pumping coroutine that does.
IsHeldUp(t) ==
  \A waiting \in SUBSET Tasks :
    /\ tooLate \subseteq waiting
    /\ \A w \in waiting : owner[w] \in waiting \cup {NoTask}
    /\ \A i, j \in 1..Len(stack[Foreground]) :
         i < j /\ stack[Foreground][j] \in waiting => stack[Foreground][i] \in waiting
    => t \in waiting

\* Every coroutine that is called ends and its frame is freed, unless a continuation was lost
\* that it waits for, or that its holder waits for, or the program has crashed.
TasksEnd ==
  \A t \in Tasks : status[t] = "running" ~>
    t \in destroyed \/ (\E w \in {t, owner[t]} : IsHeldUp(w)) \/ crashed

\* "If we co_await a coroutine within another coroutine, this handle will be used to continue
\* working from where we left off" (CoTask.h): who awaits a task is continued by its end.  It
\* is not, when the task ends on another thread between await_ready() and await_suspend().
PrecursorIsUsed ==
  \A p \in Tasks : status[p] = "awaiting" => status[awaited[p]] # "done"

\* "No need to suspend if this task has no outstanding work" (CoTask.h, of handle.done()):
\* a task that is done has nothing left to do in its frame, and its holder may destroy it.
\* It has: final_suspend reads the precursor.
DoneIsDone ==
  \A t \in destroyed : \A th \in AllThreads : Top(th) # t
=============================================================================
