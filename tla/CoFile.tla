------------------------------- MODULE CoFile -------------------------------
(***************************************************************************)
(* CoFile (src/lib/CoFile.cpp): sockets that coroutines read from and      *)
(* write to, one reader and one writer for each file as in this program,   *)
(* and that others close while they do.  A read or a write makes its       *)
(* system call with the mutex of its condition variable (readCv, writeCv), *)
(* and waits for the epoll thread of AsyncIo when it would block.          *)
(*                                                                         *)
(* One step is what is done between two acquisitions of a mutex or two     *)
(* system calls.  The condition variables are the ones of                  *)
(* CoConditionVariable, here at the level of what they promise: a wait     *)
(* tests its condition at once and whenever it is notified.                *)
(***************************************************************************)
EXTENDS AsyncIo

CONSTANTS
  Programs, \* what is done with the files (see Program)
  Closers   \* callers of Close() and of the destructor

Sides == {"read", "write"}
Kinds(side) == IF side = "read" THEN {"recv", "read"} ELSE {"send", "write"}
Ops == Files \X Sides

\* The kinds of the operations on the files that stay here, and which of them have a
\* timeout; the files that somebody closes, and those that are meant for a child
\* process; what the other end of a file does.
IsProgram(p) ==
  /\ DOMAIN p.ops \subseteq Ops /\ \A o \in DOMAIN p.ops : p.ops[o] \in Kinds(o[2])
  /\ p.timed \subseteq DOMAIN p.ops /\ p.closed \subseteq Files
  /\ p.peer \subseteq Files \X {"sends", "reads", "closes"}
  /\ p.remote \subseteq {f \in Files : \A o \in DOMAIN p.ops : o[1] # f}

ASSUME ProgramsAssumption == \A p \in Programs : IsProgram(p)

VARIABLES
  file,    \* per file: fd, closed, closing, deleted, pendingOperations
  ready,   \* readReady and writeReady of each file
  op,      \* per member of Ops: where it is, its kind, units transferred
  closer,  \* per closer: where it is, its file
  program  \* which of Programs is running

vars == <<asyncVars, file, ready, op, closer, program>>

Want == 2  \* units that CoRead() and CoWrite() are called for

NewFile == [fd |-> NoFd, closed |-> TRUE, closing |-> FALSE, deleted |-> FALSE, ops |-> 0]
NoOp == [pc |-> "idle", kind |-> "recv", got |-> 0]
NoCloser == [pc |-> "idle", file |-> CHOOSE f \in Files : TRUE]

TypeOK ==
  /\ file \in [Files -> [fd : Fds \cup {NoFd}, closed : BOOLEAN, closing : BOOLEAN,
                         deleted : BOOLEAN, ops : 0..Cardinality(Sides)]]
  /\ ready \in [Files -> [Sides -> BOOLEAN]]
  /\ op \in [Ops -> [pc : {"idle", "lock", "check", "io", "reset", "enter", "waiting"},
                     kind : Kinds("read") \cup Kinds("write"), got : 0 .. Want - 1]]
  /\ closer \in [Closers -> [pc : {"idle", "read", "write", "fd", "unwatch", "join", "pump"},
                             file : Files]]

NewFiles == [f \in Files |-> NewFile]
NotReady == [f \in Files |-> [s \in Sides |-> FALSE]]
NoOps == [o \in Ops |-> NoOp]
NoClosers == [c \in Closers |-> NoCloser]

Init ==
  /\ AsyncInit
  /\ file = NewFiles /\ ready = NotReady /\ op = NoOps /\ closer = NoClosers
  /\ program \in Programs

\* The mutex of readCv or writeCv, held across steps by an operation only.
Holds(o) == op[o].pc \in {"check", "io", "reset"}
MutexIsFree(f, side) == \A o \in Ops : o = <<f, side>> => ~Holds(o)
Closing(f) == \E c \in Closers : closer[c].pc # "idle" /\ closer[c].file = f

-----------------------------------------------------------------------------
(* Opening.  A file is opened by its owner, when nobody closes it. *)

TakeFds(fdOf) ==
  /\ \A f \in DOMAIN fdOf : /\ file[f].fd = NoFd /\ ~file[f].deleted /\ ~Closing(f)
                            /\ owner[fdOf[f]] = Nobody
  /\ owner' = [d \in Fds |-> IF \E f \in DOMAIN fdOf : fdOf[f] = d
                             THEN CHOOSE f \in DOMAIN fdOf : fdOf[f] = d ELSE owner[d]]
  /\ sock' = [f \in Files |-> IF f \in DOMAIN fdOf
                              THEN [in |-> 0, out |-> MaxData, eof |-> FALSE] ELSE sock[f]]
  /\ file' = [f \in Files |-> IF f \in DOMAIN fdOf
                              THEN [file[f] EXCEPT !.fd = fdOf[f], !.closed = FALSE,
                                                   !.closing = FALSE] ELSE file[f]]
  /\ ready' = [f \in Files |-> IF f \in DOMAIN fdOf THEN [s \in Sides |-> TRUE] ELSE ready[f]]
  /\ WatchFile(fdOf)
  /\ UNCHANGED <<batch, stolen, crashed, op, closer>>

Users == {o[1] : o \in DOMAIN program.ops}

\* A new descriptor has the lowest number that is free.
LowestFree(used) == {d \in Fds \ used : /\ owner[d] = Nobody
                                        /\ \A e \in Fds \ used : owner[e] = Nobody => d =< e}

Attach(f) == f \in Users /\ \E d \in LowestFree({}) : TakeFds([g \in {f} |-> d])

\* f stays here, g is meant for a child process.
CreateSocketPair(f, g) ==
  /\ f \in Users /\ g \in program.remote
  /\ \E d \in LowestFree({}) : \E e \in LowestFree({d}) :
       TakeFds([h \in {f, g} |-> IF h = f THEN d ELSE e])

\* Detach() of an end that goes to a child process: nobody reads from it or writes to it,
\* and whoever made the pair has not closed it yet.
Detach(f) ==
  /\ f \in program.remote /\ file[f].fd # NoFd /\ ~Closing(f)
  /\ UnwatchFile(f)
  /\ owner' = [owner EXCEPT ![file[f].fd] = Child]
  /\ file' = [file EXCEPT ![f].fd = NoFd, ![f].closed = TRUE]
  /\ UNCHANGED <<sock, nextHandle, batch, crashed, ready, op, closer>>

\* The child has been started, and the daemon closes its copy of the descriptor.
Spawned(d) ==
  /\ owner[d] = Child
  /\ CloseFd(d)
  /\ UNCHANGED <<sock, nextHandle, epollEvents, batch, stolen, crashed, file, ready, op, closer>>

-----------------------------------------------------------------------------
(* CoRead(), CoRecv(), CoWrite() and CoSend(). *)

Go(o, pc) == op' = [op EXCEPT ![o].pc = pc]

NotCounted(f) == file  \* a mutant: OpsLock does not count
Counted(f) == [file EXCEPT ![f].ops = @ + 1]

\* The OpsLock; CoSend() resets writeReady before it has the mutex.
Start(o) ==
  /\ o \in DOMAIN program.ops /\ op[o].pc = "idle" /\ ~file[o[1]].deleted /\ file[o[1]].fd # NoFd
  /\ op' = [op EXCEPT ![o] = [pc |-> "lock", kind |-> program.ops[o], got |-> 0]]
  /\ file' = Counted(o[1])
  /\ ready' = [ready EXCEPT ![o[1]][o[2]] = @ /\ program.ops[o] # "send"]
  /\ UNCHANGED <<asyncVars, closer>>

\* It returns or throws, and ~OpsLock() notifies closeCv.
End(o) ==
  /\ op' = [op EXCEPT ![o] = NoOp]
  /\ file' = [file EXCEPT ![o[1]].ops = IF @ > 0 THEN @ - 1 ELSE 0]

CheckClosed(o) ==
  /\ op[o].pc \in {"lock", "check"}
  /\ IF file[o[1]].closed THEN End(o) ELSE Go(o, "io") /\ UNCHANGED file
  /\ UNCHANGED <<asyncVars, ready, closer>>

\* The system call transfers a unit; CoRead() and CoWrite() call again until they have all.
Transfer(o) ==
  /\ op[o].pc = "io" /\ file[o[1]].fd # NoFd
  /\ IF o[2] = "read" THEN sock[o[1]].in > 0 ELSE sock[o[1]].out > 0 /\ ~sock[o[1]].eof
  /\ sock' = IF o[2] = "read" THEN [sock EXCEPT ![o[1]].in = @ - 1]
                              ELSE [sock EXCEPT ![o[1]].out = @ - 1]
  /\ IF op[o].kind \in {"recv", "send"} \/ op[o].got + 1 = Want
     THEN End(o)
     ELSE op' = [op EXCEPT ![o].pc = "check", ![o].got = @ + 1] /\ UNCHANGED file
  /\ UNCHANGED <<owner, interest, pending, nextHandle, epollEvents, batch, stolen, crashed,
                 ready, closer>>

\* End of file, an error (of which EBADF is one), or no more for a CoRead() that has some.
NoTransfer(o) ==
  /\ op[o].pc = "io"
  /\ \/ file[o[1]].fd = NoFd
     \/ sock[o[1]].eof /\ (o[2] = "write" \/ sock[o[1]].in = 0)
     \/ op[o].kind = "read" /\ op[o].got > 0 /\ sock[o[1]].in = 0
  /\ End(o)
  /\ UNCHANGED <<asyncVars, ready, closer>>

\* EAGAIN.  (In the mutant the mutex is released at once.)
WouldBlock(o) ==
  /\ op[o].pc = "io" /\ file[o[1]].fd # NoFd
  /\ ~Ready(o[1], o[2]) /\ ~(op[o].kind = "read" /\ op[o].got > 0)
  /\ Go(o, "reset")
  /\ UNCHANGED <<asyncVars, file, ready, closer>>

\* CoWrite() does not reset writeReady, and its wait may return at once.
ResetReady(o) ==
  /\ op[o].pc = "reset"
  /\ ready' = [ready EXCEPT ![o[1]][o[2]] = @ /\ op[o].kind = "write"]
  /\ Go(o, "enter")
  /\ UNCHANGED <<asyncVars, file, closer>>

Wait(o) ==
  /\ op[o].pc = "enter" /\ MutexIsFree(o[1], o[2])
  /\ Go(o, IF ready[o[1]][o[2]] \/ file[o[1]].closed THEN "lock" ELSE "waiting")
  /\ UNCHANGED <<asyncVars, file, ready, closer>>

TimesOut(o) ==
  /\ op[o].pc = "waiting" /\ o \in program.timed
  /\ End(o)
  /\ UNCHANGED <<asyncVars, ready, closer>>

-----------------------------------------------------------------------------
(* The callback of WatchFile(), on the epoll thread: Notify() of readCv, then of writeCv. *)

Awoken(f, sides) ==
  [o \in Ops |-> IF o[1] = f /\ o[2] \in sides /\ op[o].pc = "waiting"
                 THEN [op[o] EXCEPT !.pc = "lock"] ELSE op[o]]

\* The mutex that the callback needs next.  (The mutant needs none.)
NeedsNone(b) == TRUE
CanNotify(b) == MutexIsFree(b.file, NextSide(b))

Callback(b) ==
  /\ IsNext(b) /\ CanNotify(b) /\ ~file[b.file].deleted
  /\ ready' = [ready EXCEPT ![b.file][NextSide(b)] = TRUE]
  /\ op' = Awoken(b.file, {NextSide(b)})
  /\ Reported(b, NextSide(b))
  /\ UNCHANGED <<file, closer>>

AllIsLost ==
  ProcessEnds /\ file' = NewFiles /\ ready' = NotReady /\ op' = NoOps /\ closer' = NoClosers

\* The timeout, which is on another thread, comes between the Notify() that has taken the
\* wait off the list and its call of the wait: it takes the wait for cancelled, as it does one
\* that has ended (see OnTimedOut in CoConditionVariable).  Both resume the operation, or it
\* is as if only one of them did (Callback, TimesOut).
ResumedTwice(b, o) ==
  /\ IsNext(b) /\ CanNotify(b) /\ ~file[b.file].deleted
  /\ o = <<b.file, NextSide(b)>> /\ op[o].pc = "waiting" /\ o \in program.timed
  /\ AllIsLost

-----------------------------------------------------------------------------
(* Close(), CoClose() and the destructor. *)

CloserAt(c, pc) == closer' = [closer EXCEPT ![c].pc = pc]

\* A second Close() returns at once.  The destructor begins with a Close(), too.
CloseBegins(c, f) ==
  /\ closer[c].pc = "idle" /\ ~file[f].deleted /\ ~file[f].closed /\ ~file[f].closing
  /\ file' = [file EXCEPT ![f].closed = TRUE, ![f].closing = TRUE]
  /\ closer' = [closer EXCEPT ![c] = [pc |-> "read", file |-> f]]
  /\ UNCHANGED <<asyncVars, ready, op>>

\* ~CoFile() after its Close(): messages are pumped until nothing is pending.
DeleteBegins(c, f) ==
  /\ closer[c].pc = "idle" /\ ~file[f].deleted /\ file[f].closed /\ ~Closing(f)
  /\ closer' = [closer EXCEPT ![c] = [pc |-> "pump", file |-> f]]
  /\ UNCHANGED <<asyncVars, file, ready, op>>

\* NotifyAll() of readCv, then of writeCv; whoever had passed the test of `closed` is out
\* of its system call then.  (The mutant does not wait for the mutex.)
AlwaysFree(f, side) == TRUE
CloseWaitsForMutex(f, side) == MutexIsFree(f, side)
NotWoken(f, side) == op  \* a mutant
WokenByClose(f, side) == Awoken(f, {side})

CloseNotifies(c) ==
  LET side == closer[c].pc f == closer[c].file
  IN  /\ side \in Sides /\ CloseWaitsForMutex(f, side)
      /\ op' = WokenByClose(f, side)
      /\ CloserAt(c, IF side = "read" THEN "write" ELSE "fd")
      /\ UNCHANGED <<asyncVars, file, ready>>

CloseClosesFd(c) ==
  /\ closer[c].pc = "fd"
  /\ CloseFd(file[closer[c].file].fd)
  /\ CloserAt(c, "unwatch")
  /\ UNCHANGED <<sock, nextHandle, epollEvents, batch, stolen, crashed, file, ready, op>>

CloseUnwatches(c) ==
  /\ closer[c].pc = "unwatch"
  /\ UnwatchFile(closer[c].file)
  /\ file' = [file EXCEPT ![closer[c].file].fd = NoFd]
  /\ CloserAt(c, "join")
  /\ UNCHANGED <<owner, sock, nextHandle, batch, crashed, ready, op>>

CloseJoins(c) ==
  /\ closer[c].pc = "join" /\ file[closer[c].file].ops = 0
  /\ closer' = [closer EXCEPT ![c] = NoCloser]
  /\ UNCHANGED <<asyncVars, file, ready, op>>

Deleted(c) ==
  /\ closer[c].pc = "pump" /\ file[closer[c].file].ops = 0
  /\ file' = [file EXCEPT ![closer[c].file].deleted = TRUE]
  /\ closer' = [closer EXCEPT ![c] = NoCloser]
  /\ UNCHANGED <<asyncVars, ready, op>>

-----------------------------------------------------------------------------
World(f) ==
  /\ \/ PeerSends(f) /\ <<f, "sends">> \in program.peer
     \/ PeerReads(f) /\ <<f, "reads">> \in program.peer
     \/ PeerCloses(f) /\ <<f, "closes">> \in program.peer
  /\ UNCHANGED <<file, ready, op, closer>>
NoCallback ==
  \/ EpollWait /\ UNCHANGED <<file, ready, op, closer>>
  \/ (\E b \in batch : UseAfterFree(b)) /\ AllIsLost

OpStep(o) == \/ CheckClosed(o) \/ Transfer(o) \/ NoTransfer(o)
             \/ WouldBlock(o) \/ ResetReady(o) \/ Wait(o)
CloserStep(c) == \/ CloseNotifies(c) \/ CloseClosesFd(c) \/ CloseUnwatches(c)
                 \/ CloseJoins(c) \/ Deleted(c)
EpollStep == NoCallback \/ \E b \in batch : Callback(b)

Step ==
  \/ \E f \in Files : \/ Attach(f) \/ Detach(f)
                      \/ \E g \in Files : CreateSocketPair(f, g)
                      \/ World(f)
  \/ \E d \in Fds : Spawned(d)
  \/ \E o \in Ops : Start(o) \/ OpStep(o) \/ TimesOut(o)
  \/ \E c \in Closers : \/ \E f \in program.closed : CloseBegins(c, f) \/ DeleteBegins(c, f)
                        \/ CloserStep(c)
  \/ EpollStep
  \/ \E b \in batch, o \in Ops : ResumedTwice(b, o)

Alive == ~crashed /\ UNCHANGED program
Next == (Alive /\ Step) \/ (crashed /\ UNCHANGED vars)

Spec == Init /\ [][Next]_vars

\* Operations and closers that have begun go on, and so does the epoll thread; a mutex
\* that is released again and again is not withheld from one of its clients for ever.
Fairness ==
  /\ \A o \in Ops : WF_vars(Alive /\ OpStep(o))
  /\ \A c \in Closers : SF_vars(Alive /\ CloserStep(c))
  /\ SF_vars(Alive /\ EpollStep)

FairSpec == Spec /\ Fairness

-----------------------------------------------------------------------------
(* Correctness. *)

\* An operation that waits for what is there will be told: the edge is still to be
\* reported, or a callback to be made, or the file is being closed.  Excepted are files
\* that another one's EPOLL_CTL_DEL has taken off the interest list (CoClose() closes the
\* descriptor before it unwatches its number).
WillBeTold(f, side) ==
  \/ Watched(f) \cap pending # {}
  \/ \E b \in batch : b.handle \in Handles(f) /\ side \in b.flags
  \/ \E c \in Closers : closer[c].file = f /\ closer[c].pc \in Sides
NoLostReadiness ==
  crashed \/ \A o \in Ops :
    op[o].pc = "waiting" /\ Ready(o[1], o[2]) /\ Handles(o[1]) \cap stolen = {} =>
      WillBeTold(o[1], o[2])

\* A system call is never made on a number that by then belongs to another file, a child
\* process or nobody: CoClose() has waited for the mutex before it closes the descriptor.
NoForeignIo ==
  \A o \in Ops : op[o].pc = "io" => file[o[1]].fd = NoFd \/ owner[file[o[1]].fd] = o[1]

\* The destructor returns only when no read, write or close of the file is pending.
NoUseAfterDelete ==
  \A f \in Files : file[f].deleted =>
    (\A o \in Ops : o[1] = f => op[o].pc = "idle") /\ ~Closing(f)

\* Nor does the kernel report to an event that was freed.
NoUseAfterFree == TypeOK /\ NoUseAfterDelete /\ NoDanglingWatch

\* Close() and the destructor return, whatever is suspended on the file.
CloseEnds == \A c \in Closers : closer[c].pc # "idle" ~> closer[c].pc = "idle" \/ crashed
=============================================================================
