------------------------------- MODULE AsyncIo -------------------------------
(***************************************************************************)
(* AsyncIo (src/lib/AsyncIoLinux.cpp): one thread that waits in epoll for  *)
(* the descriptors that CoFiles have asked it to watch and calls them      *)
(* back, and what the kernel does for it: descriptor numbers that are used *)
(* again, an edge-triggered interest list, and what can be read from and   *)
(* written to the open descriptors.                                        *)
(***************************************************************************)
EXTENDS Naturals, FiniteSets

CONSTANTS
  Files,      \* the CoFile objects
  Fds,        \* descriptor numbers
  NoFd,       \* -1
  Nobody,     \* owner of a number that is not in use
  Child,      \* owner of a number handed over to a child process
  MaxHandle,  \* bound: files that are watched, one after the other
  MaxData     \* bound: units that a socket holds, in each direction

ASSUME FilesAssumption ==
  /\ Files # {} /\ Files \cap {Nobody, Child} = {} /\ Nobody # Child /\ NoFd \notin Fds
  /\ MaxHandle \in Nat /\ MaxData \in Nat \ {0}

VARIABLES
  owner,        \* whose each descriptor number is
  sock,         \* of each file's descriptor: units to read, room to write, end of file
  nextHandle,   \* AsyncIoLinux::nextHandle
  epollEvents,  \* AsyncIoLinux::epollEvents: set of [handle, file, fd]
  interest,     \* the kernel's interest list: set of [handle, fd]
  pending,      \* handles of the interest list with an edge epoll_wait has not reported
  batch,        \* what epoll_wait has returned and is not reported yet: set of
                \* [handle, file, flags, half], half: the callback has begun
  stolen,       \* history: handles whose entry was removed for another file's sake
  crashed       \* a freed event or wait has been used, and the process is gone

kernel == <<owner, sock, interest, pending>>
asyncVars == <<kernel, nextHandle, epollEvents, batch, stolen, crashed>>

Handles(f) == {e.handle : e \in {d \in epollEvents : d.file = f}}
Watched(f) == {i.handle : i \in {j \in interest : j.handle \in Handles(f)}}

Readable(f) == sock[f].in > 0 \/ sock[f].eof
Writable(f) == sock[f].out > 0 \/ sock[f].eof
Ready(f, side) == IF side = "read" THEN Readable(f) ELSE Writable(f)
Flags(f) == {s \in {"read", "write"} : Ready(f, s)}

NoOwners == [d \in Fds |-> Nobody]
NewSocks == [f \in Files |-> [in |-> 0, out |-> MaxData, eof |-> FALSE]]

AsyncInit ==
  /\ owner = NoOwners /\ sock = NewSocks
  /\ nextHandle = 0 /\ epollEvents = {} /\ interest = {} /\ pending = {} /\ batch = {}
  /\ stolen = {} /\ crashed = FALSE

-----------------------------------------------------------------------------
(* WatchFile() and UnwatchFile(), under epollMutex. *)

\* Files \X Fds to watch at once (two of them in CreateSocketPair()): the kernel reports
\* a descriptor that is ready when it is added.
WatchFile(fdOf) ==
  LET fs   == DOMAIN fdOf
      new  == CHOOSE h \in [fs -> nextHandle + 1 .. nextHandle + Cardinality(fs)] :
                \A f, g \in fs : h[f] = h[g] => f = g
  IN  /\ nextHandle + Cardinality(fs) =< MaxHandle
      /\ nextHandle' = nextHandle + Cardinality(fs)
      /\ epollEvents' = epollEvents \cup
           {[handle |-> new[f], file |-> f, fd |-> fdOf[f]] : f \in fs}
      /\ interest' = interest \cup {[handle |-> new[f], fd |-> fdOf[f]] : f \in fs}
      /\ pending' = pending \cup {new[f] : f \in fs}

\* EPOLL_CTL_DEL names a number, and removes the entry of whatever has that number now.
StaysOnList(i, fd) == TRUE  \* a mutant: the event is freed and stays on the list
KeptOnList(i, fd) == i.fd # fd

UnwatchFile(f) ==
  LET mine == {e \in epollEvents : e.file = f}
      kept == {i \in interest : \A e \in mine : KeptOnList(i, e.fd)}
      gone == {i.handle : i \in interest \ kept}
  IN  /\ epollEvents' = epollEvents \ mine
      /\ interest' = kept
      /\ pending' = pending \ gone
      /\ stolen' = stolen \cup (gone \ Handles(f))

\* close(): the last reference to the socket goes, and with it the kernel's entry.
CloseFd(fd) ==
  LET gone == {i \in interest : i.fd = fd}
  IN  /\ owner' = [d \in Fds |-> IF d = fd THEN Nobody ELSE owner[d]]
      /\ interest' = interest \ gone
      /\ pending' = pending \ {i.handle : i \in gone}

-----------------------------------------------------------------------------
(* The other end of the sockets.  Each of its calls is an edge. *)

Edge(f) == pending' = pending \cup Watched(f)

IsOpen(f) == \E d \in Fds : owner[d] = f

PeerSends(f) ==
  /\ IsOpen(f) /\ ~sock[f].eof /\ sock[f].in < MaxData
  /\ sock' = [sock EXCEPT ![f].in = @ + 1]
  /\ Edge(f)
  /\ UNCHANGED <<owner, nextHandle, epollEvents, interest, batch, stolen, crashed>>

PeerReads(f) ==
  /\ IsOpen(f) /\ sock[f].out < MaxData
  /\ sock' = [sock EXCEPT ![f].out = @ + 1]
  /\ Edge(f)
  /\ UNCHANGED <<owner, nextHandle, epollEvents, interest, batch, stolen, crashed>>

PeerCloses(f) ==
  /\ IsOpen(f) /\ ~sock[f].eof
  /\ sock' = [sock EXCEPT ![f].eof = TRUE]
  /\ Edge(f)
  /\ UNCHANGED <<owner, nextHandle, epollEvents, interest, batch, stolen, crashed>>

-----------------------------------------------------------------------------
(* ThreadProc(). *)

\* epoll_wait(): an entry with an edge is reported with all that it is ready for; the
\* pointer to its event is the kernel's copy, whatever has become of the event.
EpollWait ==
  /\ batch = {} /\ pending # {}
  /\ batch' = {b \in [handle : pending, file : Files, flags : SUBSET {"read", "write"},
                      half : {FALSE}] :
                 /\ [handle |-> b.handle, file |-> b.file] \in
                      {[handle |-> e.handle, file |-> e.file] : e \in epollEvents}
                 /\ b.flags = Flags(b.file) /\ b.flags # {}}
  /\ pending' = {}
  /\ UNCHANGED <<owner, sock, nextHandle, epollEvents, interest, stolen, crashed>>

\* One after the other.
IsNext(b) == b \in batch /\ \A d \in batch : d.half => d = b
NextSide(b) == IF "read" \in b.flags THEN "read" ELSE "write"

\* The event of a reported entry may have been freed since: its callback is not called
\* under epollMutex.  What a call through it does is undefined: the process ends, and what it
\* had open with it, or it is as if the event were there (see Callback in CoFile).
IsFreed(b) == \A e \in epollEvents : e.handle # b.handle

UseAfterFree(b) == IsNext(b) /\ IsFreed(b)

ProcessEnds ==
  /\ crashed' = TRUE /\ owner' = NoOwners /\ sock' = NewSocks /\ nextHandle' = 0
  /\ epollEvents' = {} /\ interest' = {} /\ pending' = {} /\ batch' = {} /\ stolen' = {}

\* What the reader waits for is reported first.
Reported(b, side) ==
  /\ batch' = (batch \ {b}) \cup
       (IF b.flags = {side} THEN {} ELSE {[b EXCEPT !.flags = @ \ {side}, !.half = TRUE]})
  /\ UNCHANGED <<kernel, nextHandle, epollEvents, stolen, crashed>>

-----------------------------------------------------------------------------
\* The kernel never holds the pointer of an event that has been freed: epoll_wait would
\* report it for as long as the socket is open.
NoDanglingWatch == \A i \in interest : \E e \in epollEvents : e.handle = i.handle
=============================================================================
