---------------------------- MODULE CoFile_proofs ----------------------------
(***************************************************************************)
(* What is proved of CoFile, for any files, descriptors, closers and       *)
(* programs: no system call is made on a number that is another's by then, *)
(* no event is reported to memory that was freed, and an operation that    *)
(* waits for what is there will be told.                                   *)
(***************************************************************************)
EXTENDS CoFile, FiniteSetTheorems, TLAPS

(* The inductive invariant. *)

\* What is read and written by those that run, and by the kernel.
Types ==
  /\ TypeOK
  /\ program \in Programs
  /\ owner \in [Fds -> Files \cup {Nobody, Child}]
  /\ sock \in [Files -> [in : Nat, out : Nat, eof : BOOLEAN]]
  /\ nextHandle \in Nat
  /\ epollEvents \subseteq [handle : Nat, file : Files, fd : Fds]
  /\ interest \subseteq [handle : Nat, fd : Fds]
  /\ batch \subseteq [handle : Nat, file : Files, flags : SUBSET Sides, half : BOOLEAN]
  /\ \A o \in Ops : op[o].pc # "idle" => o \in DOMAIN program.ops

\* One closer at a time, of a file that is closed and not gone.
ClosersAreAlone ==
  \A c, d \in Closers :
    closer[c].pc # "idle" =>
      /\ file[closer[c].file].closed /\ ~file[closer[c].file].deleted
      /\ closer[c].pc \in {"join", "pump"} => file[closer[c].file].fd = NoFd
      /\ closer[d].pc # "idle" /\ closer[d].file = closer[c].file => c = d

\* What has the mutex or waits when the file is closed has still to be told.
ToldOfClose ==
  \A o \in Ops :
    (Holds(o) \/ op[o].pc = "waiting") /\ file[o[1]].closed =>
      \E c \in Closers : /\ closer[c].file = o[1]
                         /\ closer[c].pc \in {"read", o[2]}

\* A number is its file's until it is closed, and for as long as it is the file's the
\* file is not given up.
OwnsUntilClosed ==
  \A f \in Files :
    file[f].fd # NoFd =>
      \/ owner[file[f].fd] = f
      \/ \E c \in Closers : closer[c].file = f /\ closer[c].pc = "unwatch"
OwnsOne ==
  \A f \in Files, d \in Fds :
    owner[d] = f => /\ file[f].fd = d
                    /\ \A c \in Closers : closer[c].file = f => closer[c].pc # "unwatch"

\* What OpsLock counts; nothing is under way on a file that is not open or being closed.
Busy(o) == IF op[o].pc = "idle" THEN 0 ELSE 1
OpsAreCounted == \A f \in Files : file[f].ops = Busy(<<f, "read">>) + Busy(<<f, "write">>)
IdleWhenShut ==
  \A f \in Files :
    ~Closing(f) => /\ file[f].closed => file[f].fd = NoFd
                   /\ file[f].fd = NoFd \/ file[f].deleted =>
                        file[f].closed /\ \A s \in Sides : op[<<f, s>>].pc = "idle"

\* An entry of the interest list has its event, whose file has the number.
InterestIsTrue ==
  \A i \in interest :
    \E e \in epollEvents : e.handle = i.handle /\ e.fd = i.fd /\ owner[i.fd] = e.file

\* A handle is used once.
HandlesAreNew ==
  /\ \A e \in epollEvents : e.handle =< nextHandle
  /\ \A b \in batch : b.handle =< nextHandle
  /\ \A d, e \in epollEvents : d.handle = e.handle => d = e
  /\ \A b \in batch : \A e \in epollEvents : e.handle = b.handle => e.file = b.file

\* A file that has a number is watched, unless its entry was removed for another's sake.
WatchedWhileOpen ==
  \A f \in Files, d \in Fds :
    owner[d] = f =>
      \E e \in epollEvents :
        /\ e.file = f /\ e.fd = d
        /\ e.handle \in stolen \/ [handle |-> e.handle, fd |-> d] \in interest

\* What is about to wait, or waits, for what is there will be told or needs no telling.
Told(o) ==
  \/ WillBeTold(o[1], o[2])
  \/ op[o].pc = "enter" /\ (ready[o[1]][o[2]] \/ file[o[1]].closed)
AllAreTold ==
  \A o \in Ops :
    /\ op[o].pc \in {"reset", "enter", "waiting"}
    /\ Ready(o[1], o[2]) /\ Handles(o[1]) \cap stolen = {}
    => Told(o)

IInv ==
  /\ Types /\ ClosersAreAlone /\ ToldOfClose /\ OwnsUntilClosed /\ OwnsOne
  /\ OpsAreCounted /\ IdleWhenShut /\ InterestIsTrue /\ HandlesAreNew
  /\ WatchedWhileOpen /\ AllAreTold

-----------------------------------------------------------------------------
(* What the steps do. *)

\* Files are opened: each gets a number nobody had and a handle of its own.
Opens(fdOf, h) ==
  /\ DOMAIN fdOf \subseteq Files /\ h \in [DOMAIN fdOf -> Nat]
  /\ \A f \in DOMAIN fdOf : /\ file[f].fd = NoFd /\ ~file[f].deleted /\ ~Closing(f)
                            /\ fdOf[f] \in Fds /\ owner[fdOf[f]] = Nobody
  /\ \A f, g \in DOMAIN fdOf : f # g => fdOf[f] # fdOf[g] /\ h[f] # h[g]
  /\ nextHandle' \in Nat /\ nextHandle =< nextHandle'
  /\ \A f \in DOMAIN fdOf : nextHandle < h[f] /\ h[f] =< nextHandle'
  /\ owner' \in [Fds -> Files \cup {Nobody, Child}]
  /\ \A f \in DOMAIN fdOf : owner'[fdOf[f]] = f
  /\ \A d \in Fds : (\A f \in DOMAIN fdOf : fdOf[f] # d) => owner'[d] = owner[d]
  /\ sock' = [f \in Files |-> IF f \in DOMAIN fdOf
                              THEN [in |-> 0, out |-> MaxData, eof |-> FALSE] ELSE sock[f]]
  /\ file' = [f \in Files |-> IF f \in DOMAIN fdOf
                              THEN [file[f] EXCEPT !.fd = fdOf[f], !.closed = FALSE,
                                                   !.closing = FALSE] ELSE file[f]]
  /\ ready' = [f \in Files |-> IF f \in DOMAIN fdOf THEN [s \in Sides |-> TRUE] ELSE ready[f]]
  /\ epollEvents' = epollEvents \cup
       {[handle |-> h[f], file |-> f, fd |-> fdOf[f]] : f \in DOMAIN fdOf}
  /\ interest' = interest \cup {[handle |-> h[f], fd |-> fdOf[f]] : f \in DOMAIN fdOf}
  /\ pending' = pending \cup {h[f] : f \in DOMAIN fdOf}
  /\ UNCHANGED <<batch, stolen, crashed, op, closer>>

\* Files are opened with TakeFds() alone, for as many new handles can be chosen.
LEMMA TakingOpens ==
  ASSUME Types, NEW fdOf, DOMAIN fdOf \subseteq Files, \A f \in DOMAIN fdOf : fdOf[f] \in Fds,
         \A f, g \in DOMAIN fdOf : f # g => fdOf[f] # fdOf[g],
         NEW k \in Nat, Cardinality(DOMAIN fdOf) = k,
         NEW w \in [DOMAIN fdOf -> nextHandle + 1 .. nextHandle + k],
         \A a, b \in DOMAIN fdOf : w[a] = w[b] => a = b,
         TakeFds(fdOf)
  PROVE  \E h : Opens(fdOf, h)
PROOF
<1> DEFINE fs  == DOMAIN fdOf
           new == CHOOSE h \in [fs -> nextHandle + 1 .. nextHandle + Cardinality(fs)] :
                    \A f, g \in fs : h[f] = h[g] => f = g
<1>1. nextHandle \in Nat BY DEF Types
<1>2. /\ new \in [fs -> nextHandle + 1 .. nextHandle + Cardinality(fs)]
      /\ \A f, g \in fs : new[f] = new[g] => f = g
  <2>1. \E h \in [fs -> nextHandle + 1 .. nextHandle + Cardinality(fs)] :
          \A f, g \in fs : h[f] = h[g] => f = g
    OBVIOUS
  <2> QED BY <2>1
<1>3. WatchFile(fdOf) BY DEF TakeFds
<1>4. /\ nextHandle' = nextHandle + k
      /\ epollEvents' = epollEvents \cup {[handle |-> new[f], file |-> f, fd |-> fdOf[f]] : f \in fs}
      /\ interest' = interest \cup {[handle |-> new[f], fd |-> fdOf[f]] : f \in fs}
      /\ pending' = pending \cup {new[f] : f \in fs}
  BY <1>3 DEF WatchFile
<1> HIDE DEF new
<1>5. /\ owner' \in [Fds -> Files \cup {Nobody, Child}]
      /\ \A f \in fs : owner'[fdOf[f]] = f
      /\ \A d \in Fds : (\A f \in fs : fdOf[f] # d) => owner'[d] = owner[d]
  <2>1. owner' = [d \in Fds |-> IF \E f \in fs : fdOf[f] = d
                                THEN CHOOSE f \in fs : fdOf[f] = d ELSE owner[d]]
    BY DEF TakeFds
  <2>2. \A f \in fs : (CHOOSE g \in fs : fdOf[g] = fdOf[f]) = f OBVIOUS
  <2>3. \A d \in Fds : (\E f \in fs : fdOf[f] = d) => (CHOOSE f \in fs : fdOf[f] = d) \in fs
    OBVIOUS
  <2> QED BY <2>1, <2>2, <2>3 DEF Types
<1>6. new \in [fs -> Nat] BY <1>1, <1>2
<1>7. \A f \in fs : nextHandle < new[f] /\ new[f] =< nextHandle'  BY <1>1, <1>2, <1>4
<1>8. nextHandle' \in Nat /\ nextHandle =< nextHandle' BY <1>1, <1>4
<1>9. Opens(fdOf, new) BY <1>2, <1>4, <1>5, <1>6, <1>7, <1>8 DEF Opens, TakeFds
<1> QED BY <1>9

\* One file or two of a pair.
LEMMA Opening ==
  ASSUME Types, NEW f \in Files,
         Attach(f) \/ \E g \in Files : CreateSocketPair(f, g)
  PROVE  \E fdOf, h : Opens(fdOf, h)
PROOF
<1>0. nextHandle \in Nat BY DEF Types
<1>1. CASE Attach(f)
  <2>1. PICK d \in LowestFree({}) : TakeFds([g \in {f} |-> d]) BY <1>1 DEF Attach
  <2>2. d \in Fds BY DEF LowestFree
  <2>3. Cardinality({f}) = 1 BY FS_Singleton
  <2> DEFINE v == [g \in {f} |-> d]
             w == [g \in {f} |-> nextHandle + 1]
  <2>4. DOMAIN v = {f} /\ v[f] = d OBVIOUS
  <2>5. w \in [DOMAIN v -> nextHandle + 1 .. nextHandle + 1] BY <1>0
  <2>6. TakeFds(v) BY <2>1
  <2> HIDE DEF v, w
  <2>7. Cardinality(DOMAIN v) = 1 BY <2>3, <2>4
  <2>8. \A a, b \in DOMAIN v : a = b BY <2>4
  <2>9. \A a, b \in DOMAIN v : w[a] = w[b] => a = b BY <2>8
  <2>10. \A a, b \in DOMAIN v : a # b => v[a] # v[b] BY <2>8
  <2>11. DOMAIN v \subseteq Files /\ \A a \in DOMAIN v : v[a] \in Fds BY <2>2, <2>4
  <2> QED BY <2>5, <2>6, <2>7, <2>9, <2>10, <2>11, TakingOpens
<1>2. ASSUME NEW g \in Files, CreateSocketPair(f, g)
      PROVE  \E fdOf, h : Opens(fdOf, h)
  <2>1. PICK d \in LowestFree({}) : \E e \in LowestFree({d}) :
          TakeFds([h \in {f, g} |-> IF h = f THEN d ELSE e])
    BY <1>2 DEF CreateSocketPair
  <2>2. PICK e \in LowestFree({d}) : TakeFds([h \in {f, g} |-> IF h = f THEN d ELSE e]) BY <2>1
  <2>3. d \in Fds /\ e \in Fds /\ d # e BY DEF LowestFree
  <2>4. f # g
    <3>1. PICK o \in DOMAIN program.ops : o[1] = f BY <1>2 DEF CreateSocketPair, Users
    <3>2. program \in Programs BY DEF Types
    <3>3. g \in program.remote BY <1>2 DEF CreateSocketPair
    <3> QED BY <3>1, <3>2, <3>3, ProgramsAssumption DEF IsProgram
  <2>5. Cardinality({f, g}) = 2
    <3>1. IsFiniteSet({f}) /\ Cardinality({f}) = 1 BY FS_Singleton
    <3>2. {f, g} = {f} \cup {g} OBVIOUS
    <3>3. Cardinality({f} \cup {g}) = 1 + 1 BY <2>4, <3>1, FS_AddElement
    <3> QED BY <3>2, <3>3
  <2> DEFINE w == [x \in {f, g} |-> IF x = f THEN nextHandle + 1 ELSE nextHandle + 2]
             v == [h \in {f, g} |-> IF h = f THEN d ELSE e]
  <2>6. DOMAIN v = {f, g} /\ v[f] = d /\ v[g] = e BY <2>4
  <2>7. w \in [DOMAIN v -> nextHandle + 1 .. nextHandle + 2] BY <1>0
  <2>8. \A a, b \in {f, g} : w[a] = w[b] => a = b BY <1>0, <2>4
  <2>9. TakeFds(v) BY <2>2
  <2> HIDE DEF w, v
  <2>10. \A a, b \in DOMAIN v : w[a] = w[b] => a = b BY <2>6, <2>8
  <2>11. \A a, b \in DOMAIN v : a # b => v[a] # v[b] BY <2>3, <2>6
  <2>12. DOMAIN v \subseteq Files /\ \A a \in DOMAIN v : v[a] \in Fds BY <2>3, <2>6
  <2>13. Cardinality(DOMAIN v) = 2 BY <2>5, <2>6
  <2> QED BY <2>7, <2>9, <2>10, <2>11, <2>12, <2>13, TakingOpens
<1> QED BY <1>1, <1>2
\* Steps of an operation, and the steps in which the process does not end.
OpActs(o) == Start(o) \/ OpStep(o) \/ TimesOut(o)
Moves ==
  \/ \E fdOf, h : Opens(fdOf, h)
  \/ \E f \in Files : Detach(f) \/ World(f)
  \/ \E d \in Fds : Spawned(d)
  \/ \E o \in Ops : OpActs(o)
  \/ \E c \in Closers, f \in Files : CloseBegins(c, f) \/ DeleteBegins(c, f)
  \/ \E c \in Closers : CloserStep(c)
  \/ EpollWait /\ UNCHANGED <<file, ready, op, closer>>
  \/ \E b \in batch : Callback(b)

\* Everything as it is at first.
Fresh ==
  /\ owner = NoOwners /\ sock = NewSocks
  /\ nextHandle = 0 /\ epollEvents = {} /\ interest = {} /\ pending = {} /\ batch = {}
  /\ stolen = {} /\ file = NewFiles /\ ready = NotReady /\ op = NoOps /\ closer = NoClosers
  /\ program \in Programs

\* A step is one of these, or nothing is left.
LEMMA StepsAre ==
  ASSUME Types, Alive, Step
  PROVE  Moves \/ Fresh'
PROOF
<1>1. program \in Programs /\ program' = program BY DEF Types, Alive
<1>2. program.closed \subseteq Files BY <1>1, ProgramsAssumption DEF IsProgram
<1>3. ASSUME NEW f \in Files, Attach(f) \/ \E g \in Files : CreateSocketPair(f, g) PROVE Moves
  BY <1>3, Opening DEF Moves
<1>4. ASSUME NEW c \in Closers, NEW f \in program.closed, CloseBegins(c, f) \/ DeleteBegins(c, f)
      PROVE  Moves
  BY <1>2, <1>4 DEF Moves
<1>5. CASE \E f \in Files : Detach(f) \/ World(f) BY <1>5 DEF Moves
<1>6. CASE \E d \in Fds : Spawned(d) BY <1>6 DEF Moves
<1>7. CASE \E o \in Ops : OpActs(o) BY <1>7 DEF Moves
<1>8. CASE \E c \in Closers : CloserStep(c) BY <1>8 DEF Moves
<1>9. AllIsLost => Fresh'
  BY <1>1 DEF AllIsLost, ProcessEnds, Fresh, NoOwners, NewSocks
<1>10. CASE \E b \in batch, o \in Ops : ResumedTwice(b, o)
  BY <1>9, <1>10 DEF ResumedTwice
<1>11. CASE EpollStep
  <2>1. CASE \E b \in batch : Callback(b) BY <2>1 DEF Moves
  <2>2. CASE EpollWait /\ UNCHANGED <<file, ready, op, closer>> BY <2>2 DEF Moves
  <2> QED BY <1>11, <1>9, <2>1, <2>2 DEF EpollStep, NoCallback
<1> QED BY <1>3, <1>4, <1>5, <1>6, <1>7, <1>8, <1>11, <1>10 DEF Step, OpActs

\* What an operation leaves alone.
LEMMA OpKeeps ==
  ASSUME Types, NEW o \in Ops, OpActs(o)
  PROVE  /\ UNCHANGED <<owner, interest, pending, nextHandle, epollEvents, batch, stolen, closer>>
         /\ \A f \in Files : /\ file'[f].fd = file[f].fd /\ file'[f].closed = file[f].closed
                             /\ file'[f].deleted = file[f].deleted
                             /\ f # o[1] => file'[f] = file[f]
         /\ \A p \in Ops : p # o => op'[p] = op[p] /\ ready'[p[1]][p[2]] = ready[p[1]][p[2]]
PROOF
<1>1. /\ o[1] \in Files /\ o[2] \in Sides /\ \A p \in Ops : p = <<p[1], p[2]>> /\ p[1] \in Files
      /\ file \in [Files -> [fd : Fds \cup {NoFd}, closed : BOOLEAN, closing : BOOLEAN,
                             deleted : BOOLEAN, ops : 0..Cardinality(Sides)]]
      /\ DOMAIN op = Ops /\ ready \in [Files -> [Sides -> BOOLEAN]]
  BY DEF Ops, Types, TypeOK
<1> USE DEF asyncVars, kernel
<1>2. CASE Start(o) BY <1>1, <1>2 DEF Start, Counted, Sides
<1>3. CASE CheckClosed(o) BY <1>1, <1>3 DEF CheckClosed, End, Go
<1>4. CASE Transfer(o)
  <2>1. CASE op[o].kind \in {"recv", "send"} \/ op[o].got + 1 = Want
    BY <1>1, <1>4, <2>1 DEF Transfer, End
  <2>2. CASE ~(op[o].kind \in {"recv", "send"} \/ op[o].got + 1 = Want)
    BY <1>1, <1>4, <2>2 DEF Transfer
  <2> QED BY <2>1, <2>2
<1>5. CASE NoTransfer(o) BY <1>1, <1>5 DEF NoTransfer, End
<1>6. CASE WouldBlock(o) BY <1>1, <1>6 DEF WouldBlock, Go
<1>7. CASE ResetReady(o) BY <1>1, <1>7 DEF ResetReady, Go, Sides
<1>8. CASE Wait(o) BY <1>1, <1>8 DEF Wait, Go
<1>9. CASE TimesOut(o) BY <1>1, <1>9 DEF TimesOut, End
<1> QED BY <1>2, <1>3, <1>4, <1>5, <1>6, <1>7, <1>8, <1>9 DEF OpActs, OpStep
\* What the steps of a closer but the two that touch the kernel leave alone.
LEMMA CloserKeeps ==
  ASSUME Types, NEW c \in Closers,
         \/ CloseNotifies(c) \/ CloseJoins(c) \/ Deleted(c)
         \/ \E f \in Files : CloseBegins(c, f) \/ DeleteBegins(c, f)
  PROVE  /\ UNCHANGED <<owner, sock, interest, pending, nextHandle, epollEvents, batch, stolen>>
         /\ \A f \in Files : file'[f].fd = file[f].fd /\ file'[f].ops = file[f].ops
         /\ \A d \in Closers : d # c => closer'[d] = closer[d]
         /\ closer[c].pc # "unwatch" /\ closer'[c].pc # "unwatch"
PROOF
<1> USE DEF asyncVars, kernel, Types, TypeOK
<1>1. CASE CloseNotifies(c)
  BY <1>1 DEF CloseNotifies, CloserAt, Sides
<1>2. CASE CloseJoins(c) BY <1>2 DEF CloseJoins, NoCloser
<1>3. CASE Deleted(c) BY <1>3 DEF Deleted, NoCloser
<1>4. CASE \E f \in Files : CloseBegins(c, f) BY <1>4 DEF CloseBegins
<1>5. CASE \E f \in Files : DeleteBegins(c, f) BY <1>5 DEF DeleteBegins
<1> QED BY <1>1, <1>2, <1>3, <1>4, <1>5

\* A callback does one side after the other of what is reported.
LEMMA CallbackGoesOn ==
  ASSUME Types, NEW b \in batch, Callback(b)
  PROVE  /\ NextSide(b) \in Sides
         /\ \A d \in batch' : \/ d \in batch
                             \/ /\ d.handle = b.handle /\ d.file = b.file
                                /\ d \in [handle : Nat, file : Files, flags : SUBSET Sides,
                                         half : BOOLEAN]
         /\ \A d \in batch : d # b => d \in batch'
         /\ \A s \in b.flags : s # NextSide(b) =>
              \E d \in batch' : d.handle = b.handle /\ s \in d.flags
PROOF
<1> DEFINE side == NextSide(b)
           rest == [b EXCEPT !.flags = @ \ {side}, !.half = TRUE]
<1>1. b \in [handle : Nat, file : Files, flags : SUBSET Sides, half : BOOLEAN]
  BY DEF Types
<1>2. side \in Sides BY DEF NextSide, Sides
<1>3. batch' = (batch \ {b}) \cup (IF b.flags = {side} THEN {} ELSE {rest})
  BY DEF Callback, Reported
<1>4. /\ rest \in [handle : Nat, file : Files, flags : SUBSET Sides, half : BOOLEAN]
      /\ rest.handle = b.handle /\ rest.file = b.file /\ rest.flags = b.flags \ {side}
  BY <1>1
<1> HIDE DEF side, rest
<1>5. \A s \in b.flags : s # side => rest \in batch' /\ s \in rest.flags
  BY <1>3, <1>4
<1>6. \A d \in batch' : d \in batch \/ d = rest BY <1>3
<1>7. \A d \in batch : d # b => d \in batch' BY <1>3
<1> QED BY <1>2, <1>4, <1>5, <1>6, <1>7 DEF side

\* The other end, epoll_wait() and a callback change no file and no interest list.
LEMMA OutsideKeeps ==
  ASSUME \/ \E f \in Files : World(f)
         \/ EpollWait /\ UNCHANGED <<file, ready, op, closer>>
         \/ \E b \in batch : Callback(b)
  PROVE  UNCHANGED <<owner, interest, nextHandle, epollEvents, stolen, file, closer>>
BY DEF World, PeerSends, PeerReads, PeerCloses, EpollWait, Callback, Reported, kernel

-----------------------------------------------------------------------------
(* The kernel's part of the invariant. *)

LEMMA InterestStaysTrue ==
  ASSUME IInv, Moves
  PROVE  InterestIsTrue'
PROOF
<1> USE DEF IInv
<1>1. ASSUME NEW fdOf, NEW h, Opens(fdOf, h) PROVE InterestIsTrue'
  <2>1. ASSUME NEW i \in interest'
        PROVE  \E e \in epollEvents' :
                 e.handle = i.handle /\ e.fd = i.fd /\ owner'[i.fd] = e.file
    <3>1. CASE i \in interest
      <4>1. PICK e \in epollEvents : e.handle = i.handle /\ e.fd = i.fd /\ owner[i.fd] = e.file
        BY <3>1 DEF InterestIsTrue
      <4>2. e.file \in Files /\ e.fd \in Fds BY DEF Types
      <4>3. ASSUME NEW f \in DOMAIN fdOf PROVE fdOf[f] # i.fd
        <5>1. owner[fdOf[f]] = Nobody BY <1>1 DEF Opens
        <5>2. e.file # Nobody BY <4>2, FilesAssumption
        <5> QED BY <4>1, <5>1, <5>2
      <4>4. owner'[i.fd] = owner[i.fd] BY <1>1, <4>1, <4>2, <4>3 DEF Opens
      <4> QED BY <1>1, <4>1, <4>4 DEF Opens
    <3>2. CASE i \notin interest
      <4>1. PICK f \in DOMAIN fdOf : i = [handle |-> h[f], fd |-> fdOf[f]]
        BY <1>1, <2>1, <3>2 DEF Opens
      <4>2. [handle |-> h[f], file |-> f, fd |-> fdOf[f]] \in epollEvents' BY <1>1 DEF Opens
      <4> QED BY <1>1, <4>1, <4>2 DEF Opens
    <3> QED BY <3>1, <3>2
  <2> QED BY <2>1 DEF InterestIsTrue
<1>2. ASSUME NEW f \in Files, Detach(f) PROVE InterestIsTrue'
  <2>1. owner[file[f].fd] = f BY <1>2 DEF Detach, OwnsUntilClosed, Closing
  <2>2. owner' = [owner EXCEPT ![file[f].fd] = Child] /\ UnwatchFile(f) BY <1>2 DEF Detach
  <2>3. ASSUME NEW i \in interest'
        PROVE  \E e \in epollEvents' :
                 e.handle = i.handle /\ e.fd = i.fd /\ owner'[i.fd] = e.file
    <3>1. i \in interest /\ \A e \in epollEvents : e.file = f => e.fd # i.fd
      BY <2>2 DEF UnwatchFile, KeptOnList
    <3>2. PICK e \in epollEvents : e.handle = i.handle /\ e.fd = i.fd /\ owner[i.fd] = e.file
      BY <3>1 DEF InterestIsTrue
    <3>3. e.file # f /\ i.fd # file[f].fd BY <2>1, <3>1, <3>2
    <3> QED BY <2>2, <3>2, <3>3 DEF UnwatchFile, Types
  <2> QED BY <2>3 DEF InterestIsTrue
<1>3. ASSUME NEW d \in Fds, Spawned(d) PROVE InterestIsTrue'
  BY <1>3 DEF Spawned, CloseFd, InterestIsTrue, Types
<1>4. ASSUME NEW c \in Closers, CloseClosesFd(c) PROVE InterestIsTrue'
  BY <1>4 DEF CloseClosesFd, CloseFd, InterestIsTrue, Types
<1>5. ASSUME NEW c \in Closers, CloseUnwatches(c) PROVE InterestIsTrue'
  BY <1>5 DEF CloseUnwatches, UnwatchFile, KeptOnList, InterestIsTrue
<1>6. CASE UNCHANGED <<interest, epollEvents, owner>> BY <1>6 DEF InterestIsTrue
<1> QED
  BY <1>1, <1>2, <1>3, <1>4, <1>5, <1>6, OpKeeps, CloserKeeps, OutsideKeeps
     DEF Moves, CloserStep

LEMMA HandlesStayNew ==
  ASSUME IInv, Moves
  PROVE  HandlesAreNew'
PROOF
<1> USE DEF IInv
<1>1. ASSUME NEW fdOf, NEW h, Opens(fdOf, h) PROVE HandlesAreNew'
  <2>1. /\ \A e \in epollEvents : e.handle \in Nat /\ e.handle =< nextHandle
        /\ \A b \in batch : b.handle \in Nat /\ b.handle =< nextHandle
        /\ nextHandle \in Nat /\ nextHandle' \in Nat /\ nextHandle =< nextHandle'
        /\ batch' = batch
    BY <1>1 DEF HandlesAreNew, Types, Opens
  <2>2. \A e \in epollEvents' \ epollEvents :
          \E f \in DOMAIN fdOf : /\ e = [handle |-> h[f], file |-> f, fd |-> fdOf[f]]
                                 /\ h[f] \in Nat /\ nextHandle < h[f] /\ h[f] =< nextHandle'
    BY <1>1 DEF Opens
  <2>3. \A e \in epollEvents' : e.handle =< nextHandle' BY <2>1, <2>2
  <2>4. \A b \in batch' : b.handle =< nextHandle' BY <2>1
  <2>5. ASSUME NEW d \in epollEvents', NEW e \in epollEvents', d.handle = e.handle PROVE d = e
    <3>1. CASE d \in epollEvents /\ e \in epollEvents BY <2>5, <3>1 DEF HandlesAreNew
    <3>2. CASE d \notin epollEvents /\ e \notin epollEvents
      <4>1. PICK f \in DOMAIN fdOf : d = [handle |-> h[f], file |-> f, fd |-> fdOf[f]]
        BY <2>2, <3>2
      <4>2. PICK g \in DOMAIN fdOf : e = [handle |-> h[g], file |-> g, fd |-> fdOf[g]]
        BY <2>2, <3>2
      <4>3. h[f] = h[g] BY <2>5, <4>1, <4>2
      <4>4. f = g BY <1>1, <4>3 DEF Opens
      <4> QED BY <4>1, <4>2, <4>4
    <3>3. CASE d \notin epollEvents /\ e \in epollEvents
      <4>1. e.handle \in Nat /\ e.handle =< nextHandle BY <2>1, <3>3
      <4>2. d.handle \in Nat /\ nextHandle < d.handle BY <2>2, <3>3
      <4> QED BY <2>1, <2>5, <4>1, <4>2
    <3>4. CASE d \in epollEvents /\ e \notin epollEvents
      <4>1. d.handle \in Nat /\ d.handle =< nextHandle BY <2>1, <3>4
      <4>2. e.handle \in Nat /\ nextHandle < e.handle BY <2>2, <3>4
      <4> QED BY <2>1, <2>5, <4>1, <4>2
    <3> QED BY <3>1, <3>2, <3>3, <3>4
  <2>6. ASSUME NEW b \in batch', NEW e \in epollEvents', e.handle = b.handle
        PROVE  e.file = b.file
    <3>1. CASE e \in epollEvents BY <2>1, <2>6, <3>1 DEF HandlesAreNew
    <3>2. CASE e \notin epollEvents
      <4>1. b.handle \in Nat /\ b.handle =< nextHandle BY <2>1
      <4>2. e.handle \in Nat /\ nextHandle < e.handle BY <2>2, <3>2
      <4> QED BY <2>1, <2>6, <4>1, <4>2
    <3> QED BY <3>1, <3>2
  <2> QED BY <2>3, <2>4, <2>5, <2>6 DEF HandlesAreNew
<1>2. CASE epollEvents' \subseteq epollEvents /\ batch' \subseteq batch /\ nextHandle' = nextHandle
  BY <1>2 DEF HandlesAreNew
<1>3. ASSUME NEW f \in Files, Detach(f) PROVE HandlesAreNew'
  BY <1>2, <1>3 DEF Detach, UnwatchFile
<1>4. ASSUME NEW d \in Fds, Spawned(d) PROVE HandlesAreNew' BY <1>2, <1>4 DEF Spawned
<1>5. ASSUME NEW c \in Closers, CloseClosesFd(c) PROVE HandlesAreNew'
  BY <1>2, <1>5 DEF CloseClosesFd
<1>6. ASSUME NEW c \in Closers, CloseUnwatches(c) PROVE HandlesAreNew'
  BY <1>2, <1>6 DEF CloseUnwatches, UnwatchFile
<1>7. CASE EpollWait
  <2>1. \A b \in batch' : \E e \in epollEvents : e.handle = b.handle /\ e.file = b.file
    BY <1>7 DEF EpollWait
  <2>2. epollEvents' = epollEvents /\ nextHandle' = nextHandle BY <1>7 DEF EpollWait
  <2> QED BY <2>1, <2>2 DEF HandlesAreNew
<1>8. ASSUME NEW f \in Files, World(f) PROVE HandlesAreNew'
  BY <1>2, <1>8 DEF World, PeerSends, PeerReads, PeerCloses
<1>9. ASSUME NEW b \in batch, Callback(b) PROVE HandlesAreNew'
  <2>1. UNCHANGED <<epollEvents, nextHandle>> BY <1>9, OutsideKeeps
  <2>2. \A d \in batch' : \E c \in batch : d.handle = c.handle /\ d.file = c.file
    BY <1>9, CallbackGoesOn
  <2> QED BY <2>1, <2>2 DEF HandlesAreNew
<1> QED
  BY <1>1, <1>2, <1>3, <1>4, <1>5, <1>6, <1>7, <1>8, <1>9, OpKeeps, CloserKeeps
     DEF Moves, CloserStep
\* What is taken off the list for another's sake is remembered.
LEMMA Unwatching ==
  ASSUME HandlesAreNew, NEW g \in Files, UnwatchFile(g),
         NEW e \in epollEvents, e.file # g, NEW d,
         e.handle \in stolen \/ [handle |-> e.handle, fd |-> d] \in interest
  PROVE  /\ e \in epollEvents'
         /\ e.handle \in stolen' \/ [handle |-> e.handle, fd |-> d] \in interest'
PROOF
<1>1. e \in epollEvents' BY DEF UnwatchFile
<1>2. e.handle \notin Handles(g) BY DEF HandlesAreNew, Handles
<1>3. CASE e.handle \in stolen BY <1>1, <1>3 DEF UnwatchFile
<1>4. CASE [handle |-> e.handle, fd |-> d] \in interest
  BY <1>1, <1>2, <1>4 DEF UnwatchFile
<1> QED BY <1>3, <1>4

LEMMA StaysWatched ==
  ASSUME IInv, Moves
  PROVE  WatchedWhileOpen'
PROOF
<1> USE DEF IInv
<1> SUFFICES ASSUME NEW f \in Files, NEW d \in Fds, owner'[d] = f
             PROVE  \E e \in epollEvents' :
                      /\ e.file = f /\ e.fd = d
                      /\ e.handle \in stolen' \/ [handle |-> e.handle, fd |-> d] \in interest'
  BY DEF WatchedWhileOpen
<1>0. f # Nobody /\ f # Child BY FilesAssumption
<1>1. ASSUME owner[d] = f
      PROVE  \E e \in epollEvents :
               /\ e.file = f /\ e.fd = d
               /\ e.handle \in stolen \/ [handle |-> e.handle, fd |-> d] \in interest
  BY <1>1 DEF WatchedWhileOpen
<1> DEFINE Goal == \E e \in epollEvents' :
                     /\ e.file = f /\ e.fd = d
                     /\ e.handle \in stolen' \/ [handle |-> e.handle, fd |-> d] \in interest'
<1>2. ASSUME NEW fdOf, NEW h, Opens(fdOf, h) PROVE Goal
  <2>1. CASE \E g \in DOMAIN fdOf : fdOf[g] = d
    <3>1. f \in DOMAIN fdOf /\ fdOf[f] = d BY <1>2, <2>1 DEF Opens
    <3>2. [handle |-> h[f], file |-> f, fd |-> fdOf[f]] \in epollEvents'
      <4>1. epollEvents' = epollEvents \cup
              {[handle |-> h[g], file |-> g, fd |-> fdOf[g]] : g \in DOMAIN fdOf}
        BY <1>2 DEF Opens
      <4> QED BY <3>1, <4>1
    <3>3. [handle |-> h[f], fd |-> fdOf[f]] \in interest'
      <4>1. interest' = interest \cup {[handle |-> h[g], fd |-> fdOf[g]] : g \in DOMAIN fdOf}
        BY <1>2 DEF Opens
      <4> QED BY <3>1, <4>1
    <3> QED BY <3>1, <3>2, <3>3
  <2>2. CASE ~\E g \in DOMAIN fdOf : fdOf[g] = d
    <3>1. owner[d] = f BY <1>2, <2>2 DEF Opens
    <3> QED BY <1>1, <1>2, <3>1 DEF Opens
  <2> QED BY <2>1, <2>2
<1>3. ASSUME NEW g \in Files, UnwatchFile(g), g # f, owner[d] = f PROVE Goal
  <2>1. PICK e \in epollEvents :
          /\ e.file = f /\ e.fd = d
          /\ e.handle \in stolen \/ [handle |-> e.handle, fd |-> d] \in interest
    BY <1>1, <1>3
  <2> QED BY <1>3, <2>1, Unwatching
<1>4. ASSUME NEW g \in Files, Detach(g) PROVE Goal
  <2>1. owner[d] = f BY <1>0, <1>4 DEF Detach, Types
  <2>2. g # f
    <3>1. g = f => d = file[g].fd BY <2>1 DEF OwnsOne
    <3>2. owner'[file[g].fd] = Child \/ file[g].fd \notin Fds BY <1>4 DEF Detach, Types
    <3> QED BY <1>0, <3>1, <3>2
  <2> QED BY <1>3, <1>4, <2>1, <2>2 DEF Detach
<1>5. ASSUME NEW c \in Closers, CloseUnwatches(c) PROVE Goal
  <2>1. closer[c].file \in Files BY DEF Types, TypeOK
  <2>2. owner[d] = f /\ closer[c].file # f BY <1>5 DEF CloseUnwatches, OwnsOne
  <2> QED BY <1>3, <1>5, <2>1, <2>2 DEF CloseUnwatches
<1>6. ASSUME NEW n, CloseFd(n), UNCHANGED <<epollEvents, stolen>> PROVE Goal
  <2>1. owner[d] = f /\ d # n BY <1>0, <1>6 DEF CloseFd
  <2> QED BY <1>1, <1>6, <2>1 DEF CloseFd
<1>7. ASSUME NEW n \in Fds, Spawned(n) PROVE Goal BY <1>6, <1>7 DEF Spawned
<1>8. ASSUME NEW c \in Closers, CloseClosesFd(c) PROVE Goal BY <1>6, <1>8 DEF CloseClosesFd
<1>9. CASE UNCHANGED <<interest, epollEvents, owner, stolen>> BY <1>1, <1>9
<1> QED
  BY <1>2, <1>4, <1>5, <1>7, <1>8, <1>9, OpKeeps, CloserKeeps, OutsideKeeps
     DEF Moves, CloserStep

\* The number a closer closes is still the file's.
LEMMA ClosesItsOwn ==
  ASSUME IInv, NEW c \in Closers, closer[c].pc = "fd", file[closer[c].file].fd # NoFd
  PROVE  owner[file[closer[c].file].fd] = closer[c].file
PROOF
<1>1. closer[c].file \in Files BY DEF IInv, Types, TypeOK
<1>2. ~\E d \in Closers : closer[d].file = closer[c].file /\ closer[d].pc = "unwatch"
  BY DEF IInv, ClosersAreAlone
<1> QED BY <1>1, <1>2 DEF IInv, OwnsUntilClosed

\* The types that the steps need again and again.
LEMMA Typed ==
  ASSUME Types
  PROVE  /\ file \in [Files -> [fd : Fds \cup {NoFd}, closed : BOOLEAN, closing : BOOLEAN,
                                deleted : BOOLEAN, ops : 0..Cardinality(Sides)]]
         /\ owner \in [Fds -> Files \cup {Nobody, Child}]
         /\ closer \in [Closers -> [pc : {"idle", "read", "write", "fd", "unwatch", "join",
                                          "pump"}, file : Files]]
BY DEF Types, TypeOK

\* What CoClose() and the destructor change of a file leaves it as closed as it was.
LEMMA StaysAsClosed ==
  ASSUME Types, NEW g \in Files, NEW f \in Files,
         \/ file' = [file EXCEPT ![g].fd = NoFd]
         \/ file' = [file EXCEPT ![g].deleted = TRUE]
  PROVE  file'[f].closed = file[f].closed
PROOF
<1>1. CASE f = g
  <2>1. \/ file'[f] = [file[f] EXCEPT !.fd = NoFd]
        \/ file'[f] = [file[f] EXCEPT !.deleted = TRUE]
    BY <1>1, Typed
  <2>2. file[f] \in [fd : Fds \cup {NoFd}, closed : BOOLEAN, closing : BOOLEAN,
                     deleted : BOOLEAN, ops : 0..Cardinality(Sides)]
    BY Typed
  <2> QED BY <2>1, <2>2
<1>2. CASE f # g BY <1>2, Typed
<1> QED BY <1>1, <1>2

LEMMA StaysOwned ==
  ASSUME IInv, Moves
  PROVE  OwnsUntilClosed'
PROOF
<1> USE DEF IInv
<1>0. /\ file \in [Files -> [fd : Fds \cup {NoFd}, closed : BOOLEAN, closing : BOOLEAN,
                             deleted : BOOLEAN, ops : 0..Cardinality(Sides)]]
      /\ owner \in [Fds -> Files \cup {Nobody, Child}]
      /\ closer \in [Closers -> [pc : {"idle", "read", "write", "fd", "unwatch", "join", "pump"},
                                 file : Files]]
  BY Typed
<1> SUFFICES ASSUME NEW f \in Files, file'[f].fd # NoFd
             PROVE  \/ owner'[file'[f].fd] = f
                    \/ \E c \in Closers : closer'[c].file = f /\ closer'[c].pc = "unwatch"
  BY DEF OwnsUntilClosed
<1> DEFINE Goal == \/ owner'[file'[f].fd] = f
                   \/ \E c \in Closers : closer'[c].file = f /\ closer'[c].pc = "unwatch"
<1>1. file[f].fd # NoFd => \/ owner[file[f].fd] = f
                           \/ \E c \in Closers : closer[c].file = f /\ closer[c].pc = "unwatch"
  BY DEF OwnsUntilClosed
<1>2. f # Nobody /\ f # Child BY FilesAssumption
<1>3. ASSUME NEW fdOf, NEW h, Opens(fdOf, h) PROVE Goal
  <2>1. CASE f \in DOMAIN fdOf
    <3>1. owner'[fdOf[f]] = f /\ file' = [g \in Files |->
              IF g \in DOMAIN fdOf
              THEN [file[g] EXCEPT !.fd = fdOf[g], !.closed = FALSE, !.closing = FALSE]
              ELSE file[g]]
      BY <1>3, <2>1 DEF Opens
    <3>2. file'[f].fd = fdOf[f] BY <1>0, <2>1, <3>1
    <3> QED BY <3>1, <3>2
  <2>2. CASE f \notin DOMAIN fdOf
    <3>1. file'[f] = file[f] /\ closer' = closer BY <1>0, <1>3, <2>2 DEF Opens
    <3>2. CASE owner[file[f].fd] = f
      <4>1. \A g \in DOMAIN fdOf : fdOf[g] # file[f].fd BY <1>2, <1>3, <3>2 DEF Opens
      <4>2. file[f].fd \in Fds BY <1>0, <3>1
      <4> QED BY <1>3, <3>1, <3>2, <4>1, <4>2 DEF Opens
    <3> QED BY <1>1, <3>1, <3>2
  <2> QED BY <2>1, <2>2
<1>4. ASSUME NEW g \in Files, Detach(g) PROVE Goal
  <2>1. f # g /\ file'[f] = file[f] /\ closer' = closer BY <1>0, <1>4 DEF Detach
  <2>2. owner[file[g].fd] = g BY <1>4 DEF Detach, OwnsUntilClosed, Closing
  <2>3. owner' = [owner EXCEPT ![file[g].fd] = Child] BY <1>4 DEF Detach
  <2> QED BY <1>0, <1>1, <2>1, <2>2, <2>3
<1>5. ASSUME NEW d \in Fds, Spawned(d) PROVE Goal
  BY <1>0, <1>1, <1>2, <1>5 DEF Spawned, CloseFd
<1>6. ASSUME NEW c \in Closers, CloseClosesFd(c) PROVE Goal
  <2> DEFINE g == closer[c].file
  <2>1. file' = file /\ closer' = [closer EXCEPT ![c].pc = "unwatch"] /\ closer[c].pc = "fd"
    BY <1>6 DEF CloseClosesFd, CloserAt
  <2>2. owner' = [d \in Fds |-> IF d = file[g].fd THEN Nobody ELSE owner[d]]
    BY <1>6 DEF CloseClosesFd, CloseFd
  <2>3. CASE f = g BY <1>0, <2>1, <2>3
  <2>4. CASE f # g
    <3>1. CASE owner[file[f].fd] = f
      <4>1. file[f].fd # file[g].fd BY <2>1, <2>4, <3>1, ClosesItsOwn
      <4> QED BY <1>0, <2>1, <2>2, <3>1, <4>1
    <3>2. ASSUME NEW d \in Closers, closer[d].file = f, closer[d].pc = "unwatch" PROVE Goal
      <4>1. closer'[d] = closer[d] BY <1>0, <2>1, <3>2
      <4> QED BY <3>2, <4>1
    <3> QED BY <1>1, <2>1, <3>1, <3>2
  <2> QED BY <2>3, <2>4
<1>7. ASSUME NEW c \in Closers, CloseUnwatches(c) PROVE Goal
  BY <1>0, <1>1, <1>7 DEF CloseUnwatches, CloserAt
<1>8. ASSUME NEW c \in Closers, closer[c].pc # "unwatch", owner' = owner, file'[f].fd = file[f].fd,
             \A d \in Closers : d # c => closer'[d] = closer[d]
      PROVE  Goal
  BY <1>1, <1>8
<1>9. CASE owner' = owner /\ file'[f].fd = file[f].fd /\ closer' = closer BY <1>1, <1>9
<1> QED
  BY <1>3, <1>4, <1>5, <1>6, <1>7, <1>8, <1>9, OpKeeps, CloserKeeps, OutsideKeeps
     DEF Moves, CloserStep

\* What is left of a file when it is opened, or not.
LEMMA OpenedFile ==
  ASSUME Types, NEW fdOf, NEW h, Opens(fdOf, h), NEW f \in Files
  PROVE  /\ f \in DOMAIN fdOf => /\ file'[f].fd = fdOf[f] /\ ~file'[f].closed
                                 /\ file'[f].deleted = file[f].deleted
                                 /\ file'[f].ops = file[f].ops
         /\ f \notin DOMAIN fdOf => file'[f] = file[f]
PROOF
<1>1. file' = [g \in Files |->
                 IF g \in DOMAIN fdOf
                 THEN [file[g] EXCEPT !.fd = fdOf[g], !.closed = FALSE, !.closing = FALSE]
                 ELSE file[g]]
  BY DEF Opens
<1>2. CASE f \in DOMAIN fdOf
  <2>1. file'[f] = [file[f] EXCEPT !.fd = fdOf[f], !.closed = FALSE, !.closing = FALSE]
    BY <1>1, <1>2
  <2> QED BY <1>2, <2>1, Typed
<1>3. CASE f \notin DOMAIN fdOf BY <1>1, <1>3
<1> QED BY <1>2, <1>3

LEMMA OwnsOneStays ==
  ASSUME IInv, Moves
  PROVE  OwnsOne'
PROOF
<1> USE DEF IInv
<1>0. /\ file \in [Files -> [fd : Fds \cup {NoFd}, closed : BOOLEAN, closing : BOOLEAN,
                             deleted : BOOLEAN, ops : 0..Cardinality(Sides)]]
      /\ owner \in [Fds -> Files \cup {Nobody, Child}]
      /\ closer \in [Closers -> [pc : {"idle", "read", "write", "fd", "unwatch", "join", "pump"},
                                 file : Files]]
  BY Typed
<1> SUFFICES ASSUME NEW f \in Files, NEW d \in Fds, owner'[d] = f
             PROVE  /\ file'[f].fd = d
                    /\ \A c \in Closers : closer'[c].file = f => closer'[c].pc # "unwatch"
  BY DEF OwnsOne
<1> DEFINE Goal == /\ file'[f].fd = d
                   /\ \A c \in Closers : closer'[c].file = f => closer'[c].pc # "unwatch"
<1>1. owner[d] = f => /\ file[f].fd = d
                      /\ \A c \in Closers : closer[c].file = f => closer[c].pc # "unwatch"
  BY DEF OwnsOne
<1>2. f # Nobody /\ f # Child BY FilesAssumption
<1>3. ASSUME NEW fdOf, NEW h, Opens(fdOf, h) PROVE Goal
  <2>1. closer' = closer BY <1>3 DEF Opens
  <2>2. CASE \E g \in DOMAIN fdOf : fdOf[g] = d
    <3>1. f \in DOMAIN fdOf /\ fdOf[f] = d BY <1>3, <2>2 DEF Opens
    <3>2. ~Closing(f) BY <1>3, <3>1 DEF Opens
    <3> QED BY <1>3, <2>1, <3>1, <3>2, OpenedFile DEF Closing
  <2>3. CASE ~\E g \in DOMAIN fdOf : fdOf[g] = d
    <3>1. owner[d] = f BY <1>3, <2>3 DEF Opens
    <3>2. f \notin DOMAIN fdOf BY <1>1, <1>3, <3>1, FilesAssumption DEF Opens
    <3> QED BY <1>1, <1>3, <2>1, <3>1, <3>2, OpenedFile
  <2> QED BY <2>2, <2>3
<1>4. ASSUME NEW g \in Files, Detach(g) PROVE Goal
  <2>1. owner' = [owner EXCEPT ![file[g].fd] = Child] /\ closer' = closer BY <1>4 DEF Detach
  <2>2. owner[d] = f /\ d # file[g].fd BY <1>0, <1>2, <2>1
  <2>3. f # g BY <1>1, <2>2
  <2> QED BY <1>0, <1>1, <1>4, <2>1, <2>2, <2>3 DEF Detach
<1>5. ASSUME NEW n \in Fds, Spawned(n) PROVE Goal
  BY <1>1, <1>2, <1>5 DEF Spawned, CloseFd
<1>6. ASSUME NEW c \in Closers, CloseClosesFd(c) PROVE Goal
  <2> DEFINE g == closer[c].file
  <2>1. file' = file /\ closer' = [closer EXCEPT ![c].pc = "unwatch"]
    BY <1>6 DEF CloseClosesFd, CloserAt
  <2>2. owner' = [n \in Fds |-> IF n = file[g].fd THEN Nobody ELSE owner[n]]
    BY <1>6 DEF CloseClosesFd, CloseFd
  <2>3. owner[d] = f /\ d # file[g].fd BY <1>2, <2>2
  <2>4. f # g BY <1>1, <2>3
  <2> QED BY <1>0, <1>1, <2>1, <2>3, <2>4
<1>7. ASSUME NEW c \in Closers, CloseUnwatches(c) PROVE Goal
  <2>1. owner' = owner /\ closer' = [closer EXCEPT ![c].pc = "join"] /\ closer[c].pc = "unwatch"
        /\ file' = [file EXCEPT ![closer[c].file].fd = NoFd]
    BY <1>7 DEF CloseUnwatches, CloserAt
  <2>2. f # closer[c].file BY <1>1, <2>1
  <2> QED BY <1>0, <1>1, <2>1, <2>2
<1>8. ASSUME NEW c \in Closers, closer'[c].pc # "unwatch", owner' = owner,
             file'[f].fd = file[f].fd, \A x \in Closers : x # c => closer'[x] = closer[x]
      PROVE  Goal
  BY <1>1, <1>8
<1>9. CASE owner' = owner /\ file'[f].fd = file[f].fd /\ closer' = closer BY <1>1, <1>9
<1> QED
  BY <1>3, <1>4, <1>5, <1>6, <1>7, <1>8, <1>9, OpKeeps, CloserKeeps, OutsideKeeps
     DEF Moves, CloserStep

LEMMA ClosersStayAlone ==
  ASSUME IInv, Moves
  PROVE  ClosersAreAlone'
PROOF
<1> USE DEF IInv
<1>0. /\ file \in [Files -> [fd : Fds \cup {NoFd}, closed : BOOLEAN, closing : BOOLEAN,
                             deleted : BOOLEAN, ops : 0..Cardinality(Sides)]]
      /\ owner \in [Fds -> Files \cup {Nobody, Child}]
      /\ closer \in [Closers -> [pc : {"idle", "read", "write", "fd", "unwatch", "join", "pump"},
                                 file : Files]]
  BY Typed
<1> SUFFICES ASSUME NEW c \in Closers, NEW d \in Closers, closer'[c].pc # "idle"
             PROVE  /\ file'[closer'[c].file].closed /\ ~file'[closer'[c].file].deleted
                    /\ closer'[c].pc \in {"join", "pump"} => file'[closer'[c].file].fd = NoFd
                    /\ closer'[d].pc # "idle" /\ closer'[d].file = closer'[c].file => c = d
  BY DEF ClosersAreAlone
<1> DEFINE Goal == /\ file'[closer'[c].file].closed /\ ~file'[closer'[c].file].deleted
                   /\ closer'[c].pc \in {"join", "pump"} => file'[closer'[c].file].fd = NoFd
                   /\ closer'[d].pc # "idle" /\ closer'[d].file = closer'[c].file => c = d
<1>1. \A x, y \in Closers :
        closer[x].pc # "idle" =>
          /\ file[closer[x].file].closed /\ ~file[closer[x].file].deleted
          /\ closer[x].pc \in {"join", "pump"} => file[closer[x].file].fd = NoFd
          /\ closer[y].pc # "idle" /\ closer[y].file = closer[x].file => x = y
  BY DEF ClosersAreAlone
<1>2. ASSUME NEW fdOf, NEW h, Opens(fdOf, h) PROVE Goal
  <2>1. closer' = closer BY <1>2 DEF Opens
  <2>2. closer[c].file \in Files /\ closer[c].file \notin DOMAIN fdOf
    BY <1>0, <1>2, <2>1 DEF Opens, Closing
  <2> QED BY <1>1, <1>2, <2>1, <2>2, OpenedFile
<1>3. ASSUME NEW f \in Files, Detach(f) PROVE Goal BY <1>0, <1>1, <1>3 DEF Detach
<1>4. ASSUME NEW x \in Closers, NEW f \in Files, CloseBegins(x, f) PROVE Goal
  <2>1. /\ file' = [file EXCEPT ![f].closed = TRUE, ![f].closing = TRUE]
        /\ closer' = [closer EXCEPT ![x] = [pc |-> "read", file |-> f]]
        /\ ~file[f].deleted /\ ~file[f].closed
    BY <1>4 DEF CloseBegins
  <2>2. closer[c].pc # "idle" => closer[c].file # f BY <1>1, <2>1
  <2>3. closer[d].pc # "idle" => closer[d].file # f BY <1>1, <2>1
  <2> QED BY <1>0, <1>1, <2>1, <2>2, <2>3
<1>5. ASSUME NEW x \in Closers, NEW f \in Files, DeleteBegins(x, f) PROVE Goal
  <2>1. /\ file' = file /\ closer' = [closer EXCEPT ![x] = [pc |-> "pump", file |-> f]]
        /\ ~file[f].deleted /\ file[f].closed /\ file[f].fd = NoFd
    BY <1>5 DEF DeleteBegins, IdleWhenShut
  <2>2. \A y \in Closers : closer[y].pc # "idle" => closer[y].file # f
    BY <1>5 DEF DeleteBegins, Closing
  <2> QED BY <1>0, <1>1, <2>1, <2>2
<1>6. ASSUME NEW x \in Closers, CloseNotifies(x) PROVE Goal
  <2>1. file' = file /\ closer[x].pc \in Sides
        /\ closer' = [closer EXCEPT ![x].pc = IF closer[x].pc = "read" THEN "write" ELSE "fd"]
    BY <1>6 DEF CloseNotifies, CloserAt
  <2> QED BY <1>0, <1>1, <2>1 DEF Sides
<1>7. ASSUME NEW x \in Closers, CloseClosesFd(x) PROVE Goal
  BY <1>0, <1>1, <1>7 DEF CloseClosesFd, CloserAt
<1>8. ASSUME NEW x \in Closers, CloseUnwatches(x) PROVE Goal
  <2>1. /\ closer[x].pc = "unwatch" /\ closer' = [closer EXCEPT ![x].pc = "join"]
        /\ file' = [file EXCEPT ![closer[x].file].fd = NoFd]
    BY <1>8 DEF CloseUnwatches, CloserAt
  <2>2. closer[c].pc # "idle" /\ (closer'[d].pc # "idle" => closer[d].pc # "idle")
        /\ closer'[c].file = closer[c].file /\ closer'[d].file = closer[d].file
    BY <1>0, <2>1
  <2>3. closer'[c].pc \in {"join", "pump"} => file'[closer[c].file].fd = NoFd
    BY <1>0, <1>1, <2>1
  <2>4. \A f \in Files : file'[f].closed = file[f].closed /\ file'[f].deleted = file[f].deleted
    BY <1>0, <2>1
  <2> QED BY <1>0, <1>1, <2>2, <2>3, <2>4
<1>9. ASSUME NEW x \in Closers, CloseJoins(x) PROVE Goal
  <2>1. file' = file /\ closer' = [closer EXCEPT ![x] = NoCloser] BY <1>9 DEF CloseJoins
  <2> QED BY <1>0, <1>1, <2>1 DEF NoCloser
<1>10. ASSUME NEW x \in Closers, Deleted(x) PROVE Goal
  <2>1. /\ closer[x].pc = "pump" /\ closer' = [closer EXCEPT ![x] = NoCloser]
        /\ file' = [file EXCEPT ![closer[x].file].deleted = TRUE]
    BY <1>10 DEF Deleted
  <2>2. c # x /\ closer'[c] = closer[c] /\ closer[c].file # closer[x].file
    BY <1>0, <1>1, <2>1 DEF NoCloser
  <2>3. file'[closer[c].file] = file[closer[c].file] BY <1>0, <2>1, <2>2
  <2>4. closer'[d].pc # "idle" => closer'[d] = closer[d] BY <1>0, <2>1 DEF NoCloser
  <2> QED BY <1>1, <2>2, <2>3, <2>4
<1>11. CASE /\ closer' = closer
            /\ \A f \in Files : /\ file'[f].fd = file[f].fd /\ file'[f].closed = file[f].closed
                                /\ file'[f].deleted = file[f].deleted
  BY <1>0, <1>1, <1>11
<1>12. ASSUME NEW n \in Fds, Spawned(n) PROVE Goal BY <1>11, <1>12 DEF Spawned
<1> QED
  BY <1>2, <1>3, <1>4, <1>5, <1>6, <1>7, <1>8, <1>9, <1>10, <1>11, <1>12, OpKeeps, OutsideKeeps
     DEF Moves, CloserStep

-----------------------------------------------------------------------------
(* The operations' part. *)

\* What an operation does to its counter, and where it comes from.
LEMMA OpCounts ==
  ASSUME IInv, NEW o \in Ops, OpActs(o)
  PROVE  /\ file'[o[1]].ops = (file[o[1]].ops + Busy(o)') - Busy(o)
         /\ op[o].pc = "idle" => file[o[1]].fd # NoFd /\ ~file[o[1]].deleted
         /\ op'[o].pc \in {"check", "io", "reset", "waiting"} /\ file[o[1]].closed => Holds(o)
PROOF
<1> USE DEF IInv
<1>1. /\ o[1] \in Files /\ o[2] \in Sides /\ o = <<o[1], o[2]>>
      /\ file \in [Files -> [fd : Fds \cup {NoFd}, closed : BOOLEAN, closing : BOOLEAN,
                             deleted : BOOLEAN, ops : 0..Cardinality(Sides)]]
      /\ op \in [Ops -> [pc : {"idle", "lock", "check", "io", "reset", "enter", "waiting"},
                         kind : Kinds("read") \cup Kinds("write"), got : 0 .. Want - 1]]
  BY DEF Ops, Types, TypeOK
<1>2. file[o[1]].ops \in Nat /\ (op[o].pc # "idle" => file[o[1]].ops > 0)
  <2>1. file[o[1]].ops = Busy(<<o[1], "read">>) + Busy(<<o[1], "write">>)
    BY <1>1 DEF OpsAreCounted
  <2>2. o = <<o[1], "read">> \/ o = <<o[1], "write">> BY <1>1 DEF Sides
  <2> QED BY <2>1, <2>2 DEF Busy
<1>3. CASE Start(o)
  <2>1. op[o].pc = "idle" /\ file[o[1]].fd # NoFd /\ ~file[o[1]].deleted BY <1>3 DEF Start
  <2>2. op'[o].pc = "lock" BY <1>1, <1>3 DEF Start
  <2>3. file'[o[1]].ops = file[o[1]].ops + 1 BY <1>1, <1>3 DEF Start, Counted
  <2> QED BY <1>2, <2>1, <2>2, <2>3 DEF Busy
<1>4. ASSUME End(o), op[o].pc # "idle"
      PROVE  file'[o[1]].ops = (file[o[1]].ops + Busy(o)') - Busy(o) /\ op'[o].pc = "idle"
  <2>1. op'[o].pc = "idle" BY <1>1, <1>4 DEF End, NoOp
  <2>2. file'[o[1]].ops = file[o[1]].ops - 1 BY <1>1, <1>2, <1>4 DEF End
  <2> QED BY <1>2, <1>4, <2>1, <2>2 DEF Busy
<1>5. ASSUME op[o].pc # "idle", op'[o].pc # "idle", file' = file
      PROVE  file'[o[1]].ops = (file[o[1]].ops + Busy(o)') - Busy(o)
  BY <1>2, <1>5 DEF Busy
<1>6. CASE CheckClosed(o)
  <2>1. CASE file[o[1]].closed BY <1>4, <1>6, <2>1 DEF CheckClosed
  <2>2. CASE ~file[o[1]].closed
    <3>1. op'[o].pc = "io" BY <1>1, <1>6, <2>2 DEF CheckClosed, Go
    <3> QED BY <1>5, <1>6, <2>2, <3>1 DEF CheckClosed
  <2> QED BY <2>1, <2>2
<1>7. CASE Transfer(o)
  <2>1. CASE op[o].kind \in {"recv", "send"} \/ op[o].got + 1 = Want
    BY <1>4, <1>7, <2>1 DEF Transfer
  <2>2. CASE ~(op[o].kind \in {"recv", "send"} \/ op[o].got + 1 = Want)
    <3>1. op'[o].pc = "check" /\ file' = file BY <1>1, <1>7, <2>2 DEF Transfer
    <3> QED BY <1>5, <1>7, <3>1 DEF Transfer, Holds
  <2> QED BY <2>1, <2>2
<1>8. CASE NoTransfer(o) BY <1>4, <1>8 DEF NoTransfer
<1>9. CASE WouldBlock(o)
  <2>1. op[o].pc = "io" /\ op'[o].pc = "reset" /\ file' = file
    BY <1>1, <1>9 DEF WouldBlock, Go
  <2> QED BY <1>5, <2>1 DEF Holds
<1>10. CASE ResetReady(o)
  <2>1. op[o].pc = "reset" /\ op'[o].pc = "enter" /\ file' = file
    BY <1>1, <1>10 DEF ResetReady, Go
  <2> QED BY <1>5, <2>1
<1>11. CASE Wait(o)
  <2>1. op[o].pc = "enter" /\ op'[o].pc # "idle" /\ file' = file
        /\ (file[o[1]].closed => op'[o].pc = "lock") /\ op'[o].pc \in {"lock", "waiting"}
    BY <1>1, <1>11 DEF Wait, Go
  <2> QED BY <1>5, <2>1
<1>12. CASE TimesOut(o) BY <1>4, <1>12 DEF TimesOut
<1> QED
  BY <1>1, <1>3, <1>6, <1>7, <1>8, <1>9, <1>10, <1>11, <1>12 DEF OpActs, OpStep

\* Who waits on a side that is told goes on; nobody else notices.
LEMMA Awakening ==
  ASSUME Types, NEW f, NEW sides, op' = Awoken(f, sides), NEW o \in Ops
  PROVE  /\ op'[o] = op[o] \/ (op[o].pc = "waiting" /\ op'[o].pc = "lock")
         /\ o[1] = f /\ o[2] \in sides => op'[o].pc # "waiting"
PROOF
<1>1. op[o] \in [pc : {"idle", "lock", "check", "io", "reset", "enter", "waiting"},
                 kind : Kinds("read") \cup Kinds("write"), got : 0 .. Want - 1]
  BY DEF Types, TypeOK
<1>2. op'[o] = IF o[1] = f /\ o[2] \in sides /\ op[o].pc = "waiting"
               THEN [op[o] EXCEPT !.pc = "lock"] ELSE op[o]
  BY DEF Awoken
<1>3. CASE o[1] = f /\ o[2] \in sides /\ op[o].pc = "waiting"
  <2>1. op'[o] = [op[o] EXCEPT !.pc = "lock"] BY <1>2, <1>3
  <2>2. op'[o].pc = "lock" BY <1>1, <2>1
  <2> QED BY <1>3, <2>2
<1>4. CASE ~(o[1] = f /\ o[2] \in sides /\ op[o].pc = "waiting")
  <2>1. op'[o] = op[o] BY <1>2, <1>4
  <2> QED BY <1>4, <2>1
<1> QED BY <1>3, <1>4

\* An operation is under way only on a file that stays.
LEMMA RemoteIsIdle ==
  ASSUME Types, NEW f \in program.remote, NEW o \in Ops, o[1] = f
  PROVE  op[o].pc = "idle"
BY ProgramsAssumption DEF Types, IsProgram

LEMMA StaysToldOfClose ==
  ASSUME IInv, Moves
  PROVE  ToldOfClose'
PROOF
<1> USE DEF IInv
<1>0. /\ file \in [Files -> [fd : Fds \cup {NoFd}, closed : BOOLEAN, closing : BOOLEAN,
                             deleted : BOOLEAN, ops : 0..Cardinality(Sides)]]
      /\ closer \in [Closers -> [pc : {"idle", "read", "write", "fd", "unwatch", "join", "pump"},
                                 file : Files]]
  BY Typed
<1> SUFFICES ASSUME NEW o \in Ops, Holds(o)' \/ op'[o].pc = "waiting", file'[o[1]].closed
             PROVE  \E c \in Closers : closer'[c].file = o[1] /\ closer'[c].pc \in {"read", o[2]}
  BY DEF ToldOfClose
<1> DEFINE Goal == \E c \in Closers : closer'[c].file = o[1] /\ closer'[c].pc \in {"read", o[2]}
<1>1. o[1] \in Files /\ o[2] \in {"read", "write"} /\ o = <<o[1], o[2]>> BY DEF Ops, Sides
<1>2. (Holds(o) \/ op[o].pc = "waiting") /\ file[o[1]].closed =>
        \E c \in Closers : closer[c].file = o[1] /\ closer[c].pc \in {"read", o[2]}
  BY DEF ToldOfClose
<1>3. op'[o] = op[o] => Holds(o) \/ op[o].pc = "waiting" BY DEF Holds
<1>4. CASE op'[o] = op[o] /\ file'[o[1]].closed = file[o[1]].closed /\ closer' = closer
  BY <1>2, <1>3, <1>4
<1>5. ASSUME NEW f, NEW sides, op' = Awoken(f, sides)
      PROVE  op'[o] = op[o]
  BY <1>5, Awakening DEF Holds
<1>6. ASSUME NEW fdOf, NEW h, Opens(fdOf, h) PROVE Goal
  <2>1. op' = op /\ closer' = closer BY <1>6 DEF Opens
  <2> QED BY <1>1, <1>4, <1>6, <2>1, OpenedFile
<1>7. ASSUME NEW f \in Files, Detach(f) PROVE Goal
  <2>1. o[1] # f
    <3>1. op' = op /\ f \in program.remote BY <1>7 DEF Detach
    <3>2. op[o].pc # "idle" BY <1>3, <3>1 DEF Holds
    <3> QED BY <3>1, <3>2, RemoteIsIdle
  <2> QED BY <1>0, <1>1, <1>4, <1>7, <2>1 DEF Detach
<1>8. ASSUME NEW p \in Ops, OpActs(p) PROVE Goal
  <2>1. CASE p = o
    <3>1. op'[o].pc \in {"check", "io", "reset", "waiting"} BY DEF Holds
    <3>2. file[o[1]].closed BY <1>1, <1>8, OpKeeps
    <3> QED BY <1>2, <1>8, <2>1, <3>1, <3>2, OpCounts, OpKeeps
  <2>2. CASE p # o BY <1>1, <1>4, <1>8, <2>2, OpKeeps
  <2> QED BY <2>1, <2>2
<1>9. ASSUME NEW b \in batch, Callback(b) PROVE Goal
  <2>1. op'[o] = op[o] BY <1>5, <1>9 DEF Callback
  <2> QED BY <1>4, <1>9, <2>1 DEF Callback
<1>10. ASSUME NEW c \in Closers, NEW f \in Files, CloseBegins(c, f) PROVE Goal
  <2>1. /\ op' = op /\ closer[c].pc = "idle"
        /\ file' = [file EXCEPT ![f].closed = TRUE, ![f].closing = TRUE]
        /\ closer' = [closer EXCEPT ![c] = [pc |-> "read", file |-> f]]
    BY <1>10 DEF CloseBegins
  <2>2. CASE o[1] = f BY <1>0, <2>1, <2>2
  <2>3. CASE o[1] # f
    <3>1. PICK d \in Closers : closer[d].file = o[1] /\ closer[d].pc \in {"read", o[2]}
      BY <1>0, <1>1, <1>2, <1>3, <2>1, <2>3
    <3>2. closer'[d] = closer[d] BY <1>0, <1>1, <2>1, <3>1
    <3> QED BY <3>1, <3>2
  <2> QED BY <2>2, <2>3
<1>11. ASSUME NEW c \in Closers, closer[c].pc \notin Sides,
              \A d \in Closers : d # c => closer'[d] = closer[d],
              op' = op, file'[o[1]].closed = file[o[1]].closed
       PROVE  Goal
  <2>1. PICK d \in Closers : closer[d].file = o[1] /\ closer[d].pc \in {"read", o[2]}
    BY <1>2, <1>3, <1>11
  <2> QED BY <1>1, <1>11, <2>1 DEF Sides
<1>12. ASSUME NEW c \in Closers, NEW f \in Files, DeleteBegins(c, f) PROVE Goal
  BY <1>0, <1>11, <1>12 DEF DeleteBegins, Sides
<1>13. ASSUME NEW c \in Closers, CloseNotifies(c) PROVE Goal
  <2>1. /\ op' = Awoken(closer[c].file, {closer[c].pc}) /\ closer[c].pc \in Sides /\ file' = file
        /\ MutexIsFree(closer[c].file, closer[c].pc)
        /\ closer' = [closer EXCEPT ![c].pc = IF closer[c].pc = "read" THEN "write" ELSE "fd"]
    BY <1>13 DEF CloseNotifies, CloserAt, WokenByClose, CloseWaitsForMutex
  <2>2. op'[o] = op[o] BY <1>5, <2>1
  <2>3. PICK d \in Closers : closer[d].file = o[1] /\ closer[d].pc \in {"read", o[2]}
    BY <1>2, <1>3, <2>1, <2>2
  <2>4. CASE d # c BY <1>0, <2>1, <2>3, <2>4
  <2>5. CASE d = c
    <3>1. o[2] # closer[c].pc
      <4>1. SUFFICES ASSUME o[2] = closer[c].pc PROVE FALSE OBVIOUS
      <4>2. op'[o].pc # "waiting" BY <2>1, <2>3, <2>5, <4>1, Awakening
      <4>3. ~Holds(o) BY <1>1, <2>1, <2>3, <2>5, <4>1 DEF MutexIsFree
      <4> QED BY <1>3, <2>2, <4>2, <4>3
    <3>2. closer[c].pc = "read" /\ o[2] = "write" BY <1>1, <2>3, <2>5, <3>1
    <3>3. closer'[c].file = o[1] /\ closer'[c].pc = "write" BY <1>0, <2>1, <2>3, <2>5, <3>2
    <3> QED BY <3>2, <3>3
  <2> QED BY <2>4, <2>5
<1>14. ASSUME NEW c \in Closers, CloseClosesFd(c) PROVE Goal
  <2>1. /\ file' = file /\ op' = op
        /\ closer[c].pc = "fd" /\ closer' = [closer EXCEPT ![c].pc = "unwatch"]
    BY <1>14 DEF CloseClosesFd, CloserAt
  <2>2. \A d \in Closers : d # c => closer'[d] = closer[d] BY <1>0, <2>1
  <2> QED BY <1>11, <2>1, <2>2 DEF Sides
<1>15. ASSUME NEW c \in Closers, CloseUnwatches(c) PROVE Goal
  <2>1. /\ file' = [file EXCEPT ![closer[c].file].fd = NoFd] /\ op' = op
        /\ closer[c].pc = "unwatch" /\ closer' = [closer EXCEPT ![c].pc = "join"]
    BY <1>15 DEF CloseUnwatches, CloserAt
  <2>2. closer[c].file \in Files BY <1>0
  <2>3. file'[o[1]].closed = file[o[1]].closed BY <1>1, <2>1, <2>2, StaysAsClosed
  <2>4. \A d \in Closers : d # c => closer'[d] = closer[d] BY <1>0, <2>1
  <2> QED BY <1>11, <2>1, <2>3, <2>4 DEF Sides
<1>16. ASSUME NEW c \in Closers, CloseJoins(c) PROVE Goal
  BY <1>0, <1>11, <1>16 DEF CloseJoins, Sides
<1>17. ASSUME NEW c \in Closers, Deleted(c) PROVE Goal
  <2>1. /\ file' = [file EXCEPT ![closer[c].file].deleted = TRUE] /\ op' = op
        /\ closer[c].pc = "pump" /\ closer' = [closer EXCEPT ![c] = NoCloser]
    BY <1>17 DEF Deleted
  <2>2. closer[c].file \in Files BY <1>0
  <2>3. file'[o[1]].closed = file[o[1]].closed BY <1>1, <2>1, <2>2, StaysAsClosed
  <2>4. \A d \in Closers : d # c => closer'[d] = closer[d] BY <1>0, <2>1
  <2> QED BY <1>11, <2>1, <2>3, <2>4 DEF Sides
<1>18. ASSUME NEW d \in Fds, Spawned(d) PROVE Goal BY <1>4, <1>18 DEF Spawned
<1>19. ASSUME NEW f \in Files, World(f) PROVE Goal BY <1>4, <1>19 DEF World
<1>20. CASE EpollWait /\ UNCHANGED <<file, ready, op, closer>> BY <1>4, <1>20
<1> QED
  BY <1>6, <1>7, <1>8, <1>9, <1>10, <1>12, <1>13, <1>14, <1>15, <1>16, <1>17, <1>18, <1>19,
     <1>20
     DEF Moves, CloserStep
\* Both sides of a file are idle when nothing is counted.
LEMMA NothingIsPending ==
  ASSUME IInv, NEW f \in Files, file[f].ops = 0, NEW s \in Sides
  PROVE  op[<<f, s>>].pc = "idle"
PROOF
<1>1. Busy(<<f, "read">>) + Busy(<<f, "write">>) = 0 BY DEF IInv, OpsAreCounted
<1> QED BY <1>1 DEF Busy, Sides

LEMMA OpsStayCounted ==
  ASSUME IInv, Moves
  PROVE  OpsAreCounted'
PROOF
<1> USE DEF IInv
<1>0. /\ file \in [Files -> [fd : Fds \cup {NoFd}, closed : BOOLEAN, closing : BOOLEAN,
                             deleted : BOOLEAN, ops : 0..Cardinality(Sides)]]
      /\ closer \in [Closers -> [pc : {"idle", "read", "write", "fd", "unwatch", "join", "pump"},
                                 file : Files]]
  BY Typed
<1> SUFFICES ASSUME NEW f \in Files
             PROVE  file'[f].ops = Busy(<<f, "read">>)' + Busy(<<f, "write">>)'
  BY DEF OpsAreCounted
<1> DEFINE Goal == file'[f].ops = Busy(<<f, "read">>)' + Busy(<<f, "write">>)'
<1>1. file[f].ops = Busy(<<f, "read">>) + Busy(<<f, "write">>) BY DEF OpsAreCounted
<1>2. <<f, "read">> \in Ops /\ <<f, "write">> \in Ops BY DEF Ops, Sides
<1>3. CASE file'[f].ops = file[f].ops /\ op' = op BY <1>1, <1>3 DEF Busy
<1>4. ASSUME file'[f].ops = file[f].ops, NEW g, NEW sides, op' = Awoken(g, sides) PROVE Goal
  <2>1. \A o \in Ops : op'[o].pc = "idle" <=> op[o].pc = "idle" BY <1>4, Awakening
  <2> QED BY <1>1, <1>2, <1>4, <2>1 DEF Busy
<1>5. ASSUME NEW fdOf, NEW h, Opens(fdOf, h) PROVE Goal
  <2>1. file'[f].ops = file[f].ops BY <1>5, OpenedFile
  <2>2. op' = op BY <1>5 DEF Opens
  <2> QED BY <1>3, <2>1, <2>2
<1>6. ASSUME NEW g \in Files, Detach(g) PROVE Goal
  <2>1. /\ op' = op
        /\ file' = [file EXCEPT ![g].fd = NoFd, ![g].closed = TRUE]
    BY <1>6 DEF Detach
  <2>2. file'[f].ops = file[f].ops BY <1>0, <2>1
  <2> QED BY <1>3, <2>1, <2>2
<1>7. ASSUME NEW o \in Ops, OpActs(o) PROVE Goal
  <2>1. o[1] \in Files /\ o[2] \in {"read", "write"} /\ o = <<o[1], o[2]>> BY DEF Ops, Sides
  <2>2. CASE o[1] # f
    <3>1. file'[f] = file[f] BY <1>7, <2>2, OpKeeps
    <3>2. op'[<<f, "read">>] = op[<<f, "read">>] BY <1>2, <1>7, <2>2, OpKeeps
    <3>3. op'[<<f, "write">>] = op[<<f, "write">>] BY <1>2, <1>7, <2>2, OpKeeps
    <3> QED BY <1>1, <3>1, <3>2, <3>3 DEF Busy
  <2>3. CASE o = <<f, "read">>
    <3>1. op'[<<f, "write">>] = op[<<f, "write">>] BY <1>2, <1>7, <2>3, OpKeeps
    <3>2. file'[f].ops = (file[f].ops + Busy(o)') - Busy(o) BY <1>7, <2>3, OpCounts
    <3> QED BY <1>1, <2>3, <3>1, <3>2 DEF Busy
  <2>4. CASE o = <<f, "write">>
    <3>1. op'[<<f, "read">>] = op[<<f, "read">>] BY <1>2, <1>7, <2>4, OpKeeps
    <3>2. file'[f].ops = (file[f].ops + Busy(o)') - Busy(o) BY <1>7, <2>4, OpCounts
    <3> QED BY <1>1, <2>4, <3>1, <3>2 DEF Busy
  <2> QED BY <2>1, <2>2, <2>3, <2>4
<1>8. ASSUME NEW b \in batch, Callback(b) PROVE Goal BY <1>4, <1>8 DEF Callback
<1>9. ASSUME NEW c \in Closers, CloseNotifies(c) PROVE Goal
  BY <1>4, <1>9 DEF CloseNotifies, WokenByClose
<1>10. ASSUME NEW c \in Closers,
              \/ CloseJoins(c) \/ Deleted(c)
              \/ \E g \in Files : CloseBegins(c, g) \/ DeleteBegins(c, g)
       PROVE  Goal
  <2>1. op' = op BY <1>10 DEF CloseJoins, Deleted, CloseBegins, DeleteBegins
  <2> QED BY <1>3, <1>10, <2>1, CloserKeeps
<1>11. ASSUME NEW c \in Closers, CloseClosesFd(c) PROVE Goal BY <1>3, <1>11 DEF CloseClosesFd
<1>12. ASSUME NEW c \in Closers, CloseUnwatches(c) PROVE Goal
  BY <1>0, <1>3, <1>12 DEF CloseUnwatches
<1>13. ASSUME NEW d \in Fds, Spawned(d) PROVE Goal BY <1>3, <1>13 DEF Spawned
<1>14. ASSUME NEW g \in Files, World(g) PROVE Goal BY <1>3, <1>14 DEF World
<1>15. CASE EpollWait /\ UNCHANGED <<file, ready, op, closer>> BY <1>3, <1>15
<1> QED
  BY <1>5, <1>6, <1>7, <1>8, <1>9, <1>10, <1>11, <1>12, <1>13, <1>14, <1>15
     DEF Moves, CloserStep

LEMMA StaysIdleWhenShut ==
  ASSUME IInv, Moves
  PROVE  IdleWhenShut'
PROOF
<1> USE DEF IInv
<1>0. /\ file \in [Files -> [fd : Fds \cup {NoFd}, closed : BOOLEAN, closing : BOOLEAN,
                             deleted : BOOLEAN, ops : 0..Cardinality(Sides)]]
      /\ closer \in [Closers -> [pc : {"idle", "read", "write", "fd", "unwatch", "join", "pump"},
                                 file : Files]]
  BY Typed
<1> SUFFICES ASSUME NEW f \in Files, ~Closing(f)'
             PROVE  /\ file'[f].closed => file'[f].fd = NoFd
                    /\ file'[f].fd = NoFd \/ file'[f].deleted =>
                         file'[f].closed /\ \A s \in Sides : op'[<<f, s>>].pc = "idle"
  BY DEF IdleWhenShut
<1> DEFINE Idle == \A s \in Sides : op[<<f, s>>].pc = "idle"
           Goal == /\ file'[f].closed => file'[f].fd = NoFd
                   /\ file'[f].fd = NoFd \/ file'[f].deleted =>
                        file'[f].closed /\ \A s \in Sides : op'[<<f, s>>].pc = "idle"
<1>1. ~Closing(f) => /\ file[f].closed => file[f].fd = NoFd
                     /\ file[f].fd = NoFd \/ file[f].deleted => file[f].closed /\ Idle
  BY DEF IdleWhenShut
<1>2. \A s \in Sides : <<f, s>> \in Ops BY DEF Ops
<1>4. closer' = closer => ~Closing(f) BY DEF Closing
<1>5. ASSUME /\ ~Closing(f) /\ file'[f].fd = file[f].fd /\ file'[f].closed = file[f].closed
             /\ file'[f].deleted = file[f].deleted,
             \A s \in Sides : op[<<f, s>>].pc = "idle" => op'[<<f, s>>].pc = "idle"
      PROVE  Goal
  BY <1>1, <1>5
<1>6. ASSUME NEW g, NEW sides, op' = Awoken(g, sides)
      PROVE  \A s \in Sides : op[<<f, s>>].pc = "idle" => op'[<<f, s>>].pc = "idle"
  BY <1>2, <1>6, Awakening
<1>7. ASSUME NEW fdOf, NEW h, Opens(fdOf, h) PROVE Goal
  <2>1. closer' = closer /\ op' = op BY <1>7 DEF Opens
  <2>2. CASE f \in DOMAIN fdOf
    <3>1. fdOf[f] \in Fds /\ ~file[f].deleted BY <1>7, <2>2 DEF Opens
    <3> QED BY <1>7, <2>2, <3>1, OpenedFile, FilesAssumption
  <2>3. CASE f \notin DOMAIN fdOf BY <1>4, <1>5, <1>7, <2>1, <2>3, OpenedFile
  <2> QED BY <2>2, <2>3
<1>8. ASSUME NEW g \in Files, Detach(g) PROVE Goal
  <2>1. closer' = closer /\ op' = op /\ g \in program.remote BY <1>8 DEF Detach
  <2>2. CASE f = g
    <3>1. Idle BY <1>2, <2>1, <2>2, RemoteIsIdle
    <3> QED BY <1>0, <1>8, <2>1, <2>2, <3>1 DEF Detach
  <2>3. CASE f # g BY <1>0, <1>4, <1>5, <1>8, <2>1, <2>3 DEF Detach
  <2> QED BY <2>2, <2>3
<1>9. ASSUME NEW o \in Ops, OpActs(o) PROVE Goal
  <2>1. closer' = closer BY <1>9, OpKeeps
  <2>2. ~Closing(f) BY <1>4, <2>1
  <2>3. /\ file'[f].fd = file[f].fd /\ file'[f].closed = file[f].closed
        /\ file'[f].deleted = file[f].deleted
    BY <1>9, OpKeeps
  <2>4. CASE o[1] = f
    <3>1. op[o].pc = "idle" => file[f].fd # NoFd /\ ~file[f].deleted BY <1>9, <2>4, OpCounts
    <3>2. o = <<f, o[2]>> /\ o[2] \in Sides BY <2>4 DEF Ops
    <3>3. file[f].fd # NoFd /\ ~file[f].deleted BY <1>1, <2>2, <3>1, <3>2
    <3> QED BY <1>1, <2>2, <2>3, <3>3
  <2>5. CASE o[1] # f
    <3>1. \A s \in Sides : op'[<<f, s>>] = op[<<f, s>>] BY <1>2, <1>9, <2>5, OpKeeps
    <3> QED BY <1>5, <2>2, <2>3, <3>1
  <2> QED BY <2>4, <2>5
<1>10. ASSUME NEW b \in batch, Callback(b) PROVE Goal
  BY <1>4, <1>5, <1>6, <1>10 DEF Callback
<1>11. ASSUME NEW c \in Closers, NEW g \in Files, CloseBegins(c, g) PROVE Goal
  <2>1. /\ op' = op /\ closer[c].pc = "idle"
        /\ file' = [file EXCEPT ![g].closed = TRUE, ![g].closing = TRUE]
        /\ closer' = [closer EXCEPT ![c] = [pc |-> "read", file |-> g]]
    BY <1>11 DEF CloseBegins
  <2>2. f # g BY <1>0, <2>1 DEF Closing
  <2>3. ~Closing(f) BY <1>0, <2>1 DEF Closing
  <2> QED BY <1>0, <1>5, <2>1, <2>2, <2>3
<1>12. ASSUME NEW c \in Closers, NEW g \in Files, DeleteBegins(c, g) PROVE Goal
  <2>1. ~Closing(f) BY <1>0, <1>12 DEF DeleteBegins, Closing
  <2> QED BY <1>5, <1>12, <2>1 DEF DeleteBegins
<1>13. ASSUME NEW c \in Closers, CloseNotifies(c) PROVE Goal
  <2>1. ~Closing(f)
    <3>1. closer[c].pc \in Sides
          /\ closer' = [closer EXCEPT ![c].pc = IF closer[c].pc = "read" THEN "write" ELSE "fd"]
      BY <1>13 DEF CloseNotifies, CloserAt
    <3> QED BY <1>0, <3>1 DEF Closing
  <2> QED BY <1>5, <1>6, <1>13, <2>1 DEF CloseNotifies, WokenByClose
<1>14. ASSUME NEW c \in Closers, CloseClosesFd(c) PROVE Goal
  <2>1. ~Closing(f) BY <1>0, <1>14 DEF CloseClosesFd, CloserAt, Closing
  <2> QED BY <1>5, <1>14, <2>1 DEF CloseClosesFd
<1>15. ASSUME NEW c \in Closers, CloseUnwatches(c) PROVE Goal
  <2>1. /\ file' = [file EXCEPT ![closer[c].file].fd = NoFd] /\ op' = op
        /\ closer' = [closer EXCEPT ![c].pc = "join"]
    BY <1>15 DEF CloseUnwatches, CloserAt
  <2>2. ~Closing(f) /\ f # closer[c].file BY <1>0, <2>1 DEF Closing
  <2> QED BY <1>0, <1>5, <2>1, <2>2
<1>16. ASSUME NEW c \in Closers, CloseJoins(c) PROVE Goal
  <2>1. /\ file' = file /\ op' = op /\ closer[c].pc = "join" /\ file[closer[c].file].ops = 0
        /\ closer' = [closer EXCEPT ![c] = NoCloser]
    BY <1>16 DEF CloseJoins
  <2>2. CASE f = closer[c].file
    <3>1. file[f].closed /\ file[f].fd = NoFd BY <2>1, <2>2 DEF ClosersAreAlone
    <3> QED BY <2>1, <2>2, <3>1, NothingIsPending
  <2>3. CASE f # closer[c].file
    <3>1. ~Closing(f) BY <1>0, <2>1, <2>3 DEF Closing
    <3> QED BY <1>5, <2>1, <3>1
  <2> QED BY <2>2, <2>3
<1>17. ASSUME NEW c \in Closers, Deleted(c) PROVE Goal
  <2>1. /\ file' = [file EXCEPT ![closer[c].file].deleted = TRUE] /\ op' = op
        /\ closer[c].pc = "pump" /\ file[closer[c].file].ops = 0
        /\ closer' = [closer EXCEPT ![c] = NoCloser]
    BY <1>17 DEF Deleted
  <2>2. CASE f = closer[c].file
    <3>1. file[f].closed /\ file[f].fd = NoFd BY <2>1, <2>2 DEF ClosersAreAlone
    <3>2. file'[f].closed /\ file'[f].fd = NoFd BY <1>0, <2>1, <2>2, <3>1
    <3> QED BY <2>1, <2>2, <3>2, NothingIsPending
  <2>3. CASE f # closer[c].file
    <3>1. ~Closing(f) BY <1>0, <2>1, <2>3 DEF Closing
    <3> QED BY <1>0, <1>5, <2>1, <2>3, <3>1
  <2> QED BY <2>2, <2>3
<1>18. CASE UNCHANGED <<file, op, closer>> BY <1>4, <1>5, <1>18
<1>19. ASSUME NEW d \in Fds, Spawned(d) PROVE Goal BY <1>18, <1>19 DEF Spawned
<1>20. ASSUME NEW g \in Files, World(g) PROVE Goal BY <1>18, <1>20 DEF World
<1>21. CASE EpollWait /\ UNCHANGED <<file, ready, op, closer>> BY <1>18, <1>21
<1> QED
  BY <1>7, <1>8, <1>9, <1>10, <1>11, <1>12, <1>13, <1>14, <1>15, <1>16, <1>17, <1>19, <1>20,
     <1>21
     DEF Moves, CloserStep
-----------------------------------------------------------------------------
(* Nobody who waits is forgotten. *)

\* What is reported, and will be, outlives another file's EPOLL_CTL_DEL or is remembered
\* as lost.
LEMMA UnwatchTells ==
  ASSUME HandlesAreNew, NEW f \in Files, NEW g \in Files, f # g, UnwatchFile(g),
         Handles(f)' \cap stolen' = {}
  PROVE  /\ Handles(f)' = Handles(f) /\ Handles(f) \cap stolen = {}
         /\ Watched(f) \cap pending # {} => Watched(f)' \cap pending' # {}
PROOF
<1> DEFINE mine == {e \in epollEvents : e.file = g}
           kept == {i \in interest : \A e \in mine : i.fd # e.fd}
           gone == {i.handle : i \in interest \ kept}
<1>1. /\ epollEvents' = epollEvents \ mine /\ interest' = kept /\ pending' = pending \ gone
      /\ stolen' = stolen \cup (gone \ Handles(g))
  BY DEF UnwatchFile, KeptOnList
<1>2. Handles(f)' = Handles(f) BY <1>1 DEF Handles
<1>3. Handles(f) \cap stolen = {} BY <1>1, <1>2
<1>4. ASSUME NEW h \in Watched(f) \cap pending PROVE h \in Watched(f)' \cap pending'
  <2>1. h \in Handles(f) /\ h \in pending BY <1>4 DEF Watched
  <2>2. PICK i \in interest : i.handle = h BY <1>4 DEF Watched
  <2>3. h \notin Handles(g) BY <2>1 DEF HandlesAreNew, Handles
  <2>4. h \notin gone BY <1>1, <1>2, <2>1, <2>3
  <2>5. i \in kept BY <2>2, <2>4
  <2>6. h \in Watched(f)' BY <1>1, <1>2, <2>1, <2>2, <2>5 DEF Watched
  <2> QED BY <1>1, <2>1, <2>4, <2>6
<1> QED BY <1>2, <1>3, <1>4

\* The kernel drops the entries of a number that is closed, and those of no other file.
LEMMA ClosingTells ==
  ASSUME IInv, NEW f \in Files, NEW n, n \in Fds => owner[n] # f, CloseFd(n),
         UNCHANGED <<epollEvents, stolen>>
  PROVE  /\ Handles(f)' = Handles(f)
         /\ Watched(f) \cap pending # {} => Watched(f)' \cap pending' # {}
PROOF
<1> USE DEF IInv
<1> DEFINE gone == {i \in interest : i.fd = n}
<1>1. interest' = interest \ gone /\ pending' = pending \ {i.handle : i \in gone}
  BY DEF CloseFd
<1>2. Handles(f)' = Handles(f) BY DEF Handles
<1>3. ASSUME NEW i \in gone PROVE i.handle \notin Handles(f)
  <2>1. PICK e \in epollEvents : e.handle = i.handle /\ e.fd = i.fd /\ owner[i.fd] = e.file
    BY <1>3 DEF InterestIsTrue
  <2>2. n \in Fds /\ e.file # f BY <1>3, <2>1 DEF Types
  <2> QED BY <2>1, <2>2 DEF Handles, HandlesAreNew
<1>4. ASSUME NEW h \in Watched(f) \cap pending PROVE h \in Watched(f)' \cap pending'
  <2>1. h \in Handles(f) /\ h \in pending BY <1>4 DEF Watched
  <2>2. PICK i \in interest : i.handle = h BY <1>4 DEF Watched
  <2>3. h \notin {j.handle : j \in gone} BY <1>3, <2>1
  <2>4. i \in interest' BY <1>1, <2>2, <2>3
  <2>5. h \in Watched(f)' BY <1>2, <2>1, <2>2, <2>4 DEF Watched
  <2> QED BY <1>1, <2>1, <2>3, <2>5
<1> QED BY <1>2, <1>4

\* Once the descriptor goes nobody is left who waits for it.
LEMMA NobodyWaitsAnyMore ==
  ASSUME IInv, NEW c \in Closers, closer[c].pc \in {"fd", "unwatch", "join", "pump"},
         NEW o \in Ops, o[1] = closer[c].file
  PROVE  ~Holds(o) /\ op[o].pc # "waiting" /\ file[o[1]].closed
PROOF
<1> USE DEF IInv
<1>1. file[o[1]].closed BY DEF ClosersAreAlone
<1>2. o[2] \in Sides BY DEF Ops
<1>3. ASSUME Holds(o) \/ op[o].pc = "waiting" PROVE FALSE
  <2>1. PICK d \in Closers : closer[d].file = o[1] /\ closer[d].pc \in {"read", o[2]}
    BY <1>1, <1>3 DEF ToldOfClose
  <2>2. c = d BY <1>2, <2>1 DEF ClosersAreAlone, Sides
  <2> QED BY <1>2, <2>1, <2>2 DEF Sides
<1> QED BY <1>1, <1>3

LEMMA AllStayTold ==
  ASSUME IInv, Moves
  PROVE  AllAreTold'
PROOF
<1> USE DEF IInv
<1>0. /\ file \in [Files -> [fd : Fds \cup {NoFd}, closed : BOOLEAN, closing : BOOLEAN,
                             deleted : BOOLEAN, ops : 0..Cardinality(Sides)]]
      /\ closer \in [Closers -> [pc : {"idle", "read", "write", "fd", "unwatch", "join", "pump"},
                                 file : Files]]
  BY Typed
<1> SUFFICES ASSUME NEW o \in Ops, op'[o].pc \in {"reset", "enter", "waiting"},
                    Ready(o[1], o[2])', Handles(o[1])' \cap stolen' = {}
             PROVE  Told(o)'
  BY DEF AllAreTold
<1> DEFINE f == o[1]
           side == o[2]
<1>1. f \in Files /\ side \in {"read", "write"} /\ o = <<f, side>> BY DEF Ops, Sides
<1>2. /\ op[o].pc \in {"reset", "enter", "waiting"} /\ Ready(f, side)
      /\ Handles(f) \cap stolen = {}
      => Told(o)
  BY DEF AllAreTold
<1>3. ASSUME NEW fdOf, NEW h, Opens(fdOf, h) PROVE Told(o)'
  <2>1. UNCHANGED <<op, batch, stolen, closer>> BY <1>3 DEF Opens
  <2>2. f \notin DOMAIN fdOf
    <3>1. SUFFICES ASSUME f \in DOMAIN fdOf PROVE FALSE OBVIOUS
    <3>2. ~Closing(f) /\ file[f].fd = NoFd BY <1>3, <3>1 DEF Opens
    <3>3. op[<<f, side>>].pc = "idle" BY <1>1, <3>2 DEF IdleWhenShut, Sides
    <3> QED BY <1>1, <2>1, <3>3
  <2>3. sock'[f] = sock[f] /\ ready'[f] = ready[f] BY <1>1, <1>3, <2>2 DEF Opens
  <2>4. file'[f] = file[f] BY <1>1, <1>3, <2>2, OpenedFile
  <2>5. Handles(f)' = Handles(f)
    <3>1. epollEvents' = epollEvents \cup
            {[handle |-> h[g], file |-> g, fd |-> fdOf[g]] : g \in DOMAIN fdOf}
      BY <1>3 DEF Opens
    <3> QED BY <2>2, <3>1 DEF Handles
  <2>6. interest \subseteq interest' /\ pending \subseteq pending' BY <1>3 DEF Opens
  <2>7. Watched(f) \subseteq Watched(f)' BY <2>5, <2>6 DEF Watched
  <2>8. Told(o) BY <1>2, <2>1, <2>3, <2>5 DEF Ready, Readable, Writable
  <2> QED BY <2>1, <2>3, <2>4, <2>5, <2>6, <2>7, <2>8 DEF Told, WillBeTold
<1>4. ASSUME NEW g \in Files, Detach(g) PROVE Told(o)'
  <2>1. UNCHANGED <<sock, batch, ready, op, closer>> /\ UnwatchFile(g) /\ g \in program.remote
    BY <1>4 DEF Detach
  <2>2. f # g BY <2>1, RemoteIsIdle
  <2>3. file'[f] = file[f] BY <1>0, <1>1, <1>4, <2>2 DEF Detach
  <2>4. /\ Handles(f)' = Handles(f) /\ Handles(f) \cap stolen = {}
        /\ Watched(f) \cap pending # {} => Watched(f)' \cap pending' # {}
    BY <1>1, <2>1, <2>2, UnwatchTells
  <2>5. Told(o) BY <1>2, <2>1, <2>4 DEF Ready, Readable, Writable
  <2> QED BY <2>1, <2>3, <2>4, <2>5 DEF Told, WillBeTold
<1>5. ASSUME NEW g \in Files, World(g) PROVE Told(o)'
  <2>1. UNCHANGED <<owner, epollEvents, interest, batch, stolen, file, ready, op, closer>>
        /\ IsOpen(g) /\ pending' = pending \cup Watched(g)
    BY <1>5 DEF World, PeerSends, PeerReads, PeerCloses, Edge
  <2>2. Handles(f)' = Handles(f) /\ Watched(f)' = Watched(f) BY <2>1 DEF Handles, Watched
  <2>3. CASE f = g
    <3>1. PICK d \in Fds : owner[d] = f BY <2>1, <2>3 DEF IsOpen
    <3>2. PICK e \in epollEvents :
            /\ e.file = f /\ e.fd = d
            /\ e.handle \in stolen \/ [handle |-> e.handle, fd |-> d] \in interest
      BY <1>1, <3>1 DEF WatchedWhileOpen
    <3>3. e.handle \in Handles(f) BY <3>2 DEF Handles
    <3>4. [handle |-> e.handle, fd |-> d] \in interest BY <2>1, <2>2, <3>2, <3>3
    <3>5. e.handle \in Watched(f) BY <3>3, <3>4 DEF Watched
    <3>6. e.handle \in Watched(f)' \cap pending' BY <2>1, <2>2, <2>3, <3>5
    <3> QED BY <3>6 DEF Told, WillBeTold
  <2>4. CASE f # g
    <3>1. sock'[f] = sock[f]
      BY <1>1, <1>5, <2>4 DEF World, PeerSends, PeerReads, PeerCloses, Types
    <3>2. Told(o) BY <1>2, <2>1, <2>2, <3>1 DEF Ready, Readable, Writable
    <3> QED BY <2>1, <2>2, <3>2 DEF Told, WillBeTold
  <2> QED BY <2>3, <2>4
<1>6. CASE EpollWait /\ UNCHANGED <<file, ready, op, closer>>
  <2>1. UNCHANGED <<sock, epollEvents, interest, stolen, file, ready, op, closer>> /\ batch = {}
    BY <1>6 DEF EpollWait
  <2>2. Handles(f)' = Handles(f) BY <2>1 DEF Handles
  <2>3. Ready(f, side) BY <2>1 DEF Ready, Readable, Writable
  <2>4. Told(o) BY <1>2, <2>1, <2>2, <2>3
  <2>5. CASE Watched(f) \cap pending # {}
    <3>1. PICK h \in pending : h \in Handles(f) BY <2>5 DEF Watched
    <3>2. PICK e \in epollEvents : e.handle = h /\ e.file = f BY <3>1 DEF Handles
    <3> DEFINE b == [handle |-> h, file |-> f, flags |-> Flags(f), half |-> FALSE]
    <3>3. side \in Flags(f) /\ Flags(f) \subseteq {"read", "write"} BY <1>1, <2>3 DEF Flags
    <3>4. b \in [handle : pending, file : Files, flags : SUBSET {"read", "write"}, half : {FALSE}]
      BY <1>1, <3>3
    <3>5. [handle |-> b.handle, file |-> b.file] \in
            {[handle |-> x.handle, file |-> x.file] : x \in epollEvents}
      BY <3>2
    <3>6. b \in batch' BY <1>6, <3>3, <3>4, <3>5 DEF EpollWait
    <3> QED BY <2>2, <3>1, <3>3, <3>6 DEF Told, WillBeTold
  <2>6. CASE Watched(f) \cap pending = {} BY <2>1, <2>4, <2>6 DEF Told, WillBeTold
  <2> QED BY <2>5, <2>6
<1>7. ASSUME NEW b \in batch, Callback(b) PROVE Told(o)'
  <2> DEFINE next == NextSide(b)
  <2>1. /\ UNCHANGED <<sock, epollEvents, interest, pending, stolen, file, closer>>
        /\ op' = Awoken(b.file, {next}) /\ MutexIsFree(b.file, next)
        /\ ready' = [ready EXCEPT ![b.file][next] = TRUE]
    BY <1>7 DEF Callback, Reported, CanNotify, kernel
  <2>2. /\ op'[o] = op[o]
        /\ f = b.file /\ side = next => op[o].pc = "enter"
    <3>1. op'[o] = op[o] BY <2>1, Awakening
    <3>2. f = b.file /\ side = next => op'[o].pc # "waiting" BY <2>1, Awakening
    <3>3. f = b.file /\ side = next => ~Holds(o) BY <1>1, <2>1 DEF MutexIsFree
    <3> QED BY <3>1, <3>2, <3>3 DEF Holds
  <2>3. Handles(f)' = Handles(f) /\ Watched(f)' = Watched(f) BY <2>1 DEF Handles, Watched
  <2>4. Told(o) BY <1>2, <2>1, <2>2, <2>3 DEF Ready, Readable, Writable
  <2>5. b.file \in Files /\ next \in Sides /\ ready \in [Files -> [Sides -> BOOLEAN]]
    BY <1>7, CallbackGoesOn DEF Types, TypeOK
  <2>6. ready'[f][side] <=> (ready[f][side] \/ (f = b.file /\ side = next))
    <3>1. CASE f = b.file
      <4>1. ready'[f] = [ready[f] EXCEPT ![next] = TRUE] BY <1>1, <2>1, <2>5, <3>1
      <4> QED BY <1>1, <2>5, <3>1, <4>1 DEF Sides
    <3>2. CASE f # b.file BY <1>1, <2>1, <2>5, <3>2
    <3> QED BY <3>1, <3>2
  <2>7. CASE b.handle \in Handles(f) /\ side = next
    <3>1. f = b.file BY <2>7 DEF Handles, HandlesAreNew
    <3>2. ready'[f][side] /\ op'[o].pc = "enter" BY <2>2, <2>6, <2>7, <3>1
    <3> QED BY <3>2 DEF Told
  <2>8. CASE ~(b.handle \in Handles(f) /\ side = next)
    <3>1. CASE \E d \in batch : d.handle \in Handles(f) /\ side \in d.flags
      <4>1. PICK d \in batch : d.handle \in Handles(f) /\ side \in d.flags BY <3>1
      <4>2. \E e \in batch' : e.handle \in Handles(f) /\ side \in e.flags
        BY <1>7, <2>8, <4>1, CallbackGoesOn
      <4> QED BY <2>3, <4>2 DEF Told, WillBeTold
    <3>2. CASE WillBeTold(f, side) /\ ~\E d \in batch : d.handle \in Handles(f) /\ side \in d.flags
      BY <2>1, <2>3, <3>2 DEF Told, WillBeTold
    <3>3. CASE op[o].pc = "enter" /\ (ready[f][side] \/ file[f].closed)
      BY <2>1, <2>2, <2>6, <3>3 DEF Told
    <3> QED BY <2>4, <3>1, <3>2, <3>3 DEF Told
  <2> QED BY <2>7, <2>8
<1>8. ASSUME NEW p \in Ops, OpActs(p) PROVE Told(o)'
  <2>1. UNCHANGED <<owner, interest, pending, epollEvents, batch, stolen, closer>>
    BY <1>8, OpKeeps
  <2>2. Handles(f)' = Handles(f) /\ Watched(f)' = Watched(f) BY <2>1 DEF Handles, Watched
  <2>3. WillBeTold(f, side) => Told(o)' BY <2>1, <2>2 DEF Told, WillBeTold
  <2>4. CASE p # o
    <3>1. op'[o] = op[o] /\ ready'[f][side] = ready[f][side] /\ file'[f].closed = file[f].closed
      BY <1>1, <1>8, <2>4, OpKeeps
    <3>2. Ready(f, side)
      <4>1. CASE sock' = sock BY <4>1 DEF Ready, Readable, Writable
      <4>2. CASE Transfer(p)
        <5>1. /\ p[1] \in Files /\ sock \in [Files -> [in : Nat, out : Nat, eof : BOOLEAN]]
          BY DEF Ops, Types
        <5>2. \/ sock[p[1]].in > 0 /\ sock' = [sock EXCEPT ![p[1]].in = @ - 1]
              \/ sock[p[1]].out > 0 /\ sock' = [sock EXCEPT ![p[1]].out = @ - 1]
          BY <4>2 DEF Transfer
        <5>3. /\ sock'[f].eof = sock[f].eof
              /\ sock'[f].in > 0 => sock[f].in > 0
              /\ sock'[f].out > 0 => sock[f].out > 0
          BY <1>1, <5>1, <5>2
        <5> QED BY <5>3 DEF Ready, Readable, Writable
      <4>3. Transfer(p) \/ sock' = sock
        BY <1>8 DEF OpActs, OpStep, Start, CheckClosed, NoTransfer, WouldBlock, ResetReady, Wait,
                    TimesOut, asyncVars, kernel
      <4> QED BY <4>1, <4>2, <4>3
    <3>3. Told(o) BY <1>2, <2>1, <2>2, <3>1, <3>2
    <3> QED BY <2>3, <3>1, <3>3 DEF Told
  <2>5. CASE p = o
    <3>0. op \in [Ops -> [pc : {"idle", "lock", "check", "io", "reset", "enter", "waiting"},
                          kind : Kinds("read") \cup Kinds("write"), got : 0 .. Want - 1]]
      BY DEF Types, TypeOK
    <3>1. CASE Start(o) BY <3>0, <3>1 DEF Start
    <3>2. CASE CheckClosed(o) BY <3>0, <3>2 DEF CheckClosed, End, Go, NoOp
    <3>3. CASE Transfer(o)
      <4>1. CASE End(o) BY <3>0, <4>1 DEF End, NoOp
      <4>2. CASE ~End(o)
        <5>1. op' = [op EXCEPT ![o].pc = "check", ![o].got = @ + 1] BY <3>3, <4>2 DEF Transfer
        <5> QED BY <3>0, <5>1
      <4> QED BY <4>1, <4>2
    <3>4. CASE NoTransfer(o) BY <3>0, <3>4 DEF NoTransfer, End, NoOp
    <3>5. CASE WouldBlock(o)
      <4>1. ~Ready(f, side) /\ sock' = sock BY <3>5 DEF WouldBlock, asyncVars, kernel
      <4> QED BY <4>1 DEF Ready, Readable, Writable
    <3>6. CASE ResetReady(o)
      <4>1. op[o].pc = "reset" /\ sock' = sock BY <3>6 DEF ResetReady, asyncVars, kernel
      <4>2. Ready(f, side) BY <4>1 DEF Ready, Readable, Writable
      <4>3. Told(o) BY <1>2, <2>1, <2>2, <4>1, <4>2
      <4> QED BY <2>3, <4>1, <4>3 DEF Told
    <3>7. CASE Wait(o)
      <4>1. /\ op[o].pc = "enter" /\ sock' = sock
            /\ op' = [op EXCEPT ![o].pc = IF ready[f][side] \/ file[f].closed THEN "lock"
                                          ELSE "waiting"]
        BY <3>7 DEF Wait, Go, asyncVars, kernel
      <4>2. ~(ready[f][side] \/ file[f].closed) BY <3>0, <4>1
      <4>3. Ready(f, side) BY <4>1 DEF Ready, Readable, Writable
      <4>4. Told(o) BY <1>2, <2>1, <2>2, <4>1, <4>3
      <4> QED BY <2>3, <4>2, <4>4 DEF Told
    <3>8. CASE TimesOut(o) BY <3>0, <3>8 DEF TimesOut, End, NoOp
    <3> QED
      BY <1>8, <2>5, <3>1, <3>2, <3>3, <3>4, <3>5, <3>6, <3>7, <3>8 DEF OpActs, OpStep
  <2> QED BY <2>4, <2>5
<1>9. ASSUME NEW c \in Closers, closer[c].pc \notin Sides,
             \A d \in Closers : d # c => closer'[d] = closer[d],
             file[f].closed => file'[f].closed,
             UNCHANGED <<sock, interest, pending, epollEvents, batch, stolen, ready, op>>
      PROVE  Told(o)'
  <2>1. Handles(f)' = Handles(f) /\ Watched(f)' = Watched(f) BY <1>9 DEF Handles, Watched
  <2>2. Told(o) BY <1>2, <1>9, <2>1 DEF Ready, Readable, Writable
  <2>3. CASE WillBeTold(f, side) BY <1>9, <2>1, <2>3 DEF Told, WillBeTold
  <2>4. CASE op[o].pc = "enter" /\ (ready[f][side] \/ file[f].closed)
    BY <1>9, <2>4 DEF Told
  <2> QED BY <2>2, <2>3, <2>4 DEF Told
<1>10. ASSUME NEW c \in Closers, NEW g \in Files, CloseBegins(c, g) PROVE Told(o)'
  <2>1. file[f].closed => file'[f].closed BY <1>0, <1>1, <1>10 DEF CloseBegins
  <2> QED BY <1>0, <1>9, <1>10, <2>1 DEF CloseBegins, Sides, asyncVars, kernel
<1>11. ASSUME NEW c \in Closers, NEW g \in Files, DeleteBegins(c, g) PROVE Told(o)'
  BY <1>0, <1>9, <1>11 DEF DeleteBegins, Sides, asyncVars, kernel
<1>12. ASSUME NEW c \in Closers, CloseJoins(c) PROVE Told(o)'
  BY <1>0, <1>9, <1>12 DEF CloseJoins, Sides, asyncVars, kernel
<1>13. ASSUME NEW c \in Closers, Deleted(c) PROVE Told(o)'
  <2>1. file[f].closed => file'[f].closed BY <1>0, <1>1, <1>13 DEF Deleted
  <2> QED BY <1>0, <1>9, <1>13, <2>1 DEF Deleted, Sides, asyncVars, kernel
<1>14. ASSUME NEW c \in Closers, CloseNotifies(c) PROVE Told(o)'
  <2>1. /\ UNCHANGED <<sock, interest, pending, epollEvents, batch, stolen, ready, file>>
        /\ op' = Awoken(closer[c].file, {closer[c].pc}) /\ closer[c].pc \in Sides
        /\ MutexIsFree(closer[c].file, closer[c].pc)
        /\ closer' = [closer EXCEPT ![c].pc = IF closer[c].pc = "read" THEN "write" ELSE "fd"]
    BY <1>14 DEF CloseNotifies, CloserAt, WokenByClose, CloseWaitsForMutex, asyncVars, kernel
  <2>2. op'[o] = op[o] BY <2>1, Awakening
  <2>3. Handles(f)' = Handles(f) /\ Watched(f)' = Watched(f) BY <2>1 DEF Handles, Watched
  <2>4. Told(o) BY <1>2, <2>1, <2>2, <2>3 DEF Ready, Readable, Writable
  <2>5. CASE closer[c].file = f /\ closer[c].pc = "write"
    <3>1. file[f].closed BY <2>5 DEF ClosersAreAlone
    <3>2. op[o].pc = "enter"
      <4>1. SUFFICES ASSUME op[o].pc # "enter" PROVE FALSE OBVIOUS
      <4>2. Holds(o) \/ op[o].pc = "waiting" BY <2>2, <4>1 DEF Holds
      <4>3. PICK d \in Closers : closer[d].file = f /\ closer[d].pc \in {"read", side}
        BY <3>1, <4>2 DEF ToldOfClose
      <4>4. d = c BY <1>1, <2>5, <4>3 DEF ClosersAreAlone
      <4>5. side = "write" BY <2>5, <4>3, <4>4
      <4>6. op'[o].pc # "waiting" BY <2>1, <2>5, <4>5, Awakening
      <4>7. ~Holds(o) BY <1>1, <2>1, <2>5, <4>5 DEF MutexIsFree
      <4> QED BY <2>2, <4>2, <4>6, <4>7
    <3> QED BY <2>1, <2>2, <3>1, <3>2 DEF Told
  <2>6. CASE ~(closer[c].file = f /\ closer[c].pc = "write")
    <3>1. ASSUME NEW d \in Closers, closer[d].file = f, closer[d].pc \in Sides
          PROVE  closer'[d].file = f /\ closer'[d].pc \in Sides
      BY <1>0, <2>1, <2>6, <3>1 DEF Sides
    <3>2. CASE WillBeTold(f, side) BY <2>1, <2>3, <3>1, <3>2 DEF Told, WillBeTold
    <3>3. CASE op[o].pc = "enter" /\ (ready[f][side] \/ file[f].closed)
      BY <2>1, <2>2, <3>3 DEF Told
    <3> QED BY <2>4, <3>2, <3>3 DEF Told
  <2> QED BY <2>5, <2>6
<1>15. ASSUME NEW n, n \in Fds => owner[n] # f, CloseFd(n),
              UNCHANGED <<sock, epollEvents, batch, stolen, file, ready, op>>,
              \A d \in Closers : closer[d].pc \in Sides => closer'[d] = closer[d]
       PROVE  Told(o)'
  <2>1. /\ Handles(f)' = Handles(f)
        /\ Watched(f) \cap pending # {} => Watched(f)' \cap pending' # {}
    BY <1>1, <1>15, ClosingTells
  <2>2. Told(o) BY <1>2, <1>15, <2>1 DEF Ready, Readable, Writable
  <2> QED BY <1>15, <2>1, <2>2 DEF Told, WillBeTold
<1>16. ASSUME NEW d \in Fds, Spawned(d) PROVE Told(o)'
  <2>1. owner[d] # f BY <1>1, <1>16, FilesAssumption DEF Spawned
  <2> QED BY <1>15, <1>16, <2>1 DEF Spawned
<1>17. ASSUME NEW c \in Closers, CloseClosesFd(c) PROVE Told(o)'
  <2>1. /\ UNCHANGED <<sock, epollEvents, batch, stolen, file, ready, op>>
        /\ closer[c].pc = "fd" /\ closer' = [closer EXCEPT ![c].pc = "unwatch"]
        /\ CloseFd(file[closer[c].file].fd)
    BY <1>17 DEF CloseClosesFd, CloserAt
  <2>2. CASE closer[c].file = f
    <3>1. op[o].pc = "enter" /\ file[f].closed BY <2>1, <2>2, NobodyWaitsAnyMore DEF Holds
    <3> QED BY <2>1, <3>1 DEF Told
  <2>3. CASE closer[c].file # f
    <3>1. file[closer[c].file].fd \in Fds => owner[file[closer[c].file].fd] # f
      BY <2>1, <2>3, ClosesItsOwn, FilesAssumption
    <3>2. \A d \in Closers : closer[d].pc \in Sides => closer'[d] = closer[d]
      BY <1>0, <2>1 DEF Sides
    <3> QED BY <1>15, <2>1, <3>1, <3>2
  <2> QED BY <2>2, <2>3
<1>18. ASSUME NEW c \in Closers, CloseUnwatches(c) PROVE Told(o)'
  <2>1. /\ UNCHANGED <<sock, batch, ready, op>> /\ UnwatchFile(closer[c].file)
        /\ closer[c].pc = "unwatch" /\ closer' = [closer EXCEPT ![c].pc = "join"]
        /\ file' = [file EXCEPT ![closer[c].file].fd = NoFd]
    BY <1>18 DEF CloseUnwatches, CloserAt
  <2>2. file'[f].closed = file[f].closed BY <1>0, <1>1, <2>1
  <2>3. CASE closer[c].file = f
    <3>1. op[o].pc = "enter" /\ file[f].closed BY <2>1, <2>3, NobodyWaitsAnyMore DEF Holds
    <3> QED BY <2>1, <2>2, <3>1 DEF Told
  <2>4. CASE closer[c].file # f
    <3>1. closer[c].file \in Files BY <1>0
    <3>2. /\ Handles(f)' = Handles(f) /\ Handles(f) \cap stolen = {}
          /\ Watched(f) \cap pending # {} => Watched(f)' \cap pending' # {}
      BY <1>1, <2>1, <2>4, <3>1, UnwatchTells
    <3>3. Told(o) BY <1>2, <2>1, <3>2 DEF Ready, Readable, Writable
    <3>4. \A d \in Closers : closer[d].pc \in Sides => closer'[d] = closer[d]
      BY <1>0, <2>1 DEF Sides
    <3> QED BY <2>1, <2>2, <3>2, <3>3, <3>4 DEF Told, WillBeTold
  <2> QED BY <2>3, <2>4
<1> QED
  BY <1>3, <1>4, <1>5, <1>6, <1>7, <1>8, <1>10, <1>11, <1>12, <1>13, <1>14, <1>16, <1>17, <1>18
     DEF Moves, CloserStep
-----------------------------------------------------------------------------
(* Types. *)

\* What each operation leaves in its own records.
LEMMA OpTypes ==
  ASSUME IInv, NEW o \in Ops, OpActs(o)
  PROVE  /\ op' \in [Ops -> [pc : {"idle", "lock", "check", "io", "reset", "enter", "waiting"},
                             kind : Kinds("read") \cup Kinds("write"), got : 0 .. Want - 1]]
         /\ sock' \in [Files -> [in : Nat, out : Nat, eof : BOOLEAN]]
         /\ ready' \in [Files -> [Sides -> BOOLEAN]]
         /\ (op[o].pc # "idle" \/ o \in DOMAIN program.ops)
         /\ file' \in [Files -> [fd : Fds \cup {NoFd}, closed : BOOLEAN, closing : BOOLEAN,
                                 deleted : BOOLEAN, ops : Nat]]
PROOF
<1> USE DEF IInv
<1>1. /\ o[1] \in Files /\ o[2] \in {"read", "write"}
      /\ op \in [Ops -> [pc : {"idle", "lock", "check", "io", "reset", "enter", "waiting"},
                         kind : Kinds("read") \cup Kinds("write"), got : 0 .. Want - 1]]
      /\ sock \in [Files -> [in : Nat, out : Nat, eof : BOOLEAN]]
      /\ ready \in [Files -> [Sides -> BOOLEAN]]
      /\ program \in Programs
  BY DEF Ops, Sides, Types, TypeOK
<1>2. file \in [Files -> [fd : Fds \cup {NoFd}, closed : BOOLEAN, closing : BOOLEAN,
                          deleted : BOOLEAN, ops : Nat]]
  <2>1. IsFiniteSet({"read"}) /\ Cardinality({"read"}) = 1 BY FS_Singleton
  <2>2. Cardinality({"read"} \cup {"write"}) = 1 + 1 BY <2>1, FS_AddElement
  <2>3. Sides = {"read"} \cup {"write"} BY DEF Sides
  <2>4. 0..Cardinality(Sides) \subseteq Nat BY <2>2, <2>3
  <2> QED BY <2>4, Typed
<1> DEFINE OpT == op' \in [Ops -> [pc : {"idle", "lock", "check", "io", "reset", "enter",
                                         "waiting"},
                                   kind : Kinds("read") \cup Kinds("write"),
                                   got : 0 .. Want - 1]]
           FileT == file' \in [Files -> [fd : Fds \cup {NoFd}, closed : BOOLEAN,
                                         closing : BOOLEAN, deleted : BOOLEAN, ops : Nat]]
<1>3. ASSUME End(o) PROVE OpT /\ FileT
  <2>1. NoOp \in [pc : {"idle", "lock", "check", "io", "reset", "enter", "waiting"},
                  kind : Kinds("read") \cup Kinds("write"), got : 0 .. Want - 1]
    BY DEF NoOp, Kinds, Want
  <2>2. OpT BY <1>1, <1>3, <2>1 DEF End
  <2>3. (IF file[o[1]].ops > 0 THEN file[o[1]].ops - 1 ELSE 0) \in Nat BY <1>1, <1>2
  <2>4. file' = [file EXCEPT ![o[1]].ops = IF @ > 0 THEN @ - 1 ELSE 0] BY <1>3 DEF End
  <2>5. FileT
    <3> DEFINE n == IF file[o[1]].ops > 0 THEN file[o[1]].ops - 1 ELSE 0
    <3>1. file' = [file EXCEPT ![o[1]].ops = n] BY <2>4
    <3>2. n \in Nat BY <2>3
    <3> HIDE DEF n
    <3> QED BY <1>1, <1>2, <3>1, <3>2
  <2> QED BY <2>2, <2>5
<1>4. file' = file => FileT BY <1>2
<1>5. ASSUME NEW pc \in {"lock", "check", "io", "reset", "enter", "waiting"}, Go(o, pc) PROVE OpT
  <2> DEFINE OpS == [pc : {"idle", "lock", "check", "io", "reset", "enter", "waiting"},
                     kind : Kinds("read") \cup Kinds("write"), got : 0 .. Want - 1]
  <2>1. ASSUME NEW r \in OpS PROVE [r EXCEPT !.pc = pc] \in OpS BY <1>5
  <2>2. op \in [Ops -> OpS] BY <1>1
  <2>3. op' = [op EXCEPT ![o] = [op[o] EXCEPT !.pc = pc]] BY <1>5 DEF Go
  <2> HIDE DEF OpS
  <2>4. op' \in [Ops -> OpS] BY <2>1, <2>2, <2>3
  <2> QED BY <2>4 DEF OpS
<1>6. CASE Start(o)
  <2>1. program.ops[o] \in Kinds("read") \cup Kinds("write") /\ o \in DOMAIN program.ops
    <3>1. o \in DOMAIN program.ops BY <1>6 DEF Start
    <3>2. program.ops[o] \in Kinds(o[2]) BY <1>1, <3>1, ProgramsAssumption DEF IsProgram
    <3> QED BY <1>1, <3>1, <3>2
  <2>2. OpT
    <3>1. [pc |-> "lock", kind |-> program.ops[o], got |-> 0] \in
            [pc : {"idle", "lock", "check", "io", "reset", "enter", "waiting"},
             kind : Kinds("read") \cup Kinds("write"), got : 0 .. Want - 1]
      BY <2>1 DEF Want
    <3>2. op' = [op EXCEPT ![o] = [pc |-> "lock", kind |-> program.ops[o], got |-> 0]]
      BY <1>6 DEF Start
    <3> QED BY <1>1, <3>1, <3>2
  <2>3. FileT
    <3>1. file' = [file EXCEPT ![o[1]].ops = @ + 1] BY <1>6 DEF Start, Counted
    <3>2. file[o[1]].ops + 1 \in Nat BY <1>1, <1>2
    <3> QED BY <1>1, <1>2, <3>1, <3>2
  <2>4. ready' \in [Files -> [Sides -> BOOLEAN]]
    <3> DEFINE was == ready[o[1]][o[2]] /\ program.ops[o] # "send"
    <3>1. ready' = [ready EXCEPT ![o[1]][o[2]] = was] BY <1>6 DEF Start
    <3>2. was \in BOOLEAN OBVIOUS
    <3> HIDE DEF was
    <3> QED BY <1>1, <3>1, <3>2 DEF Sides
  <2>5. sock' = sock BY <1>6 DEF Start, asyncVars, kernel
  <2> QED BY <1>1, <2>1, <2>2, <2>3, <2>4, <2>5
<1>7. CASE CheckClosed(o)
  <2>1. UNCHANGED <<sock, ready>> /\ op[o].pc # "idle"
    BY <1>7 DEF CheckClosed, asyncVars, kernel
  <2>2. OpT /\ FileT
    <3>1. CASE End(o) BY <1>3, <3>1
    <3>2. CASE Go(o, "io") /\ UNCHANGED file BY <1>4, <1>5, <3>2
    <3> QED BY <1>7, <3>1, <3>2 DEF CheckClosed
  <2> QED BY <1>1, <2>1, <2>2
<1>8. CASE Transfer(o)
  <2>1. ready' = ready /\ op[o].pc = "io" BY <1>8 DEF Transfer
  <2>2. sock' \in [Files -> [in : Nat, out : Nat, eof : BOOLEAN]]
    <3>1. \/ sock[o[1]].in > 0 /\ sock' = [sock EXCEPT ![o[1]].in = @ - 1]
          \/ sock[o[1]].out > 0 /\ sock' = [sock EXCEPT ![o[1]].out = @ - 1]
      BY <1>8 DEF Transfer
    <3>2. ASSUME sock[o[1]].in > 0, sock' = [sock EXCEPT ![o[1]].in = @ - 1]
          PROVE  sock' \in [Files -> [in : Nat, out : Nat, eof : BOOLEAN]]
      <4>1. sock[o[1]].in - 1 \in Nat BY <1>1, <3>2
      <4> QED BY <1>1, <3>2, <4>1
    <3>3. ASSUME sock[o[1]].out > 0, sock' = [sock EXCEPT ![o[1]].out = @ - 1]
          PROVE  sock' \in [Files -> [in : Nat, out : Nat, eof : BOOLEAN]]
      <4>1. sock[o[1]].out - 1 \in Nat BY <1>1, <3>3
      <4> QED BY <1>1, <3>3, <4>1
    <3> QED BY <3>1, <3>2, <3>3
  <2>3. OpT /\ FileT
    <3>1. CASE End(o) BY <1>3, <3>1
    <3>2. CASE ~End(o)
      <4>1. op' = [op EXCEPT ![o].pc = "check", ![o].got = @ + 1] /\ file' = file
            /\ op[o].got + 1 # Want
        BY <1>8, <3>2 DEF Transfer
      <4>2. op[o].got + 1 \in 0 .. Want - 1 BY <1>1, <4>1 DEF Want
      <4>3. OpT BY <1>1, <4>1, <4>2
      <4> QED BY <1>4, <4>1, <4>3
    <3> QED BY <3>1, <3>2
  <2> QED BY <1>1, <2>1, <2>2, <2>3
<1>9. CASE NoTransfer(o)
  <2>1. End(o) /\ op[o].pc = "io" /\ UNCHANGED <<sock, ready>>
    BY <1>9 DEF NoTransfer, asyncVars, kernel
  <2> QED BY <1>1, <1>3, <2>1
<1>10. CASE WouldBlock(o)
  <2>1. Go(o, "reset") /\ op[o].pc = "io" /\ UNCHANGED <<sock, ready, file>>
    BY <1>10 DEF WouldBlock, asyncVars, kernel
  <2> QED BY <1>1, <1>4, <1>5, <2>1
<1>11. CASE ResetReady(o)
  <2>1. Go(o, "enter") /\ op[o].pc = "reset" /\ UNCHANGED <<sock, file>>
        /\ ready' = [ready EXCEPT ![o[1]][o[2]] = @ /\ op[o].kind = "write"]
    BY <1>11 DEF ResetReady, asyncVars, kernel
  <2>2. (ready[o[1]][o[2]] /\ op[o].kind = "write") \in BOOLEAN OBVIOUS
  <2>3. ready' \in [Files -> [Sides -> BOOLEAN]] BY <1>1, <2>1, <2>2
  <2> QED BY <1>1, <1>4, <1>5, <2>1, <2>3
<1>12. CASE Wait(o)
  <2>1. /\ Go(o, IF ready[o[1]][o[2]] \/ file[o[1]].closed THEN "lock" ELSE "waiting")
        /\ op[o].pc = "enter" /\ UNCHANGED <<sock, ready, file>>
    BY <1>12 DEF Wait, asyncVars, kernel
  <2> QED BY <1>1, <1>4, <1>5, <2>1
<1>13. CASE TimesOut(o)
  <2>1. End(o) /\ op[o].pc = "waiting" /\ UNCHANGED <<sock, ready>>
    BY <1>13 DEF TimesOut, asyncVars, kernel
  <2> QED BY <1>1, <1>3, <2>1
<1> QED
  BY <1>6, <1>7, <1>8, <1>9, <1>10, <1>11, <1>12, <1>13 DEF OpActs, OpStep

LEMMA TypesStay ==
  ASSUME IInv, Alive, Moves, OpsAreCounted'
  PROVE  Types'
PROOF
<1> USE DEF IInv
<1> DEFINE FileS == [fd : Fds \cup {NoFd}, closed : BOOLEAN, closing : BOOLEAN,
                     deleted : BOOLEAN, ops : 0..Cardinality(Sides)]
           OpS == [pc : {"idle", "lock", "check", "io", "reset", "enter", "waiting"},
                   kind : Kinds("read") \cup Kinds("write"), got : 0 .. Want - 1]
           CloserS == [pc : {"idle", "read", "write", "fd", "unwatch", "join", "pump"},
                       file : Files]
           SockS == [in : Nat, out : Nat, eof : BOOLEAN]
           EventS == [handle : Nat, file : Files, fd : Fds]
           BatchS == [handle : Nat, file : Files, flags : SUBSET Sides, half : BOOLEAN]
<1>1. /\ file \in [Files -> FileS] /\ ready \in [Files -> [Sides -> BOOLEAN]]
      /\ op \in [Ops -> OpS] /\ closer \in [Closers -> CloserS]
      /\ program \in Programs /\ program' = program
      /\ owner \in [Fds -> Files \cup {Nobody, Child}] /\ sock \in [Files -> SockS]
      /\ nextHandle \in Nat /\ epollEvents \subseteq EventS
      /\ interest \subseteq [handle : Nat, fd : Fds] /\ batch \subseteq BatchS
      /\ \A o \in Ops : op[o].pc # "idle" => o \in DOMAIN program.ops
  BY DEF Types, TypeOK, Alive
<1> DEFINE FileOK == file' \in [Files -> FileS]
           ReadyOK == ready' \in [Files -> [Sides -> BOOLEAN]]
           OpOK == op' \in [Ops -> OpS] /\ \A o \in Ops : op'[o].pc # "idle" => o \in DOMAIN program.ops
           CloserOK == closer' \in [Closers -> CloserS]
           OwnerOK == owner' \in [Fds -> Files \cup {Nobody, Child}]
           SockOK == sock' \in [Files -> SockS]
           EventsOK == /\ nextHandle' \in Nat /\ epollEvents' \subseteq EventS
                       /\ interest' \subseteq [handle : Nat, fd : Fds]
           BatchOK == batch' \subseteq BatchS
<1>2. SUFFICES FileOK /\ ReadyOK /\ OpOK /\ CloserOK /\ OwnerOK /\ SockOK /\ EventsOK /\ BatchOK
  BY <1>1 DEF Types, TypeOK
<1> DEFINE Goal == FileOK /\ ReadyOK /\ OpOK /\ CloserOK /\ OwnerOK /\ SockOK /\ EventsOK /\ BatchOK
<1>30. ASSUME NEW r \in FileS
       PROVE  /\ [r EXCEPT !.fd = NoFd] \in FileS
              /\ [r EXCEPT !.fd = NoFd, !.closed = TRUE] \in FileS
              /\ [r EXCEPT !.closed = TRUE, !.closing = TRUE] \in FileS
              /\ [r EXCEPT !.deleted = TRUE] \in FileS
  OBVIOUS
<1>31. ASSUME NEW r \in SockS
       PROVE  /\ [r EXCEPT !.in = @ + 1] \in SockS /\ [r EXCEPT !.out = @ + 1] \in SockS
              /\ [r EXCEPT !.eof = TRUE] \in SockS
  <2>1. r.in + 1 \in Nat /\ r.out + 1 \in Nat OBVIOUS
  <2> QED BY <2>1
<1>33. ASSUME NEW r \in OpS PROVE [r EXCEPT !.pc = "lock"] \in OpS
  OBVIOUS
<1> HIDE DEF FileS, OpS, CloserS, SockS, EventS, BatchS
<1>32. ASSUME NEW g \in Files, NEW r \in FileS, file' = [file EXCEPT ![g] = r] PROVE FileOK
  BY <1>1, <1>32
<1>3. file' = file => FileOK BY <1>1
<1>4. ready' = ready => ReadyOK BY <1>1
<1>5. op' = op => OpOK BY <1>1
<1>6. closer' = closer => CloserOK BY <1>1
<1>7. owner' = owner => OwnerOK BY <1>1
<1>8. sock' = sock => SockOK BY <1>1
<1>9. /\ nextHandle' = nextHandle /\ epollEvents' \subseteq epollEvents /\ interest' \subseteq interest
      => EventsOK
  BY <1>1
<1>10. batch' \subseteq batch => BatchOK BY <1>1
<1>11. ASSUME NEW fdOf, NEW h, Opens(fdOf, h) PROVE Goal
  <2>1. FileOK
    <3>1. ASSUME NEW f \in DOMAIN fdOf
          PROVE  [file[f] EXCEPT !.fd = fdOf[f], !.closed = FALSE, !.closing = FALSE] \in FileS
      <4>1. f \in Files /\ fdOf[f] \in Fds BY <1>11 DEF Opens
      <4>2. file[f] \in FileS BY <1>1, <4>1
      <4> QED BY <4>1, <4>2 DEF FileS
    <3>2. file' = [f \in Files |-> IF f \in DOMAIN fdOf
                                   THEN [file[f] EXCEPT !.fd = fdOf[f], !.closed = FALSE,
                                                        !.closing = FALSE] ELSE file[f]]
      BY <1>11 DEF Opens
    <3> QED BY <1>1, <3>1, <3>2
  <2>2. ReadyOK BY <1>1, <1>11 DEF Opens
  <2>3. OpOK /\ CloserOK /\ BatchOK BY <1>5, <1>6, <1>10, <1>11 DEF Opens
  <2>4. OwnerOK BY <1>11 DEF Opens
  <2>5. SockOK
    <3>1. [in |-> 0, out |-> MaxData, eof |-> FALSE] \in SockS BY FilesAssumption DEF SockS
    <3> QED BY <1>1, <1>11, <3>1 DEF Opens
  <2>6. EventsOK
    <3>1. ASSUME NEW f \in DOMAIN fdOf
          PROVE  /\ [handle |-> h[f], file |-> f, fd |-> fdOf[f]] \in EventS
                 /\ [handle |-> h[f], fd |-> fdOf[f]] \in [handle : Nat, fd : Fds]
      BY <1>11 DEF Opens, EventS
    <3>2. /\ epollEvents' = epollEvents \cup
               {[handle |-> h[f], file |-> f, fd |-> fdOf[f]] : f \in DOMAIN fdOf}
          /\ interest' = interest \cup {[handle |-> h[f], fd |-> fdOf[f]] : f \in DOMAIN fdOf}
          /\ nextHandle' \in Nat
      BY <1>11 DEF Opens
    <3>3. ASSUME NEW e \in epollEvents' PROVE e \in EventS
      <4>1. CASE e \in epollEvents BY <1>1, <4>1
      <4>2. CASE e \notin epollEvents
        <5>1. PICK f \in DOMAIN fdOf : e = [handle |-> h[f], file |-> f, fd |-> fdOf[f]]
          BY <3>2, <4>2
        <5> QED BY <3>1, <5>1
      <4> QED BY <4>1, <4>2
    <3>4. ASSUME NEW i \in interest' PROVE i \in [handle : Nat, fd : Fds]
      <4>1. CASE i \in interest BY <1>1, <4>1
      <4>2. CASE i \notin interest
        <5>1. PICK f \in DOMAIN fdOf : i = [handle |-> h[f], fd |-> fdOf[f]] BY <3>2, <4>2
        <5> QED BY <3>1, <5>1
      <4> QED BY <4>1, <4>2
    <3> QED BY <3>2, <3>3, <3>4
  <2> QED BY <2>1, <2>2, <2>3, <2>4, <2>5, <2>6
<1>12. ASSUME NEW g \in Files, UnwatchFile(g) PROVE nextHandle' = nextHandle => EventsOK
  <2>1. epollEvents' \subseteq epollEvents /\ interest' \subseteq interest
    BY <1>12 DEF UnwatchFile
  <2> QED BY <1>9, <2>1
<1>13. ASSUME NEW n, CloseFd(n) PROVE OwnerOK /\ interest' \subseteq interest
  BY <1>1, <1>13 DEF CloseFd
<1>14. ASSUME NEW g \in Files, Detach(g) PROVE Goal
  <2>1. FileOK
    <3>1. file' = [file EXCEPT ![g] = [file[g] EXCEPT !.fd = NoFd, !.closed = TRUE]]
      BY <1>14 DEF Detach
    <3>2. file[g] \in FileS /\ g \in Files BY <1>1
    <3> QED BY <1>30, <1>32, <3>1, <3>2
  <2>2. OwnerOK
    <3>1. owner' = [owner EXCEPT ![file[g].fd] = Child] BY <1>14 DEF Detach
    <3> QED BY <1>1, <3>1
  <2>3. UnwatchFile(g) /\ UNCHANGED <<sock, nextHandle, batch, ready, op, closer>>
    BY <1>14 DEF Detach
  <2>4. EventsOK BY <1>12, <2>3
  <2> QED BY <1>4, <1>5, <1>6, <1>8, <1>10, <2>1, <2>2, <2>3, <2>4
<1>15. ASSUME NEW g \in Files, World(g) PROVE Goal
  <2>1. /\ UNCHANGED <<owner, nextHandle, epollEvents, interest, batch, file, ready, op, closer>>
        /\ \/ sock' = [sock EXCEPT ![g].in = @ + 1] \/ sock' = [sock EXCEPT ![g].out = @ + 1]
           \/ sock' = [sock EXCEPT ![g].eof = TRUE]
    BY <1>15 DEF World, PeerSends, PeerReads, PeerCloses
  <2>2. SockOK
    <3>1. \E one \in SockS : sock' = [sock EXCEPT ![g] = one]
      <4>1. /\ [sock[g] EXCEPT !.in = @ + 1] \in SockS /\ [sock[g] EXCEPT !.out = @ + 1] \in SockS
            /\ [sock[g] EXCEPT !.eof = TRUE] \in SockS
        BY <1>1, <1>31
      <4> QED BY <2>1, <4>1
    <3> QED BY <1>1, <3>1
  <2> QED BY <1>3, <1>4, <1>5, <1>6, <1>7, <1>9, <1>10, <2>1, <2>2
<1>16. ASSUME NEW d \in Fds, Spawned(d) PROVE Goal
  <2>1. CloseFd(d) /\ UNCHANGED <<sock, nextHandle, epollEvents, batch, file, ready, op, closer>>
    BY <1>16 DEF Spawned
  <2> QED BY <1>3, <1>4, <1>5, <1>6, <1>8, <1>9, <1>10, <1>13, <2>1
<1>17. ASSUME NEW o \in Ops, OpActs(o) PROVE Goal
  <2>1. UNCHANGED <<owner, interest, nextHandle, epollEvents, batch, closer>> BY <1>17, OpKeeps
  <2>2. /\ op' \in [Ops -> OpS] /\ ready' \in [Files -> [Sides -> BOOLEAN]]
        /\ sock' \in [Files -> SockS] /\ (op[o].pc # "idle" \/ o \in DOMAIN program.ops)
        /\ file' \in [Files -> [fd : Fds \cup {NoFd}, closed : BOOLEAN, closing : BOOLEAN,
                                deleted : BOOLEAN, ops : Nat]]
    BY <1>17, OpTypes DEF OpS, SockS
  <2>3. OpOK BY <1>1, <1>17, <2>2, OpKeeps
  <2>4. FileOK
    <3>1. IsFiniteSet({"read"}) /\ Cardinality({"read"}) = 1 BY FS_Singleton
    <3>2. Cardinality({"read"} \cup {"write"}) = 1 + 1 BY <3>1, FS_AddElement
    <3>3. Sides = {"read"} \cup {"write"} BY DEF Sides
    <3>4. 0..Cardinality(Sides) = 0..2 BY <3>2, <3>3
    <3>5. ASSUME NEW f \in Files PROVE file'[f].ops \in 0..2
      <4>1. Busy(<<f, "read">>)' \in {0, 1} /\ Busy(<<f, "write">>)' \in {0, 1} BY DEF Busy
      <4>2. file'[f].ops = Busy(<<f, "read">>)' + Busy(<<f, "write">>)' BY DEF OpsAreCounted
      <4> QED BY <4>1, <4>2
    <3> QED BY <2>2, <3>4, <3>5 DEF FileS
  <2> QED BY <1>6, <1>7, <1>9, <1>10, <2>1, <2>2, <2>3, <2>4
<1>18. ASSUME NEW c \in Closers, NEW g \in Files, CloseBegins(c, g) PROVE Goal
  <2>1. FileOK
    <3>1. file' = [file EXCEPT ![g] = [file[g] EXCEPT !.closed = TRUE, !.closing = TRUE]]
      BY <1>18 DEF CloseBegins
    <3>2. file[g] \in FileS /\ g \in Files BY <1>1
    <3> QED BY <1>30, <1>32, <3>1, <3>2
  <2>2. CloserOK
    <3>1. closer' = [closer EXCEPT ![c] = [pc |-> "read", file |-> g]] BY <1>18 DEF CloseBegins
    <3> QED BY <1>1, <3>1 DEF CloserS
  <2>3. UNCHANGED <<owner, sock, interest, nextHandle, epollEvents, batch, ready, op>>
    BY <1>18 DEF CloseBegins, asyncVars, kernel
  <2> QED BY <1>4, <1>5, <1>7, <1>8, <1>9, <1>10, <2>1, <2>2, <2>3
<1>19. ASSUME NEW c \in Closers, NEW g \in Files, DeleteBegins(c, g) PROVE Goal
  <2>1. CloserOK
    <3>1. closer' = [closer EXCEPT ![c] = [pc |-> "pump", file |-> g]] BY <1>19 DEF DeleteBegins
    <3> QED BY <1>1, <3>1 DEF CloserS
  <2>2. UNCHANGED <<owner, sock, interest, nextHandle, epollEvents, batch, file, ready, op>>
    BY <1>19 DEF DeleteBegins, asyncVars, kernel
  <2>3. FileOK /\ ReadyOK BY <1>3, <1>4, <2>2
  <2>4. OpOK
    <3>1. op' = op BY <2>2
    <3> HIDE DEF OpOK
    <3> QED BY <1>5, <3>1
  <2>5. OwnerOK /\ SockOK /\ EventsOK /\ BatchOK BY <1>7, <1>8, <1>9, <1>10, <2>2
  <2> HIDE DEF FileOK, ReadyOK, OpOK, CloserOK, OwnerOK, SockOK, EventsOK, BatchOK
  <2> QED BY <2>1, <2>3, <2>4, <2>5
<1>20. ASSUME NEW f, NEW sides, op' = Awoken(f, sides) PROVE OpOK
  <2>1. op' \in [Ops -> OpS]
    <3>1. \A o \in Ops : [op[o] EXCEPT !.pc = "lock"] \in OpS BY <1>1, <1>33
    <3> QED BY <1>1, <1>20, <3>1 DEF Awoken
  <2>2. \A o \in Ops : op'[o].pc # "idle" => op[o].pc # "idle" BY <1>20, Awakening
  <2> QED BY <1>1, <2>1, <2>2
<1>21. ASSUME NEW c \in Closers, NEW pc \in {"write", "fd", "unwatch", "join"}, CloserAt(c, pc)
       PROVE  CloserOK
  BY <1>1, <1>21 DEF CloserAt, CloserS
<1>22. ASSUME NEW c \in Closers, closer' = [closer EXCEPT ![c] = NoCloser] PROVE CloserOK
  <2>1. NoCloser \in CloserS BY FilesAssumption DEF NoCloser, CloserS
  <2> QED BY <1>1, <1>22, <2>1
<1>23. ASSUME NEW c \in Closers, CloseNotifies(c) PROVE Goal
  <2>1. OpOK BY <1>20, <1>23 DEF CloseNotifies, WokenByClose
  <2>2. CloserOK BY <1>21, <1>23 DEF CloseNotifies
  <2>3. UNCHANGED <<owner, sock, interest, nextHandle, epollEvents, batch, file, ready>>
    BY <1>23 DEF CloseNotifies, asyncVars, kernel
  <2> QED BY <1>3, <1>4, <1>7, <1>8, <1>9, <1>10, <2>1, <2>2, <2>3
<1>24. ASSUME NEW c \in Closers, CloseClosesFd(c) PROVE Goal
  <2>1. CloserOK BY <1>21, <1>24 DEF CloseClosesFd
  <2>2. PICK n : CloseFd(n) BY <1>24 DEF CloseClosesFd
  <2>3. UNCHANGED <<sock, nextHandle, epollEvents, batch, file, ready, op>>
    BY <1>24 DEF CloseClosesFd
  <2>4. OwnerOK /\ interest' \subseteq interest BY <1>13, <2>2
  <2>5. EventsOK BY <1>9, <2>3, <2>4
  <2> QED BY <1>3, <1>4, <1>5, <1>8, <1>10, <2>1, <2>3, <2>4, <2>5
<1>25. ASSUME NEW c \in Closers, CloseUnwatches(c) PROVE Goal
  <2>1. CloserOK BY <1>21, <1>25 DEF CloseUnwatches
  <2>2. FileOK
    <3>1. file' = [file EXCEPT ![closer[c].file] = [file[closer[c].file] EXCEPT !.fd = NoFd]]
      BY <1>25 DEF CloseUnwatches
    <3>2. file[closer[c].file] \in FileS /\ closer[c].file \in Files BY <1>1 DEF CloserS
    <3> QED BY <1>30, <1>32, <3>1, <3>2
  <2>3. closer[c].file \in Files BY <1>1 DEF CloserS
  <2>4. UnwatchFile(closer[c].file) /\ UNCHANGED <<owner, sock, nextHandle, batch, ready, op>>
    BY <1>25 DEF CloseUnwatches
  <2>5. EventsOK BY <1>12, <2>3, <2>4
  <2> QED BY <1>4, <1>5, <1>7, <1>8, <1>10, <2>1, <2>2, <2>4, <2>5
<1>26. ASSUME NEW c \in Closers, CloseJoins(c) PROVE Goal
  <2>1. UNCHANGED <<owner, sock, interest, nextHandle, epollEvents, batch, file, ready, op>>
    BY <1>26 DEF CloseJoins, asyncVars, kernel
  <2>2. CloserOK BY <1>22, <1>26 DEF CloseJoins
  <2> QED BY <1>3, <1>4, <1>5, <1>7, <1>8, <1>9, <1>10, <2>1, <2>2
<1>27. ASSUME NEW c \in Closers, Deleted(c) PROVE Goal
  <2>1. FileOK
    <3>1. file' = [file EXCEPT ![closer[c].file] = [file[closer[c].file] EXCEPT !.deleted = TRUE]]
      BY <1>27 DEF Deleted
    <3>2. file[closer[c].file] \in FileS /\ closer[c].file \in Files BY <1>1 DEF CloserS
    <3> QED BY <1>30, <1>32, <3>1, <3>2
  <2>2. UNCHANGED <<owner, sock, interest, nextHandle, epollEvents, batch, ready, op>>
    BY <1>27 DEF Deleted, asyncVars, kernel
  <2>3. CloserOK BY <1>22, <1>27 DEF Deleted
  <2> QED BY <1>4, <1>5, <1>7, <1>8, <1>9, <1>10, <2>1, <2>2, <2>3
<1>28. CASE EpollWait /\ UNCHANGED <<file, ready, op, closer>>
  <2>1. \A b \in batch' : /\ b \in [handle : pending, file : Files, flags : SUBSET Sides, half : BOOLEAN]
                          /\ \E e \in epollEvents : e.handle = b.handle
    BY <1>28 DEF EpollWait, Sides
  <2>2. BatchOK BY <1>1, <2>1 DEF BatchS, EventS
  <2>3. UNCHANGED <<owner, sock, interest, nextHandle, epollEvents, file, ready, op, closer>>
    BY <1>28 DEF EpollWait
  <2> QED BY <1>3, <1>4, <1>5, <1>6, <1>7, <1>8, <1>9, <2>2, <2>3
<1>29. ASSUME NEW b \in batch, Callback(b) PROVE Goal
  <2>1. OpOK BY <1>20, <1>29 DEF Callback
  <2>2. ReadyOK
    <3>1. ready' = [ready EXCEPT ![b.file][NextSide(b)] = TRUE]
      BY <1>29 DEF Callback
    <3> QED BY <1>1, <3>1
  <2>3. UNCHANGED <<owner, sock, interest, nextHandle, epollEvents, file, closer>>
    BY <1>29 DEF Callback, Reported, kernel
  <2>4. BatchOK BY <1>1, <1>29, CallbackGoesOn DEF BatchS
  <2> QED BY <1>3, <1>6, <1>7, <1>8, <1>9, <2>1, <2>2, <2>3, <2>4
<1> QED
  BY <1>11, <1>14, <1>15, <1>16, <1>17, <1>18, <1>19, <1>23, <1>24, <1>25, <1>26, <1>27,
     <1>28, <1>29
     DEF Moves, CloserStep

-----------------------------------------------------------------------------
(* The theorems. *)

LEMMA FreshHolds == Fresh => IInv
PROOF
<1> SUFFICES ASSUME Fresh PROVE IInv OBVIOUS
<1> USE DEF Fresh, NewFiles, NewFile, NotReady, NoOps, NoOp, NoClosers, NoCloser, NoOwners,
            NewSocks
<1>1. 0 \in 0..Cardinality(Sides)
  <2>1. IsFiniteSet({"read"}) /\ Cardinality({"read"}) = 1 BY FS_Singleton
  <2>2. Cardinality({"read"} \cup {"write"}) = 1 + 1 BY <2>1, FS_AddElement
  <2>3. Sides = {"read"} \cup {"write"} BY DEF Sides
  <2> QED BY <2>2, <2>3
<1>2. Types
  <2>1. TypeOK BY <1>1, FilesAssumption DEF TypeOK, Kinds, Want
  <2> QED BY <2>1, FilesAssumption DEF Types
<1>3. ClosersAreAlone BY DEF ClosersAreAlone
<1>4. ToldOfClose BY DEF ToldOfClose, Holds
<1>5. OwnsUntilClosed BY DEF OwnsUntilClosed
<1>6. OwnsOne BY FilesAssumption DEF OwnsOne
<1>7. OpsAreCounted BY DEF OpsAreCounted, Busy, Ops, Sides
<1>8. IdleWhenShut BY DEF IdleWhenShut, Ops
<1>9. InterestIsTrue BY DEF InterestIsTrue
<1>10. HandlesAreNew BY DEF HandlesAreNew
<1>11. WatchedWhileOpen BY FilesAssumption DEF WatchedWhileOpen
<1>12. AllAreTold BY DEF AllAreTold
<1> QED BY <1>2, <1>3, <1>4, <1>5, <1>6, <1>7, <1>8, <1>9, <1>10, <1>11, <1>12 DEF IInv

LEMMA NextKeeps == IInv /\ [Next]_vars => IInv' \/ Fresh'
PROOF
<1> SUFFICES ASSUME IInv, [Next]_vars PROVE IInv' \/ Fresh' OBVIOUS
<1>1. CASE Alive /\ Step
  <2>1. Moves \/ Fresh' BY <1>1, StepsAre DEF IInv
  <2>2. ASSUME Moves PROVE IInv'
    <3>1. OpsAreCounted' BY <2>2, OpsStayCounted
    <3>2. Types' BY <1>1, <2>2, <3>1, TypesStay
    <3>3. /\ ClosersAreAlone' /\ ToldOfClose' /\ OwnsUntilClosed' /\ OwnsOne' /\ IdleWhenShut'
          /\ InterestIsTrue' /\ HandlesAreNew' /\ WatchedWhileOpen' /\ AllAreTold'
      BY <2>2, ClosersStayAlone, StaysToldOfClose, StaysOwned, OwnsOneStays, StaysIdleWhenShut,
         InterestStaysTrue, HandlesStayNew, StaysWatched, AllStayTold
    <3> QED BY <3>1, <3>2, <3>3 DEF IInv
  <2> QED BY <2>1, <2>2
<1>2. CASE UNCHANGED vars
  <2>1. UNCHANGED <<owner, sock, interest, pending, nextHandle, epollEvents, batch, stolen, file,
                    ready, op, closer, program>>
    BY <1>2 DEF vars, asyncVars, kernel
  <2>2. Types' BY <2>1 DEF IInv, Types, TypeOK
  <2>3. /\ ClosersAreAlone' /\ ToldOfClose' /\ OwnsUntilClosed' /\ OwnsOne'
        /\ OpsAreCounted' /\ IdleWhenShut'
    BY <2>1 DEF IInv, ClosersAreAlone, ToldOfClose, Holds, OwnsUntilClosed, OwnsOne,
                OpsAreCounted, Busy, IdleWhenShut, Closing
  <2>4. InterestIsTrue' /\ HandlesAreNew' /\ WatchedWhileOpen'
    BY <2>1 DEF IInv, InterestIsTrue, HandlesAreNew, WatchedWhileOpen
  <2>5. AllAreTold'
    <3>1. ASSUME NEW o \in Ops PROVE Told(o) => Told(o)'
      BY <2>1 DEF Told, WillBeTold, Handles, Watched
    <3>2. ASSUME NEW o \in Ops PROVE /\ Ready(o[1], o[2])' => Ready(o[1], o[2])
                                     /\ Handles(o[1])' = Handles(o[1])
      BY <2>1 DEF Ready, Readable, Writable, Handles
    <3> QED BY <2>1, <3>1, <3>2 DEF IInv, AllAreTold
  <2> QED BY <2>2, <2>3, <2>4, <2>5 DEF IInv
<1> QED BY <1>1, <1>2 DEF Next

\* Whatever is opened, read, written, timed out, closed and deleted, the invariant holds.
THEOREM Invariance == Spec => []IInv
PROOF
<1>1. Init => Fresh BY DEF Init, AsyncInit, Fresh
<1> QED BY <1>1, FreshHolds, NextKeeps, PTL DEF Spec

\* A system call is never made on a number that is another file's, a child's or nobody's
\* by then: who closes the descriptor has had the mutex after whoever makes the call.
THEOREM CallsAreOnTheirOwn == Spec => []NoForeignIo
PROOF
<1>1. IInv => NoForeignIo
  <2> SUFFICES ASSUME IInv, NEW o \in Ops, op[o].pc = "io", file[o[1]].fd # NoFd
               PROVE  owner[file[o[1]].fd] = o[1]
    BY DEF NoForeignIo
  <2>1. o[1] \in Files BY DEF Ops
  <2>2. ASSUME NEW c \in Closers, closer[c].file = o[1], closer[c].pc = "unwatch" PROVE FALSE
    BY <2>2, NobodyWaitsAnyMore DEF Holds
  <2> QED BY <2>1, <2>2 DEF IInv, OwnsUntilClosed
<1> QED BY <1>1, Invariance, PTL

\* Nothing is pending on a file that is gone, and the kernel holds no event that was freed.
THEOREM NothingOutlivesItsFile == Spec => []NoUseAfterFree
PROOF
<1>1. IInv => NoUseAfterFree
  <2> SUFFICES ASSUME IInv PROVE NoUseAfterFree OBVIOUS
  <2>1. TypeOK BY DEF IInv, Types
  <2>2. NoDanglingWatch BY DEF IInv, InterestIsTrue, NoDanglingWatch
  <2>3. ASSUME NEW f \in Files, file[f].deleted
        PROVE  (\A o \in Ops : o[1] = f => op[o].pc = "idle") /\ ~Closing(f)
    <3>1. ~Closing(f) BY <2>3 DEF IInv, ClosersAreAlone, Closing
    <3>2. \A s \in Sides : op[<<f, s>>].pc = "idle" BY <2>3, <3>1 DEF IInv, IdleWhenShut
    <3>3. \A o \in Ops : o = <<o[1], o[2]>> /\ o[2] \in Sides BY DEF Ops
    <3> QED BY <3>1, <3>2, <3>3
  <2> QED BY <2>1, <2>2, <2>3 DEF NoUseAfterFree, NoUseAfterDelete
<1> QED BY <1>1, Invariance, PTL

\* An operation that waits for what is there will be told of it.
THEOREM WaitersAreTold == Spec => []NoLostReadiness
PROOF
<1>1. IInv => NoLostReadiness
  BY DEF IInv, AllAreTold, Told, NoLostReadiness
<1> QED BY <1>1, Invariance, PTL
=============================================================================
