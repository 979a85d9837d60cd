------------------------------ MODULE MCCoFile ------------------------------
(* Two files on two descriptors: one that is both read from and written to (the *)
(* command socket), or two that are read from (two sockets of the daemon), or   *)
(* one that is connected to a child process.                                    *)
EXTENDS CoFile, TLC

CONSTANTS f1, f2

MCFiles == {f1, f2}
MCProgram(ops, peer, timed, remote) ==
  [ops |-> ops, closed |-> {f1} \cup remote, remote |-> remote, peer |-> peer, timed |-> timed]
MCPrograms ==
  {MCProgram(<<f1, "read">> :> "recv" @@ <<f1, "write">> :> "send",
             {f1} \X {"sends", "reads", "closes"}, {<<f1, "read">>, <<f1, "write">>}, {}),
   MCProgram(<<f1, "read">> :> "recv" @@ <<f2, "read">> :> "recv", {f1, f2} \X {"sends"}, {}, {}),
   MCProgram(<<f1, "read">> :> "read", {f1} \X {"sends", "closes"}, {}, {f2}),
   MCProgram(<<f1, "write">> :> "write", {f1} \X {"reads", "closes"}, {}, {f2})}
=============================================================================
