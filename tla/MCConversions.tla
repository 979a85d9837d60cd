----------------------------- MODULE MCConversions -----------------------------
(* Short strings of the characters that mean something to each conversion. *)
EXTENDS Conversions

UpTo(S, n) == UNION {[1 .. k -> S] : k \in 0 .. n}

MCEventLines ==
  {prompt \o <<"<", "4", ">">> \o name \o args :
     prompt \in {<<>>, <<">">>},
     name \in {<<"NAME">>, <<"FAIL">>, <<"FAIL-", "x">>, <<"x">>, <<"P2P:">>, <<"CTRL-REQ-", "x">>},
     args \in {<<>>} \cup {<<" ">> \o s : s \in UpTo({" ", "a", "=", "'", "[", "]"}, 4)}}
    \cup UpTo({"<", ">", "4"}, 4)
MCStrings == UpTo({"a", "=", "'", "dq", "\\", " ", "#"}, 3)
MCSomeStrings == UpTo({"a", "'", "dq", "\\", " ", "#", "\n"}, 3)
MCOwnSettings ==
  [uuid : {<<"u">>, <<>>}, deviceName : {<<"b", " ">>}, enabled : BOOLEAN, server_port : {0, 12}]
MCSettings == [uuid : {<<"u">>, <<>>, <<"'">>}, deviceName : MCSomeStrings, enabled : {TRUE}, server_port : {8}]
MCDefaults == [uuid |-> <<>>, deviceName |-> <<"PiPedal">>, enabled |-> FALSE, server_port |-> 80]
MCItems ==
  {[option |-> o, value |-> <<>>] : o \in {<<"-", "help">>, <<"-", "help", "+">>, <<"-", "help", "-">>}}
    \cup {[option |-> <<"-", "i">>, value |-> v] : v \in {<<>>, <<"w">>, <<"-", "w">>, <<"-", "help">>}}
    \cup {[option |-> <<>>, value |-> v] : v \in {<<>>, <<"w">>}}
MCCommandLines == UpTo(MCItems, 3)
MCFlags == UpTo({<<"[", "P2P", "]">>, <<"[", "-", "]">>}, 2)
MCNetworks ==
  [number : {0, 12}, ssid : UpTo({"a", " "}, 2), bssid : {<<"b">>, <<>>}, flags : MCFlags]
MCScans ==
  [bssid : {<<"b">>}, frequency : {0, 24}, signalLevel : {-41, 0, 7}, flags : MCFlags,
   ssid : UpTo({"a", "="}, 2)]
MCStation ==
  [address : {<<"b">>, <<"c">>}, p2p_device_name : UpTo({"a", "="}, 2), rx_bytes : {0, 13}]
MCStations == UpTo(MCStation, 2)
MCEntries ==
  [key : {<<>>, <<"a">>, <<"A">>, <<"b">>, <<"a", "b">>}, value : {<<>>, <<"x">>, <<"=", "x">>,
                                                             <<"x", "x", "x", "x", "x">>}]
MCInstances == UpTo({"a", "A", "."}, 3) \ {<<>>}
MCServiceTypes == {<<"_ipp", ".", "_tcp">>, <<"_x", ".", "_udp">>, <<"_x", ".", "_sctp">>}
MCFiles == [lines : UpTo(UpTo({"a"}, 2), 2), rest : UpTo({"b"}, 2)]
MCTexts == UpTo({"a", " "}, 9) \cup UpTo({"a", " ", "\n"}, 4)
=============================================================================
