----------------------------- MODULE WpaResponses -----------------------------
(***************************************************************************)
(* What wpa_supplicant answers to the requests of WpaSupplicant.cpp and to *)
(* STA-FIRST and STA-NEXT of WpaChannel.cpp (src/pipedal_p2pd).  A name of *)
(* a column or a tag counts as one character.                              *)
(***************************************************************************)
EXTENDS P2pUtil

WpaNetworkInfo(row) ==
  LET c == Split(row, "\t")
  IN  IF Len(c) < 4 \/ Leading(c[1]) = <<>> THEN <<>>
      ELSE <<[number |-> Leading(c[1])[1], ssid |-> c[2], bssid |-> c[3],
              flags |-> SplitWpaFlags(c[4])]>>

WpaScanInfo(row) ==
  LET c == Split(row, "\t")
  IN  IF Len(c) < 5 \/ ToInt64(c[2]) = <<>> \/ ToInt64(c[3]) = <<>> THEN <<>>
      ELSE <<[bssid |-> c[1], frequency |-> ToInt64(c[2])[1], signalLevel |-> ToInt64(c[3])[1],
              flags |-> SplitWpaFlags(c[4]), ssid |-> c[5]]>>

\* One row that cannot be read is the end of all networks, and only of itself in a scan.
ListNetworks(response) ==
  LET rows == [i \in 1 .. Len(response) - 1 |-> WpaNetworkInfo(response[i + 1])]
  IN  IF \E i \in DOMAIN rows : rows[i] = <<>> THEN <<>> ELSE <<FlattenSeq(rows)>>
ScanResults(response) ==
  FlattenSeq([i \in 1 .. Len(response) - 1 |-> WpaScanInfo(response[i + 1])])

\* A row without "=" is its own tag and value; the last of two rows counts.
StatusTags == {<<"bssid">>, <<"ssid">>, <<"wpa_state">>}
Tag(row) == Before(row, FirstOf(row, {"="}))
WpaStatusInfo(response) ==
  LET rows(t) == {i \in DOMAIN response : Tag(response[i]) = t}
      value(row) == IF "=" \in ToSet(row) THEN From(row, Len(Tag(row)) + 2) ELSE row
  IN  [fields |-> [t \in StatusTags |->
                     IF rows(t) = {} THEN <<>>
                     ELSE value(response[CHOOSE i \in rows(t) : \A j \in rows(t) : j =< i])],
       extras |-> SelectSeq(response, LAMBDA row : Tag(row) \notin StatusTags)]

-----------------------------------------------------------------------------
(* StationInfo: Parse() and InitVariables(). *)

FirstEquals(row) == FirstOf(row, {"="})  \* a mutant
LastEquals(row) == SelectLastInSeq(row, LAMBDA c : c = "=")

StationInfo(text) ==
  LET rows   == IF Last(text) = "\n" THEN Front(Pieces(text, "\n")) ELSE Pieces(text, "\n")
      named  == SelectSeq(rows, LAMBDA r : "=" \in ToSet(r))
      others == SelectSeq(rows, LAMBDA r : "=" \notin ToSet(r))
      key(r) == Before(r, LastEquals(r))
      value(k) == LET i == SelectInSeq(named, LAMBDA r : key(r) = k)
                  IN  IF i = 0 THEN <<>> ELSE From(named[i], LastEquals(named[i]) + 1)
      GetSizeT(k) == IF ToUint64(value(k)) = <<>> THEN 0 ELSE ToUint64(value(k))[1]
  IN  [address |-> IF others = <<>> THEN <<>> ELSE others[1],
       p2p_device_name |-> value(<<"p2p_device_name">>), rx_bytes |-> GetSizeT(<<"rx_bytes">>)]

\* ListSta(): the answers come one by one; an empty one or "FAIL" is the last.
ListSta(replies) ==
  LET n == SelectInSeq(replies, LAMBDA r : r \in {<<>>, <<"FAIL", "\n">>, <<"UNKNOWN COMMAND", "\n">>})
  IN  IF replies[n] = <<"UNKNOWN COMMAND", "\n">> THEN <<>>
      ELSE <<[i \in 1 .. n - 1 |-> StationInfo(replies[i])]>>
=============================================================================
