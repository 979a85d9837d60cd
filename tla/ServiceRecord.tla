---------------------------- MODULE ServiceRecord ----------------------------
(***************************************************************************)
(* DNS-SD: DnsSdTxtRecord.h and WifiP2pDnsSdServiceInfo.h                  *)
(* (src/pipedal_p2pd/includes).  A record is the sequence of its entries;  *)
(* each takes a length byte, its key, "=" and its value.                   *)
(***************************************************************************)
EXTENDS P2pUtil

CONSTANT ByteSize  \* 2^8

ASSUME ByteAssumption == ByteSize \in Nat \ {0, 1}

EntryLength(e) == Len(e.key) + 1 + Len(e.value)

\* remove(), insert() and size() step over an entry by its length and one, in a byte: one of
\* the greatest length they never leave.
Steps(record, n) == \A i \in 1 .. n : (EntryLength(record[i]) + 1) % ByteSize # 0
IndexOf(record, key) == SelectInSeq(record, LAMBDA e : CaseInsensitiveCompare(key, e.key))
IsRefused(key, value) == "=" \in ToSet(key) \/ Len(key) + Len(value) >= ByteSize - 1
SetIsStuck(record, key) ==
  LET i == IndexOf(record, key) IN ~Steps(record, IF i = 0 THEN Len(record) ELSE i - 1)

\* set(): in the place of the entry that has the key, or at the end.
AtTheEnd(record, key, value) == Append(record, [key |-> key, value |-> value])  \* a mutant
SetEntry(record, key, value) ==
  LET e == [key |-> key, value |-> value]
      i == IndexOf(record, key)
  IN  IF i = 0 THEN Append(record, e) ELSE [record EXCEPT ![i] = e]

\* getKey() and the loops over it, which take an empty key for the end.
Visible(record) == SubSeq(record, 1, SelectInSeq(Append(record, [key |-> <<>>]),
                                                LAMBDA e : e.key = <<>>) - 1)
ContainsKey(record, key) == IndexOf(Visible(record), key) > 0
GetValue(record, key) == IF ContainsKey(record, key) THEN record[IndexOf(record, key)].value ELSE <<>>

-----------------------------------------------------------------------------
(* Queries: a name as labels and, at its end, a pointer to what is known. *)

sVmPacket == {<<"_tcp", ".", "local", ".">>, <<"local", ".">>, <<"_udp", ".", "local", ".">>}

RECURSIVE CompressDnsName(_)
CompressDnsName(name) ==
  IF name \in sVmPacket THEN [labels |-> <<>>, pointer |-> name]
  ELSE LET i == FirstOf(name, {"."})
           c == CompressDnsName(From(name, i + 1))
       IN  IF i =< Len(name) THEN [c EXCEPT !.labels = <<Before(name, i)>> \o @]
           ELSE [labels |-> IF name = <<>> THEN <<>> ELSE <<name>>, pointer |-> <<>>]

ServiceName(serviceType) == serviceType \o <<".", "local", ".">>
\* The pointer c027 of the answer is to the name that is asked for.
CreatePtrServiceQuery(instance, serviceType) ==
  [request |-> CompressDnsName(ServiceName(serviceType)), answer |-> instance]
CreateTxtServiceQuery(instance, serviceType) ==
  CompressDnsName([i \in DOMAIN instance |-> Lower(instance[i])] \o <<".">> \o ServiceName(serviceType))
=============================================================================
