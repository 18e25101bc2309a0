----------------------------- MODULE AkasaProofs -----------------------------
(* The guarantees of the Akasa server, for any number of requests: tokens of a *)
(* deleted connection stay gone, a bot with a verdict is not judged again, and *)
(* a stamped verdict was carried out.  Then the services around a run next to  *)
(* each other, where each keeps what is proved of it alone.                    *)
EXTENDS MCPlatform, SpendingProofs, FiniteSetTheorems, SequenceTheorems, TLAPS

-------------------------------------------------------------------------------
(* Connections. *)

GrantTokens == [grant : Nat, gen : Nat]
ConnectionRows == [id : Nat, kind : {"none", "oauth", "api_key"},
                   status : {"none", "connected", "expired", "errored"},
                   access : GrantTokens, refresh : GrantTokens, stale : BOOLEAN]
Readings == [step : {"idle", "read", "fetch", "write", "fail"}, of : Nat, with : GrantTokens]
Flows == {"idle"} \X {0} \cup {"insert", "update"} \X Nat

RowGrants == {row.access.grant, row.refresh.grant}

LinkCounts ==
    /\ ids \in Nat /\ granted \in Nat /\ granted <= MaxGrants
    /\ newest \in [Grants -> Nat] /\ dropped \subseteq Nat \ {0}

\* The row holds grants that have been handed out and not been dropped.
RowSound ==
    /\ row \in ConnectionRows
    /\ row.id <= ids /\ (row.id = 0 => row = NoRow)
    /\ row.stale => row.refresh.grant # 0
    /\ row.refresh.grant = 0 => row.refresh = NoToken
    /\ \A g \in RowGrants : g <= granted /\ g \notin dropped

\* The grant of a callback under way is in nobody else's hands.
FlowsSound ==
    /\ callback \in [Callbacks -> Flows]
    /\ \A g \in dropped : g <= granted
    /\ \A c \in Callbacks : callback[c][1] # "idle" =>
          /\ callback[c][2] \in 1..granted
          /\ callback[c][2] \notin RowGrants \cup dropped
          /\ \A r \in Readers : reader[r].with.grant # callback[c][2]
          /\ \A d \in Callbacks \ {c} : callback[d][2] # callback[c][2]

\* A refresh under way that will still find its row carries a grant that was not dropped.
ReadersSound ==
    /\ reader \in [Readers -> Readings]
    /\ \A r \in Readers :
          /\ reader[r].with.grant <= granted
          /\ reader[r].step # "idle" => reader[r].of \in 1..ids
          /\ reader[r].step \in {"fetch", "write"} =>
                /\ reader[r].with.grant # 0
                /\ reader[r].of = row.id => reader[r].with.grant \notin dropped

LinkInv == LinkCounts /\ RowSound /\ FlowsSound /\ ReadersSound

\* The requests go on as they are, or end.
RequestsShrink ==
    /\ callback' \in [Callbacks -> Flows] /\ reader' \in [Readers -> Readings]
    /\ \A c \in Callbacks : callback'[c] \in {callback[c], <<"idle", 0>>}
    /\ \A r \in Readers : reader'[r] \in {reader[r], NoReader}

\* A step that creates the row or changes it in place.
LEMMA RowStep ==
    ASSUME LinkInv, LinkCounts', granted <= granted', UNCHANGED dropped, RequestsShrink,
           row' \in ConnectionRows, row'.id = 0 => row' = NoRow,
           \/ row'.id = row.id /\ ids' = ids
           \/ row'.id = ids + 1 /\ ids' = ids + 1,
           row'.stale => row'.refresh.grant # 0,
           row'.refresh.grant = 0 => row'.refresh = NoToken,
           \A g \in RowGrants' : /\ g <= granted' /\ g \notin dropped
                                 /\ \A c \in Callbacks :
                                       callback'[c][1] # "idle" => callback'[c][2] # g
    PROVE  LinkInv'
  <1>1. RowSound'
    BY DEF LinkInv, LinkCounts, RowSound
  <1>2. FlowsSound'
    <2>1. \A g \in dropped' : g <= granted'
      <3>1. \A g \in dropped : g \in Nat /\ g <= granted
        BY DEF LinkInv, LinkCounts, FlowsSound
      <3>2. granted \in Nat /\ granted' \in Nat
        BY DEF LinkInv, LinkCounts
      <3> QED
        BY <3>1, <3>2
    <2>2. ASSUME NEW c \in Callbacks, callback'[c][1] # "idle"
          PROVE  /\ callback'[c][2] \in 1..granted'
                 /\ callback'[c][2] \notin RowGrants' \cup dropped'
                 /\ \A r \in Readers : reader'[r].with.grant # callback'[c][2]
                 /\ \A d \in Callbacks \ {c} : callback'[d][2] # callback'[c][2]
      <3>1. callback'[c] = callback[c] /\ callback[c][1] # "idle"
        BY <2>2 DEF RequestsShrink
      <3>6. callback[c][2] \in Nat /\ callback[c][2] # 0
        BY <3>1 DEF LinkInv, LinkCounts, FlowsSound
      <3>2. callback'[c][2] \in 1..granted'
        BY <3>1 DEF LinkInv, LinkCounts, FlowsSound
      <3>3. \A r \in Readers : reader'[r].with.grant # callback'[c][2]
        BY <3>1, <3>6 DEF RequestsShrink, LinkInv, FlowsSound, NoReader, NoToken
      <3>4. \A d \in Callbacks \ {c} : callback'[d][2] # callback'[c][2]
        BY <3>1, <3>6 DEF RequestsShrink, LinkInv, FlowsSound
      <3>5. callback'[c][2] \notin RowGrants' \cup dropped'
        BY <2>2, <3>1 DEF LinkInv, FlowsSound
      <3> QED
        BY <3>2, <3>3, <3>4, <3>5
    <2> QED
      BY <2>1, <2>2 DEF FlowsSound, RequestsShrink
  <1>3. ReadersSound'
    <2>1. ASSUME NEW r \in Readers
          PROVE  /\ reader'[r].with.grant <= granted'
                 /\ reader'[r].step # "idle" => reader'[r].of \in 1..ids'
                 /\ reader'[r].step \in {"fetch", "write"} =>
                       /\ reader'[r].with.grant # 0
                       /\ reader'[r].of = row'.id => reader'[r].with.grant \notin dropped'
      <3>1. CASE reader'[r] = NoReader
        BY <3>1 DEF NoReader, NoToken, LinkCounts
      <3>2. CASE reader'[r] = reader[r]
        <4>1. reader[r] \in Readings
          BY DEF LinkInv, ReadersSound
        <4>2. reader[r].with.grant \in Nat /\ reader[r].of \in Nat
          BY <4>1 DEF Readings, GrantTokens
        <4>3. row.id \in Nat /\ row.id <= ids
          BY DEF LinkInv, RowSound, ConnectionRows
        <4> QED
          BY <3>2, <4>2, <4>3 DEF LinkInv, LinkCounts, ReadersSound
      <3> QED
        BY <3>1, <3>2 DEF RequestsShrink
    <2> QED
      BY <2>1 DEF ReadersSound, RequestsShrink
  <1> QED
    BY <1>1, <1>2, <1>3 DEF LinkInv

\* A step of one reader, which takes over no grant but the row's.
LEMMA ReaderStep ==
    ASSUME LinkInv, UNCHANGED <<row, ids, granted, dropped, callback>>,
           newest' \in [Grants -> Nat],
           NEW r \in Readers, NEW new \in Readings, reader' = [reader EXCEPT ![r] = new],
           new.with.grant \in {0, reader[r].with.grant} \cup RowGrants,
           new.step # "idle" => new.of \in 1..ids,
           new.step \in {"fetch", "write"} =>
               /\ new.with.grant # 0
               /\ new.of = row.id => new.with.grant \notin dropped
    PROVE  LinkInv'
  <1>1. /\ reader' \in [Readers -> Readings] /\ reader'[r] = new
        /\ \A s \in Readers \ {r} : reader'[s] = reader[s]
    BY DEF LinkInv, ReadersSound
  <1>2. LinkCounts' /\ RowSound'
    BY DEF LinkInv, LinkCounts, RowSound, RowGrants
  <1>3. RowGrants' = RowGrants
    BY DEF RowGrants
  <1>4. FlowsSound'
    <2>1. ASSUME NEW c \in Callbacks, callback[c][1] # "idle", NEW s \in Readers
          PROVE  reader'[s].with.grant # callback[c][2]
      <3>1. /\ callback[c][2] # 0 /\ callback[c][2] \notin RowGrants
            /\ reader[s].with.grant # callback[c][2] /\ reader[r].with.grant # callback[c][2]
        BY <2>1 DEF LinkInv, LinkCounts, FlowsSound
      <3> QED
        BY <1>1, <3>1
    <2> QED
      BY <1>3, <2>1 DEF LinkInv, FlowsSound
  <1>5. new.with.grant <= granted
    BY DEF LinkInv, LinkCounts, RowSound, ReadersSound
  <1>6. ReadersSound'
    BY <1>1, <1>5 DEF LinkInv, ReadersSound
  <1> QED
    BY <1>2, <1>4, <1>6 DEF LinkInv

LEMMA NothingsTyped ==
    /\ NoToken \in GrantTokens /\ NoToken.grant = 0
    /\ NoRow \in ConnectionRows /\ NoRow.id = 0 /\ ~NoRow.stale
    /\ NoRow.access = NoToken /\ NoRow.refresh = NoToken
    /\ NoReader \in Readings /\ NoReader.step = "idle" /\ NoReader.with = NoToken
    /\ <<"idle", 0>> \in Flows /\ <<"idle", 0>>[1] = "idle"
  BY DEF NoToken, NoRow, NoReader, GrantTokens, ConnectionRows, Readings, Flows

LEMMA FreshTyped ==
    ASSUME NEW g \in Nat, NEW t \in FreshTokens(g)
    PROVE  /\ t.access \in GrantTokens /\ t.access.grant = g
           /\ t.refresh \in GrantTokens /\ t.refresh.grant \in {0, g}
           /\ t.refresh = NoToken \/ t.refresh.grant = g
  BY DEF FreshTokens, Token, NoToken, GrantTokens

LEMMA MaxTyped == MaxGrants \in Nat /\ MaxIds \in Nat /\ MaxRenewals \in Nat
  BY ConnectionsAssumption

\* Requests that stay as they are shrink, and so does one callback or one reader that ends.
LEMMA Shrinks ==
    ASSUME LinkInv,
           \/ UNCHANGED callback
           \/ \E c \in Callbacks : callback' = [callback EXCEPT ![c] = <<"idle", 0>>],
           \/ UNCHANGED reader
           \/ \E r \in Readers : reader' = [reader EXCEPT ![r] = NoReader]
    PROVE  RequestsShrink
  BY NothingsTyped DEF LinkInv, FlowsSound, ReadersSound, RequestsShrink

\* A step that leaves the row, and has no more callbacks and readers under way.
LEMMA RowKept ==
    ASSUME LinkInv, LinkCounts', granted <= granted', UNCHANGED <<row, ids, dropped>>,
           RequestsShrink
    PROVE  LinkInv'
  <1>1. RowGrants' = RowGrants
    BY DEF RowGrants
  <1>2. \A g \in RowGrants : g \in Nat /\ g <= granted /\ g \notin dropped
    BY DEF LinkInv, RowSound, RowGrants, ConnectionRows, GrantTokens
  <1>3. \A g \in RowGrants' : g <= granted' /\ g \notin dropped
    BY <1>1, <1>2 DEF LinkInv, LinkCounts
  <1>4. \A g \in RowGrants', c \in Callbacks : callback'[c][1] # "idle" => callback'[c][2] # g
    BY <1>1, NothingsTyped DEF LinkInv, FlowsSound, RequestsShrink
  <1> QED
    BY <1>3, <1>4, RowStep DEF LinkInv, RowSound

LEMMA CreateStep ==
    ASSUME LinkInv, NEW kind \in {"oauth", "api_key"}, Create(kind)
    PROVE  LinkInv'
  <1>1. /\ granted' = granted + 1 /\ granted' \in Nat /\ granted <= granted'
        /\ UNCHANGED <<newest, dropped>> /\ RequestsShrink
    BY Shrinks DEF Create, RequestsUnchanged, LinkInv, LinkCounts
  <1>2. CASE UNCHANGED <<row, ids>>
    BY <1>1, <1>2, MaxTyped, RowKept DEF Create, LinkInv, LinkCounts
  <1>3. ASSUME NEW t \in FreshTokens(granted + 1), ids' = ids + 1,
               row' = [id |-> ids + 1, kind |-> kind, status |-> "connected",
                        access |-> IF kind = "oauth" THEN t.access ELSE NoToken,
                        refresh |-> IF kind = "oauth" THEN t.refresh ELSE NoToken,
                        stale |-> FALSE]
        PROVE  LinkInv'
    <2>6. row'.refresh.grant = 0 => row'.refresh = NoToken
      BY <1>1, <1>3, FreshTyped DEF LinkInv, LinkCounts
    <2>1. row' \in ConnectionRows /\ row'.id = ids + 1 /\ ~row'.stale /\ ids + 1 # 0
      BY <1>1, <1>3, FreshTyped, NothingsTyped DEF LinkInv, LinkCounts, ConnectionRows
    <2>2. RowGrants' \subseteq {0, granted + 1}
      BY <1>1, <1>3, FreshTyped, NothingsTyped DEF RowGrants, LinkInv, LinkCounts
    <2>3. LinkCounts'
      BY <1>1, <1>3, MaxTyped DEF Create, LinkInv, LinkCounts
    <2>4. granted + 1 \notin dropped /\ 0 \notin dropped
      BY DEF LinkInv, LinkCounts, FlowsSound
    <2>5. \A c \in Callbacks :
              callback'[c][1] # "idle" => callback'[c][2] \notin {0, granted + 1}
      BY DEF Create, RequestsUnchanged, LinkInv, LinkCounts, FlowsSound
    <2> QED
      BY <1>1, <1>3, <2>1, <2>2, <2>3, <2>4, <2>5, <2>6, RowStep
  <1> QED
    BY <1>2, <1>3 DEF Create

LEMMA DeleteStep == ASSUME LinkInv, Delete PROVE LinkInv'
  <1>1. /\ row' = NoRow /\ dropped' = dropped \cup (RowGrants \ {0})
        /\ UNCHANGED <<reader, callback, ids, granted, newest>>
    BY DEF Delete, RequestsUnchanged, RowGrants
  <1>2. RowGrants \subseteq Nat /\ \A g \in RowGrants : g <= granted
    BY DEF LinkInv, RowSound, RowGrants, ConnectionRows, GrantTokens
  <1>3. LinkCounts' /\ \A g \in dropped' : g <= granted
    BY <1>1, <1>2 DEF LinkInv, LinkCounts, FlowsSound
  <1>4. RowGrants' = {0}
    BY <1>1, NothingsTyped DEF RowGrants
  <1>5. RowSound'
    BY <1>1, <1>3, <1>4, NothingsTyped DEF LinkInv, LinkCounts, RowSound
  <1>6. FlowsSound'
    <2>1. \A c \in Callbacks : callback[c][1] # "idle" =>
              callback[c][2] # 0 /\ callback[c][2] \notin RowGrants \cup dropped
      BY DEF LinkInv, LinkCounts, FlowsSound
    <2>2. \A c \in Callbacks : callback[c][1] # "idle" =>
              callback[c][2] \notin RowGrants' \cup dropped'
      BY <1>1, <1>4, <2>1
    <2> QED
      BY <1>1, <1>3, <2>2 DEF LinkInv, FlowsSound
  <1>7. ReadersSound'
    <2>1. \A r \in Readers : reader[r].step # "idle" => reader[r].of # row'.id
      BY <1>1, NothingsTyped DEF LinkInv, LinkCounts, ReadersSound
    <2> QED
      BY <1>1, <2>1 DEF LinkInv, ReadersSound
  <1> QED
    BY <1>3, <1>5, <1>6, <1>7 DEF LinkInv

\* What the grants of the row, and a grant just handed out, have in common.
LEMMA GrantsFree ==
    ASSUME LinkInv
    PROVE  /\ \A g \in RowGrants \cup {granted + 1} : g \notin dropped
           /\ \A g \in RowGrants \cup {granted + 1}, c \in Callbacks :
                 callback[c][1] # "idle" => callback[c][2] # g
           /\ \A g \in RowGrants : g \in Nat /\ g <= granted
           /\ row.id \in Nat /\ row.access \in GrantTokens /\ row.refresh \in GrantTokens
  <1>1. \A g \in RowGrants : g \in Nat /\ g <= granted
    BY DEF LinkInv, RowSound, RowGrants, ConnectionRows, GrantTokens
  <1>2. granted + 1 \notin dropped
    BY DEF LinkInv, LinkCounts, FlowsSound
  <1>3. \A c \in Callbacks : callback[c][1] # "idle" => callback[c][2] # granted + 1
    BY DEF LinkInv, LinkCounts, FlowsSound
  <1>4. row.id \in Nat /\ row.access \in GrantTokens /\ row.refresh \in GrantTokens
    BY DEF LinkInv, RowSound, ConnectionRows
  <1> QED
    BY <1>1, <1>2, <1>3, <1>4 DEF LinkInv, RowSound, FlowsSound

\* An update in place that keeps the tokens: only the status and the expiry change.
LEMMA TokensKept ==
    ASSUME LinkInv, row.id # 0, UNCHANGED <<ids, granted, newest, dropped>>, RequestsShrink,
           row' \in ConnectionRows, row'.id = row.id,
           row'.access = row.access, row'.refresh = row.refresh,
           row'.stale => row.refresh.grant # 0
    PROVE  LinkInv'
  <1>1. RowGrants' = RowGrants
    BY DEF RowGrants
  <1>2. LinkCounts' /\ granted <= granted'
    BY DEF LinkInv, LinkCounts
  <1>3. \A g \in RowGrants' : /\ g <= granted' /\ g \notin dropped
                              /\ \A c \in Callbacks :
                                    callback'[c][1] # "idle" => callback'[c][2] # g
    BY <1>1, GrantsFree, NothingsTyped DEF RequestsShrink
  <1> QED
    BY <1>2, <1>3, RowStep DEF LinkInv, RowSound

LEMMA StatusStep ==
    ASSUME LinkInv, TestFails \/ GrowsStale \/ \E r \in Readers : MarkExpired(r)
    PROVE  LinkInv'
  <1>1. UNCHANGED <<ids, granted, newest, dropped>> /\ RequestsShrink
    BY Shrinks DEF TestFails, GrowsStale, MarkExpired, RequestsUnchanged
  <1>2. row \in ConnectionRows /\ (row.id = 0 => row = NoRow)
    BY DEF LinkInv, RowSound
  <1>3. CASE TestFails
    <2>1. row' = [row EXCEPT !.status = "errored"] /\ row.id # 0
      BY <1>2, <1>3 DEF TestFails
    <2>2. /\ row' \in ConnectionRows /\ row'.id = row.id /\ row'.stale = row.stale
          /\ row'.access = row.access /\ row'.refresh = row.refresh
      BY <1>2, <2>1 DEF ConnectionRows
    <2> QED
      BY <1>1, <2>1, <2>2, TokensKept DEF LinkInv, RowSound
  <1>4. CASE GrowsStale
    <2>1. /\ row' = [row EXCEPT !.stale = TRUE]
          /\ row.access # NoToken /\ row.refresh # NoToken
      BY <1>4 DEF GrowsStale
    <2>2. row.id # 0
      BY <1>2, <2>1, NothingsTyped
    <2>3. /\ row' \in ConnectionRows /\ row'.id = row.id
          /\ row'.access = row.access /\ row'.refresh = row.refresh
      BY <1>2, <2>1 DEF ConnectionRows
    <2> QED
      BY <1>1, <2>1, <2>2, <2>3, TokensKept DEF LinkInv, RowSound
  <1>5. ASSUME NEW r \in Readers, MarkExpired(r) PROVE LinkInv'
    <2>1. CASE row' = row
      <3>1. LinkCounts' /\ granted <= granted'
        BY <1>1 DEF LinkInv, LinkCounts
      <3> QED
        BY <1>1, <2>1, <3>1, RowKept
    <2>2. CASE row.id = reader[r].of /\ row' = [row EXCEPT !.status = "expired"]
      <3>1. reader[r].step # "idle"
        BY <1>5 DEF MarkExpired
      <3>2. row.id # 0
        BY <2>2, <3>1 DEF LinkInv, LinkCounts, ReadersSound
      <3>3. /\ row' \in ConnectionRows /\ row'.id = row.id /\ row'.stale = row.stale
            /\ row'.access = row.access /\ row'.refresh = row.refresh
        BY <1>2, <2>2 DEF ConnectionRows
      <3> QED
        BY <1>1, <3>2, <3>3, TokensKept DEF LinkInv, RowSound
    <2> QED
      BY <1>5, <2>1, <2>2 DEF MarkExpired, Still
  <1> QED
    BY <1>3, <1>4, <1>5

LEMMA ReplaceStep == ASSUME LinkInv, NEW id \in 1..MaxIds, Replace(id) PROVE LinkInv'
  <1>1. PICK t \in FreshTokens(granted + 1), expiry \in {FALSE, row.stale} :
            row' = [row EXCEPT !.status = "connected", !.access = t.access, !.stale = expiry,
                               !.refresh = IF t.refresh = NoToken THEN @ ELSE t.refresh]
    BY DEF Replace
  <1>2. /\ granted' = granted + 1 /\ UNCHANGED <<ids, newest, dropped>> /\ RequestsShrink
        /\ row.id # 0 /\ granted \in Nat /\ granted + 1 \in Nat /\ row \in ConnectionRows
    BY MaxTyped, Shrinks DEF Replace, RequestsUnchanged, LinkInv, LinkCounts, RowSound
  <1>3. /\ t.access \in GrantTokens /\ t.access.grant = granted + 1
        /\ t.refresh \in GrantTokens /\ (t.refresh = NoToken \/ t.refresh.grant = granted + 1)
    BY <1>1, <1>2, FreshTyped
  <1>4. /\ row' \in ConnectionRows /\ row'.id = row.id /\ row'.access = t.access
        /\ row'.refresh \in {row.refresh, t.refresh} /\ row'.stale \in {FALSE, row.stale}
        /\ row'.refresh = row.refresh \/ row'.refresh.grant = granted + 1
    BY <1>1, <1>2, <1>3 DEF ConnectionRows
  <1>5. RowGrants' \subseteq RowGrants \cup {granted + 1}
    BY <1>3, <1>4 DEF RowGrants
  <1>6. LinkCounts' /\ granted <= granted'
    BY <1>2, MaxTyped DEF Replace, LinkInv, LinkCounts
  <1>7. \A g \in RowGrants' : /\ g <= granted' /\ g \notin dropped
                              /\ \A c \in Callbacks :
                                    callback'[c][1] # "idle" => callback'[c][2] # g
    BY <1>2, <1>5, GrantsFree, NothingsTyped DEF RequestsShrink
  <1>8. /\ row'.stale => row'.refresh.grant # 0
        /\ row'.refresh.grant = 0 => row'.refresh = NoToken
    <2>1. /\ row.stale => row.refresh.grant # 0
          /\ row.refresh.grant = 0 => row.refresh = NoToken
      BY DEF LinkInv, RowSound
    <2>2. granted + 1 # 0
      BY <1>2
    <2>3. CASE row'.refresh = row.refresh
      BY <1>4, <2>1, <2>3
    <2>4. CASE row'.refresh.grant = granted + 1
      BY <2>2, <2>4
    <2> QED
      BY <1>4, <2>3, <2>4
  <1> QED
    BY <1>2, <1>4, <1>6, <1>7, <1>8, RowStep

LEMMA ExchangeStep == ASSUME LinkInv, NEW c \in Callbacks, Exchange(c) PROVE LinkInv'
  <1>1. /\ granted' = granted + 1 /\ UNCHANGED <<row, ids, newest, dropped, reader>>
        /\ callback' = [callback EXCEPT ![c] = <<"insert", granted + 1>>]
    BY DEF Exchange
  <1>2. LinkCounts' /\ granted \in Nat
    BY <1>1, MaxTyped DEF Exchange, LinkInv, LinkCounts
  <1>3. RowGrants' = RowGrants
    BY <1>1 DEF RowGrants
  <1>4. RowSound'
    BY <1>1, <1>2, <1>3, GrantsFree DEF LinkInv, RowSound
  <1>5. /\ callback' \in [Callbacks -> Flows] /\ callback'[c] = <<"insert", granted + 1>>
        /\ \A d \in Callbacks \ {c} : callback'[d] = callback[d]
    BY <1>1, <1>2 DEF LinkInv, FlowsSound, Flows
  <1>6. FlowsSound'
    <2>1. \A g \in dropped' : g <= granted'
      BY <1>1, <1>2 DEF LinkInv, LinkCounts, FlowsSound
    <2>2. /\ granted + 1 \notin RowGrants' \cup dropped'
          /\ \A d \in Callbacks \ {c} : callback[d][1] # "idle" => callback[d][2] # granted + 1
      BY <1>1, <1>2, <1>3, GrantsFree
    <2>3. \A r \in Readers : reader[r].with.grant # granted + 1
      BY <1>2 DEF LinkInv, ReadersSound, Readings, GrantTokens
    <2>4. \A d \in Callbacks : callback[d][1] = "idle" => callback[d][2] = 0
      BY DEF LinkInv, FlowsSound, Flows
    <2>5. ASSUME NEW d \in Callbacks, callback'[d][1] # "idle"
          PROVE  /\ callback'[d][2] \in 1..granted'
                 /\ callback'[d][2] \notin RowGrants' \cup dropped'
                 /\ \A r \in Readers : reader'[r].with.grant # callback'[d][2]
                 /\ \A e \in Callbacks \ {d} : callback'[e][2] # callback'[d][2]
      <3>1. CASE d = c
        <4>1. callback'[d][2] = granted + 1 /\ granted + 1 \in 1..granted'
          BY <1>1, <1>2, <1>5, <3>1
        <4>2. \A e \in Callbacks \ {c} : callback[e][2] # granted + 1
          BY <1>2, <2>2, <2>4
        <4> QED
          BY <1>1, <1>5, <2>2, <2>3, <3>1, <4>1, <4>2
      <3>2. CASE d # c
        <4>1. callback'[d] = callback[d] /\ callback[d][1] # "idle"
          BY <1>5, <2>5, <3>2
        <4>2. callback[d][2] \in 1..granted /\ callback[d][2] # granted + 1
          BY <1>2, <4>1 DEF LinkInv, FlowsSound
        <4>3. callback'[d][2] \in 1..granted'
          BY <1>1, <1>2, <4>1, <4>2
        <4>4. \A e \in Callbacks \ {d} : callback'[e][2] # callback'[d][2]
          BY <1>5, <4>1, <4>2 DEF LinkInv, FlowsSound
        <4> QED
          BY <1>1, <1>3, <4>1, <4>3, <4>4 DEF LinkInv, FlowsSound
      <3> QED
        BY <3>1, <3>2
    <2> QED
      BY <1>5, <2>1, <2>5 DEF FlowsSound
  <1>7. ReadersSound'
    <2>1. \A r \in Readers : reader[r].with.grant \in Nat
      BY DEF LinkInv, ReadersSound, Readings, GrantTokens
    <2> QED
      BY <1>1, <1>2, <2>1 DEF LinkInv, ReadersSound
  <1> QED
    BY <1>2, <1>4, <1>6, <1>7 DEF LinkInv

\* The grant of a callback under way may be put into the row, once the callback is over.
LEMMA FlowGrant ==
    ASSUME LinkInv, NEW c \in Callbacks, callback[c][1] # "idle",
           callback' = [callback EXCEPT ![c] = <<"idle", 0>>]
    PROVE  LET g == callback[c][2]
           IN  /\ g \in Nat /\ g # 0 /\ g <= granted /\ g \notin dropped
               /\ \A d \in Callbacks : callback'[d][1] # "idle" => callback'[d][2] \notin {0, g}
  <1>1. /\ callback'[c] = <<"idle", 0>>
        /\ \A d \in Callbacks \ {c} : callback'[d] = callback[d]
    BY DEF LinkInv, FlowsSound
  <1>2. callback[c][2] \in Nat /\ callback[c][2] # 0 /\ callback[c][2] <= granted
    BY DEF LinkInv, LinkCounts, FlowsSound
  <1>3. \A d \in Callbacks : callback'[d][1] # "idle" =>
            /\ callback'[d] = callback[d] /\ callback[d][2] # 0
            /\ callback[d][2] # callback[c][2]
    BY <1>1, NothingsTyped DEF LinkInv, LinkCounts, FlowsSound
  <1> QED
    BY <1>2, <1>3 DEF LinkInv, FlowsSound

LEMMA InsertStep == ASSUME LinkInv, NEW c \in Callbacks, InsertGrant(c) PROVE LinkInv'
  <1> DEFINE g == callback[c][2]
  <1>1. callback[c][1] = "insert" /\ UNCHANGED <<granted, newest, dropped, reader>>
    BY DEF InsertGrant
  <1>2. ASSUME ids < MaxIds, ids' = ids + 1, NEW t \in FreshTokens(g),
               row' = [id |-> ids + 1, kind |-> "oauth", status |-> "connected",
                        access |-> t.access, refresh |-> t.refresh, stale |-> FALSE],
               callback' = [callback EXCEPT ![c] = <<"idle", 0>>]
        PROVE  LinkInv'
    <2>1. LinkCounts' /\ granted <= granted' /\ RequestsShrink /\ ids + 1 \in Nat /\ ids + 1 # 0
      <3>1. RequestsShrink
        BY <1>1, <1>2, Shrinks
      <3>2. LinkCounts' /\ granted <= granted' /\ ids + 1 \in Nat /\ ids + 1 # 0
        BY <1>1, <1>2 DEF LinkInv, LinkCounts
      <3> QED
        BY <3>1, <3>2
    <2>2. /\ g \in Nat /\ g # 0 /\ g <= granted /\ g \notin dropped
          /\ \A d \in Callbacks : callback'[d][1] # "idle" => callback'[d][2] \notin {0, g}
      BY <1>1, <1>2, FlowGrant
    <2> HIDE DEF g
    <2>3. /\ t.access \in GrantTokens /\ t.access.grant = g
          /\ t.refresh \in GrantTokens /\ t.refresh.grant \in {0, g}
          /\ t.refresh = NoToken \/ t.refresh.grant = g
      BY <1>2, <2>2, FreshTyped
    <2>4. /\ row' \in ConnectionRows /\ row'.id = ids + 1 /\ ~row'.stale
          /\ row'.access = t.access /\ row'.refresh = t.refresh
      BY <1>2, <2>1, <2>3 DEF ConnectionRows
    <2>5. RowGrants' \subseteq {0, g}
      BY <2>3, <2>4 DEF RowGrants
    <2>6. \A x \in {0, g} : /\ x <= granted' /\ x \notin dropped
                            /\ \A d \in Callbacks :
                                  callback'[d][1] # "idle" => callback'[d][2] # x
      BY <1>1, <2>2 DEF LinkInv, LinkCounts
    <2>7. row'.refresh.grant = 0 => row'.refresh = NoToken
      BY <2>2, <2>3, <2>4
    <2> QED
      BY <1>1, <1>2, <2>1, <2>4, <2>5, <2>6, <2>7, RowStep
  <1>3. ASSUME callback' = [callback EXCEPT ![c][1] = "update"], UNCHANGED <<row, ids>>
        PROVE  LinkInv'
    <2>1. /\ callback'[c] = [callback[c] EXCEPT ![1] = "update"] /\ callback[c] \in Flows
          /\ \A d \in Callbacks \ {c} : callback'[d] = callback[d]
      BY <1>3 DEF LinkInv, FlowsSound
    <2>2. callback'[c] = <<"update", g>> /\ g \in Nat
      BY <1>1, <2>1 DEF Flows
    <2>3. callback' \in [Callbacks -> Flows]
      BY <1>3, <2>2 DEF LinkInv, FlowsSound, Flows
    <2>4. \A d \in Callbacks : /\ callback'[d][2] = callback[d][2]
                               /\ callback'[d][1] # "idle" => callback[d][1] # "idle"
      BY <1>1, <2>1, <2>2
    <2>5. RowGrants' = RowGrants
      BY <1>3 DEF RowGrants
    <2>6. LinkCounts' /\ RowSound' /\ ReadersSound'
      BY <1>1, <1>3, <2>5 DEF LinkInv, LinkCounts, RowSound, ReadersSound
    <2>7. FlowsSound'
      BY <1>1, <1>3, <2>3, <2>4, <2>5 DEF LinkInv, FlowsSound
    <2> QED
      BY <2>6, <2>7 DEF LinkInv
  <1> QED
    BY <1>2, <1>3 DEF InsertGrant

LEMMA UpdateStep == ASSUME LinkInv, NEW c \in Callbacks, UpdateGrant(c) PROVE LinkInv'
  <1> DEFINE g == callback[c][2]
  <1>1. /\ callback[c][1] = "update" /\ UNCHANGED <<ids, granted, newest, dropped, reader>>
        /\ callback' = [callback EXCEPT ![c] = <<"idle", 0>>]
    BY DEF UpdateGrant
  <1>2. LinkCounts' /\ granted <= granted'
    BY <1>1 DEF LinkInv, LinkCounts
  <1>3. RequestsShrink
    BY <1>1, Shrinks
  <1>4. CASE row' = row
    BY <1>1, <1>2, <1>3, <1>4, RowKept
  <1>5. ASSUME row # NoRow, NEW t \in FreshTokens(g),
               row' = [row EXCEPT !.status = "connected", !.access = t.access,
                                  !.refresh = t.refresh, !.stale = FALSE]
        PROVE  LinkInv'
    <2>1. /\ g \in Nat /\ g # 0 /\ g <= granted /\ g \notin dropped
          /\ \A d \in Callbacks : callback'[d][1] # "idle" => callback'[d][2] \notin {0, g}
      BY <1>1, FlowGrant
    <2> HIDE DEF g
    <2>2. /\ t.access \in GrantTokens /\ t.access.grant = g
          /\ t.refresh \in GrantTokens /\ t.refresh.grant \in {0, g}
          /\ t.refresh = NoToken \/ t.refresh.grant = g
      BY <1>5, <2>1, FreshTyped
    <2>3. row \in ConnectionRows /\ row.id # 0
      BY <1>5 DEF LinkInv, RowSound
    <2>4. /\ row' \in ConnectionRows /\ row'.id = row.id /\ ~row'.stale
          /\ row'.access = t.access /\ row'.refresh = t.refresh
      BY <1>5, <2>2, <2>3 DEF ConnectionRows
    <2>5. RowGrants' \subseteq {0, g}
      BY <2>2, <2>4 DEF RowGrants
    <2>6. \A x \in {0, g} : /\ x <= granted' /\ x \notin dropped
                            /\ \A d \in Callbacks :
                                  callback'[d][1] # "idle" => callback'[d][2] # x
      BY <1>1, <2>1 DEF LinkInv, LinkCounts
    <2>7. row'.refresh.grant = 0 => row'.refresh = NoToken
      BY <2>1, <2>2, <2>4
    <2> QED
      BY <1>1, <1>2, <1>3, <2>3, <2>4, <2>5, <2>6, <2>7, RowStep
  <1> QED
    BY <1>4, <1>5 DEF UpdateGrant

LEMMA CallbackFailsStep == ASSUME LinkInv, NEW c \in Callbacks, CallbackFails(c) PROVE LinkInv'
  <1>1. /\ UNCHANGED <<row, ids, granted, newest, dropped, reader>> /\ RequestsShrink
    BY Shrinks DEF CallbackFails
  <1>2. LinkCounts' /\ granted <= granted'
    BY <1>1 DEF LinkInv, LinkCounts
  <1> QED
    BY <1>1, <1>2, RowKept

\* getValidToken up to its write: the row is looked up, read, and its token renewed.
LEMMA ReadingStep ==
    ASSUME LinkInv, NEW r \in Readers, Lookup(r) \/ Read(r) \/ Renew(r) \/ Refused(r)
    PROVE  LinkInv'
  <1>1. UNCHANGED <<row, ids, granted, dropped, callback>>
    BY DEF Lookup, Read, Renew, Refused
  <1>2. reader[r] \in Readings /\ reader[r].with \in GrantTokens /\ reader[r].of \in Nat
    BY DEF LinkInv, ReadersSound, Readings
  <1>3. newest \in [Grants -> Nat]
    BY DEF LinkInv, LinkCounts
  <1>4. CASE Lookup(r)
    <2> DEFINE new == [step |-> "read", of |-> row.id, with |-> NoToken]
    <2>1. reader' = [reader EXCEPT ![r] = new] /\ UNCHANGED newest
      BY <1>4 DEF Lookup
    <2>2. row.id \in 1..ids
      BY <1>4 DEF Lookup, LinkInv, LinkCounts, RowSound, ConnectionRows
    <2>3. new \in Readings /\ new.with.grant = 0 /\ new.of = row.id /\ new.step = "read"
      BY NothingsTyped, GrantsFree DEF Readings
    <2> HIDE DEF new
    <2> QED
      BY <1>1, <1>3, <2>1, <2>2, <2>3, ReaderStep
  <1>5. CASE Read(r)
    <2> DEFINE new == [reader[r] EXCEPT !.step = "fetch", !.with = row.refresh]
    <2>1. UNCHANGED newest /\ reader[r].step = "read"
      BY <1>5 DEF Read
    <2>2. CASE reader' = [reader EXCEPT ![r] = NoReader]
      BY <1>1, <1>3, <2>1, <2>2, NothingsTyped, ReaderStep
    <2>3. CASE row.stale /\ reader' = [reader EXCEPT ![r] = new]
      <3>1. /\ new \in Readings /\ new.with = row.refresh /\ new.of = reader[r].of
        BY <1>2, GrantsFree DEF Readings
      <3>2. row.refresh.grant \in RowGrants /\ row.refresh.grant # 0
        BY <2>3 DEF RowGrants, LinkInv, RowSound
      <3>3. reader[r].of \in 1..ids /\ row.refresh.grant \notin dropped
        BY <2>1, <3>2, GrantsFree DEF LinkInv, ReadersSound
      <3> HIDE DEF new
      <3> QED
        BY <1>1, <1>3, <2>1, <2>3, <3>1, <3>2, <3>3, ReaderStep
    <2> QED
      BY <1>5, <2>2, <2>3 DEF Read
  <1>6. CASE Renew(r)
    <2> DEFINE t == reader[r].with
               next == Token(t.grant, newest[t.grant] + 1)
               new == [reader[r] EXCEPT !.step = "write", !.with = next]
    <2>1. /\ reader[r].step = "fetch" /\ newest' = [newest EXCEPT ![t.grant] = @ + 1]
          /\ reader' = [reader EXCEPT ![r].step = "write", ![r].with = next]
      BY <1>6 DEF Renew
    <2>2. /\ t.grant \in Nat /\ t.grant # 0 /\ t.grant <= granted
          /\ reader[r].of \in 1..ids /\ (reader[r].of = row.id => t.grant \notin dropped)
      BY <1>2, <2>1 DEF LinkInv, ReadersSound, GrantTokens
    <2>3. t.grant \in Grants
      BY <2>2, MaxTyped DEF Grants, LinkInv, LinkCounts
    <2>4. next \in GrantTokens /\ next.grant = t.grant
      BY <1>3, <2>2, <2>3 DEF Token, GrantTokens
    <2>5. newest' \in [Grants -> Nat]
      BY <1>3, <2>1, <2>3
    <2> HIDE DEF next
    <2>6. reader' = [reader EXCEPT ![r] = new]
      BY <2>1 DEF LinkInv, ReadersSound
    <2>7. new \in Readings /\ new.with = next /\ new.of = reader[r].of /\ new.step = "write"
      BY <1>2, <2>4 DEF Readings
    <2> HIDE DEF new
    <2> QED
      BY <1>1, <2>2, <2>4, <2>5, <2>6, <2>7, ReaderStep
  <1>7. CASE Refused(r)
    <2> DEFINE new == [reader[r] EXCEPT !.step = "fail"]
    <2>1. /\ reader[r].step = "fetch" /\ UNCHANGED newest
          /\ reader' = [reader EXCEPT ![r] = new]
      BY <1>7 DEF Refused
    <2>2. /\ new \in Readings /\ new.with = reader[r].with /\ new.of = reader[r].of
          /\ new.step = "fail"
      BY <1>2 DEF Readings
    <2>3. reader[r].of \in 1..ids
      BY <2>1 DEF LinkInv, ReadersSound
    <2> HIDE DEF new
    <2> QED
      BY <1>1, <1>3, <2>1, <2>2, <2>3, ReaderStep
  <1> QED
    BY <1>4, <1>5, <1>6, <1>7

\* The write of the renewed token: by the id that was read, to a row that is still there.
LEMMA WriteStep == ASSUME LinkInv, NEW r \in Readers, WriteTokens(r) PROVE LinkInv'
  <1> DEFINE t == reader[r].with
  <1>1. /\ reader[r].step = "write" /\ reader' = [reader EXCEPT ![r] = NoReader]
        /\ UNCHANGED <<ids, granted, newest, dropped, callback>> /\ RequestsShrink
    BY Shrinks DEF WriteTokens
  <1>2. LinkCounts' /\ granted <= granted'
    BY <1>1 DEF LinkInv, LinkCounts
  <1>3. CASE row' = row
    BY <1>1, <1>2, <1>3, RowKept
  <1>4. ASSUME row.id = reader[r].of, NEW expiry \in {FALSE, row.stale},
               row' = [row EXCEPT !.status = "connected", !.access = t,
                                  !.refresh = IF Rotates THEN t ELSE @, !.stale = expiry]
        PROVE  LinkInv'
    <2>1. t \in GrantTokens /\ row \in ConnectionRows
      BY DEF LinkInv, RowSound, ReadersSound, Readings
    <2>2. t.grant # 0 /\ t.grant <= granted /\ t.grant \notin dropped /\ row.id # 0
      BY <1>1, <1>4 DEF LinkInv, LinkCounts, ReadersSound
    <2>3. \A c \in Callbacks : callback[c][1] # "idle" => callback[c][2] # t.grant
      BY DEF LinkInv, FlowsSound
    <2> HIDE DEF t
    <2>4. /\ row' \in ConnectionRows /\ row'.id = row.id /\ row'.access = t
          /\ row'.refresh \in {row.refresh, t} /\ row'.stale \in {FALSE, row.stale}
      BY <1>4, <2>1 DEF ConnectionRows
    <2>5. RowGrants' \subseteq RowGrants \cup {t.grant}
      BY <2>4 DEF RowGrants
    <2>6. \A g \in RowGrants' : /\ g <= granted' /\ g \notin dropped
                                /\ \A c \in Callbacks :
                                      callback'[c][1] # "idle" => callback'[c][2] # g
      BY <1>1, <2>2, <2>3, <2>5, GrantsFree
    <2>7. /\ row'.stale => row'.refresh.grant # 0
          /\ row'.refresh.grant = 0 => row'.refresh = NoToken
      <3>1. /\ row.stale => row.refresh.grant # 0
            /\ row.refresh.grant = 0 => row.refresh = NoToken
        BY DEF LinkInv, RowSound
      <3> QED
        BY <2>2, <2>4, <3>1
    <2> QED
      BY <1>1, <1>2, <2>2, <2>4, <2>6, <2>7, RowStep
  <1> QED
    BY <1>3, <1>4 DEF WriteTokens, Still

LEMMA LinkStep == ASSUME LinkInv, [LinkNext]_linkVars PROVE LinkInv'
  <1>1. CASE UNCHANGED linkVars
    <2>1. LinkCounts' /\ granted <= granted' /\ RequestsShrink
          /\ UNCHANGED <<row, ids, dropped>>
      BY <1>1, Shrinks DEF linkVars, LinkInv, LinkCounts
    <2> QED
      BY <2>1, RowKept
  <1>2. CASE RouteNext
    BY <1>2, CreateStep, DeleteStep, StatusStep, ReplaceStep DEF RouteNext
  <1>3. ASSUME NEW c \in Callbacks, CallbackNext(c) PROVE LinkInv'
    BY <1>3, ExchangeStep, InsertStep, UpdateStep, CallbackFailsStep DEF CallbackNext
  <1>4. ASSUME NEW r \in Readers, ReaderNext(r) PROVE LinkInv'
    BY <1>4, ReadingStep, WriteStep, StatusStep DEF ReaderNext
  <1> QED
    BY <1>1, <1>2, <1>3, <1>4 DEF LinkNext

LEMMA LinkStart == LinkInit => LinkInv
  <1> SUFFICES ASSUME LinkInit PROVE LinkInv
    OBVIOUS
  <1>1. LinkCounts
    BY MaxTyped DEF LinkInit, LinkCounts
  <1>2. RowSound
    BY NothingsTyped DEF LinkInit, RowSound, RowGrants
  <1>3. FlowsSound
    BY NothingsTyped DEF LinkInit, FlowsSound
  <1>4. ReadersSound
    BY NothingsTyped DEF LinkInit, ReadersSound
  <1> QED
    BY <1>1, <1>2, <1>3, <1>4 DEF LinkInv

\* DELETE of a connection is final for its tokens, however many refreshes, callbacks and
\* new connections of the same user and tool are under way (DeletedStaysGone).
THEOREM DeletedGrantsStayGone == LinkSpec => []DeletedStaysGone
  <1>1. LinkInv => DeletedStaysGone
    BY DEF LinkInv, RowSound, RowGrants, DeletedStaysGone
  <1> QED
    BY <1>1, LinkStart, LinkStep, PTL DEF LinkSpec

LEMMA LinkBounds ==
    /\ MaxGrants \in Nat /\ MaxIds \in Nat /\ MaxRenewals \in Nat /\ MaxLinkFaults \in Nat
    /\ NoToken \in Tokens /\ NoRow \in Rows
    /\ \A g \in Grants, n \in 0..MaxRenewals : Token(g, n) \in Tokens
    /\ \A g \in Grants :
          \A t \in FreshTokens(g) : t.access \in Tokens /\ t.refresh \in Tokens
    /\ LinkFault /\ linkFaults \in 0..MaxLinkFaults => linkFaults' \in 0..MaxLinkFaults
  <1>1. /\ MaxGrants \in Nat /\ MaxIds \in Nat /\ MaxRenewals \in Nat /\ MaxLinkFaults \in Nat
    BY ConnectionsAssumption
  <1>2. NoToken \in Tokens
    BY <1>1 DEF NoToken, Tokens
  <1>3. NoRow \in Rows
    BY <1>1, <1>2 DEF NoRow, Rows
  <1>4. ASSUME NEW g \in Grants, NEW n \in 0..MaxRenewals PROVE Token(g, n) \in Tokens
    BY <1>1 DEF Token, Tokens, Grants
  <1>5. ASSUME NEW g \in Grants, NEW t \in FreshTokens(g)
        PROVE  t.access \in Tokens /\ t.refresh \in Tokens
    <2>1. 0 \in 0..MaxRenewals
      BY <1>1
    <2>2. Token(g, 0) \in Tokens
      BY <1>4, <2>1
    <2> QED
      BY <1>2, <2>2 DEF FreshTokens
  <1>6. LinkFault /\ linkFaults \in 0..MaxLinkFaults => linkFaults' \in 0..MaxLinkFaults
    BY <1>1 DEF LinkFault
  <1> QED
    BY <1>1, <1>2, <1>3, <1>4, <1>5, <1>6

\* An update of the row in place.
LEMMA RowUpdated ==
    ASSUME NEW old \in Rows, NEW a \in Tokens, NEW t \in Tokens, NEW expiry \in BOOLEAN,
           NEW status \in {"none", "connected", "expired", "errored"}
    PROVE  /\ [old EXCEPT !.status = status, !.access = a, !.refresh = t, !.stale = expiry] \in Rows
           /\ [old EXCEPT !.status = status] \in Rows
           /\ [old EXCEPT !.stale = expiry] \in Rows
  BY DEF Rows

LEMMA RouteTypes == ASSUME LinkTypeOK, RouteNext PROVE LinkTypeOK'
  <1> USE DEF LinkTypeOK
  <1>1. ASSUME NEW kind \in {"oauth", "api_key"}, Create(kind) PROVE LinkTypeOK'
    <2>1. granted + 1 \in Grants /\ granted' \in 0..MaxGrants
      BY <1>1, LinkBounds DEF Create, Grants
    <2>2. UNCHANGED <<newest, dropped, linkFaults, reader, callback>>
      BY <1>1 DEF Create, RequestsUnchanged
    <2>3. CASE UNCHANGED <<row, ids>>
      BY <2>1, <2>2, <2>3
    <2>4. ASSUME ids < MaxIds, ids' = ids + 1, NEW t \in FreshTokens(granted + 1),
                 row' = [id |-> ids + 1, kind |-> kind, status |-> "connected",
                         access |-> IF kind = "oauth" THEN t.access ELSE NoToken,
                         refresh |-> IF kind = "oauth" THEN t.refresh ELSE NoToken,
                         stale |-> FALSE]
          PROVE  row' \in Rows /\ ids' \in 0..MaxIds
      <3>1. ids + 1 \in 0..MaxIds
        BY <2>4, LinkBounds
      <3>2. t.access \in Tokens /\ t.refresh \in Tokens /\ NoToken \in Tokens
        BY <2>1, LinkBounds
      <3> QED
        BY <2>4, <3>1, <3>2 DEF Rows
    <2> QED
      BY <1>1, <2>1, <2>2, <2>3, <2>4 DEF Create
  <1>2. CASE Delete
    <2>1. row.access.grant \in 0..MaxGrants /\ row.refresh.grant \in 0..MaxGrants
      BY DEF Rows, Tokens
    <2>3. {row.access.grant, row.refresh.grant} \ {0} \subseteq Grants
      BY <2>1, LinkBounds DEF Grants
    <2>2. dropped' \subseteq Grants
      BY <1>2, <2>3 DEF Delete
    <2> QED
      BY <1>2, <2>2, LinkBounds DEF Delete, RequestsUnchanged
  <1>3. CASE TestFails
    BY <1>3, LinkBounds, RowUpdated DEF TestFails, RequestsUnchanged
  <1>4. CASE GrowsStale
    BY <1>4, LinkBounds, RowUpdated DEF GrowsStale, RequestsUnchanged
  <1>5. ASSUME NEW id \in 1..MaxIds, Replace(id) PROVE LinkTypeOK'
    <2>1. granted + 1 \in Grants /\ granted' \in 0..MaxGrants
      BY <1>5, LinkBounds DEF Replace, Grants
    <2>2. UNCHANGED <<ids, newest, dropped, linkFaults, reader, callback>>
      BY <1>5 DEF Replace, RequestsUnchanged
    <2>3. PICK t \in FreshTokens(granted + 1), expiry \in {FALSE, row.stale} :
              row' = [row EXCEPT !.status = "connected", !.access = t.access, !.stale = expiry,
                                 !.refresh = IF t.refresh = NoToken THEN @ ELSE t.refresh]
      BY <1>5 DEF Replace
    <2>4. t.access \in Tokens /\ t.refresh \in Tokens /\ row.refresh \in Tokens
      BY <2>1, LinkBounds DEF Rows
    <2>5. expiry \in BOOLEAN
      BY DEF Rows
    <2>6. row' \in Rows
      BY <2>3, <2>4, <2>5 DEF Rows
    <2> QED
      BY <2>1, <2>2, <2>6
  <1> QED
    BY <1>1, <1>2, <1>3, <1>4, <1>5 DEF RouteNext

LEMMA CallbackTypes ==
    ASSUME LinkTypeOK, NEW c \in Callbacks, CallbackNext(c)
    PROVE  LinkTypeOK'
  <1> DEFINE Goings == {"idle"} \X {0} \cup {"insert", "update"} \X Grants
  <1> USE DEF LinkTypeOK
  <1>1. CASE Exchange(c)
    <2>1. granted + 1 \in Grants /\ granted' \in 0..MaxGrants
      BY <1>1, LinkBounds DEF Exchange, Grants
    <2> QED
      BY <1>1, <2>1 DEF Exchange
  <1>2. callback[c][1] # "idle" => callback[c][2] \in Grants
    BY DEF LinkTypeOK
  <1>3. CASE InsertGrant(c)
    <2>1. UNCHANGED <<granted, newest, dropped, reader, linkFaults>> /\ callback[c][2] \in Grants
      BY <1>2, <1>3 DEF InsertGrant
    <2>2. CASE UNCHANGED <<row, ids>> /\ callback' = [callback EXCEPT ![c][1] = "update"]
      <3>1. <<"update", callback[c][2]>> \in Goings
        BY <2>1
      <3>2. callback[c] = <<callback[c][1], callback[c][2]>>
        OBVIOUS
      <3>3. [callback[c] EXCEPT ![1] = "update"] = <<"update", callback[c][2]>>
        BY <3>2
      <3> QED
        BY <2>1, <2>2, <3>1, <3>3
    <2>3. ASSUME ids < MaxIds, ids' = ids + 1, NEW t \in FreshTokens(callback[c][2]),
                 row' = [id |-> ids + 1, kind |-> "oauth", status |-> "connected",
                        access |-> t.access, refresh |-> t.refresh, stale |-> FALSE],
                 callback' = [callback EXCEPT ![c] = <<"idle", 0>>]
          PROVE  LinkTypeOK'
      <3>1. ids + 1 \in 0..MaxIds
        BY <2>3, LinkBounds
      <3>2. t.access \in Tokens /\ t.refresh \in Tokens
        BY <2>1, LinkBounds
      <3>3. row' \in Rows
        BY <2>3, <3>1, <3>2 DEF Rows
      <3> QED
        BY <2>1, <2>3, <3>1, <3>3
    <2> QED
      BY <1>3, <2>2, <2>3 DEF InsertGrant
  <1>4. CASE UpdateGrant(c)
    <2>1. PICK t \in FreshTokens(callback[c][2]) :
              row' = IF row = NoRow THEN row
                     ELSE [row EXCEPT !.status = "connected", !.access = t.access,
                                      !.refresh = t.refresh, !.stale = FALSE]
      BY <1>4 DEF UpdateGrant
    <2>2. t.access \in Tokens /\ t.refresh \in Tokens
      BY <1>2, <1>4, LinkBounds DEF UpdateGrant
    <2>3. row' \in Rows
      BY <2>1, <2>2, RowUpdated
    <2> QED
      BY <1>4, <2>3 DEF UpdateGrant
  <1>5. CASE CallbackFails(c)
    BY <1>5, LinkBounds DEF CallbackFails
  <1> QED
    BY <1>1, <1>3, <1>4, <1>5 DEF CallbackNext

LEMMA ReaderTypes ==
    ASSUME LinkInv, LinkTypeOK, NEW r \in Readers, ReaderNext(r)
    PROVE  LinkTypeOK'
  <1> DEFINE Looks == [step : {"idle", "read", "fetch", "write", "fail"},
                       of : 0..MaxIds, with : Tokens]
  <1> USE DEF LinkTypeOK
  <1>1. /\ NoReader \in Looks /\ reader[r] \in Looks /\ row.id \in 0..MaxIds
        /\ row.refresh \in Tokens /\ row.stale \in BOOLEAN
    BY LinkBounds DEF NoReader, Rows
  <1>2. CASE Lookup(r)
    BY <1>1, <1>2, LinkBounds DEF Lookup
  <1>3. CASE Read(r)
    BY <1>1, <1>3 DEF Read
  <1>4. CASE Renew(r)
    <2>1. reader[r].with.grant \in Grants
      <3>1. reader[r].with.grant # 0
        BY <1>4 DEF Renew, LinkInv, ReadersSound
      <3>2. reader[r].with.grant \in 0..MaxGrants
        BY <1>1 DEF Tokens
      <3> QED
        BY <3>1, <3>2, LinkBounds DEF Grants
    <2> DEFINE g == reader[r].with.grant
               n == newest[g] + 1
    <2>2. n \in 0..MaxRenewals
      BY <1>4, <2>1, LinkBounds DEF Renew, Accepts
    <2>3. Token(g, n) \in Tokens
      BY <2>1, <2>2, LinkBounds
    <2>4. /\ newest' = [newest EXCEPT ![g] = n]
          /\ reader' = [reader EXCEPT ![r].step = "write", ![r].with = Token(g, n)]
          /\ UNCHANGED <<row, ids, granted, dropped, callback, linkFaults>>
      BY <1>4 DEF Renew
    <2> HIDE DEF g, n
    <2> QED
      BY <1>1, <2>2, <2>3, <2>4
  <1>5. CASE Refused(r)
    BY <1>1, <1>5, LinkBounds DEF Refused
  <1>6. CASE WriteTokens(r)
    <2>1. PICK expiry \in {FALSE, row.stale} :
              row' = IF Still(reader[r].of)
                       THEN [row EXCEPT !.status = "connected", !.access = reader[r].with,
                                        !.refresh = IF Rotates THEN reader[r].with ELSE @,
                                        !.stale = expiry]
                       ELSE row
      BY <1>6 DEF WriteTokens
    <2>2. expiry \in BOOLEAN /\ reader[r].with \in Tokens
      BY <1>1
    <2>3. row' \in Rows
      BY <1>1, <2>1, <2>2 DEF Rows
    <2> QED
      BY <1>1, <1>6, <2>3 DEF WriteTokens
  <1>7. CASE MarkExpired(r)
    BY <1>1, <1>7, LinkBounds, RowUpdated DEF MarkExpired
  <1> QED
    BY <1>2, <1>3, <1>4, <1>5, <1>6, <1>7 DEF ReaderNext

LEMMA LinkTypeStep == ASSUME LinkInv, LinkTypeOK, [LinkNext]_linkVars PROVE LinkTypeOK'
  <1>1. CASE UNCHANGED linkVars
    BY <1>1 DEF linkVars, LinkTypeOK
  <1> QED
    BY <1>1, RouteTypes, CallbackTypes, ReaderTypes DEF LinkNext

LEMMA LinkTypeStart == LinkInit => LinkTypeOK
  <1> SUFFICES ASSUME LinkInit PROVE LinkTypeOK
    OBVIOUS
  <1>1. NoReader \in [step : {"idle", "read", "fetch", "write", "fail"},
                      of : 0..MaxIds, with : Tokens]
    BY LinkBounds DEF NoReader
  <1> QED
    BY <1>1, LinkBounds DEF LinkInit, LinkTypeOK

\* getValidToken only renews tokens of a grant that was handed out, so that what it writes
\* back is a token: the row, the requests and the counters keep their types (LinkTypeOK).
THEOREM LinkTyped == LinkSpec => []LinkTypeOK
  BY LinkStart, LinkStep, LinkTypeStart, LinkTypeStep, PTL DEF LinkSpec

-------------------------------------------------------------------------------
(* The councils. *)

JudgeTypes ==
    /\ council \in [Agents -> Nat]
    /\ poll \in [EvolutionPolls -> [todo : SUBSET Runs, bot : Agents \cup {Stranger}]]

LEMMA BotsTyped ==
    Stranger \notin Agents /\ \A run \in Runs : AgentOf[run] \in Agents \cup {Stranger}
  BY EvolutionAssumption

\* Each step leaves the polls and councils as they are, moves them as the code does, or
\* is the restart.
LEMMA JudgeTypesStep == JudgeTypes /\ [EvolutionNext]_evolutionVars => JudgeTypes'
  <1> SUFFICES ASSUME JudgeTypes, [EvolutionNext]_evolutionVars PROVE JudgeTypes'
    OBVIOUS
  <1>1. CASE UNCHANGED worldVars
    BY <1>1 DEF worldVars, JudgeTypes
  <1>2. CASE AkasaCrash
    BY <1>2 DEF AkasaCrash, JudgeTypes
  <1>3. ASSUME NEW p \in EvolutionPolls, Poll(p) PROVE JudgeTypes'
    BY <1>3 DEF Poll, JudgeTypes
  <1>4. ASSUME NEW p \in EvolutionPolls, NEW run \in Runs, LookAt(p, run) PROVE JudgeTypes'
    BY <1>4, BotsTyped DEF LookAt, JudgeTypes
  <1>5. ASSUME NEW p \in EvolutionPolls, Convene(p) PROVE JudgeTypes'
    BY <1>5 DEF Convene, JudgeTypes
  <1>6. ASSUME NEW b \in Agents, Verdict(b) \/ CouncilFails(b) PROVE JudgeTypes'
    BY <1>6 DEF Verdict, CouncilFails, JudgeTypes
  <1>7. CASE \E run \in Runs : RunPasses(run)
    BY <1>7 DEF RunPasses, JudgeTypes
  <1>8. CASE \E r \in Requests : RequestNext(r)
    BY <1>1, <1>8 DEF RequestNext, Ask, Confirm, Reject, RequestFails, Load, MoveClass,
                      ReadDna, WriteDna, Signal, ReadPioneer, WritePioneer, ReadSkill,
                      WriteSkill, Stamp, LayerUnchanged
  <1>9. CASE UNCHANGED evolutionVars
    BY <1>1, <1>9 DEF evolutionVars
  <1> QED
    BY <1>2, <1>3, <1>4, <1>5, <1>6, <1>7, <1>8, <1>9 DEF EvolutionNext, JudgingNext

\* A bot with a verdict that nobody is judging stays so.
LEMMA RestStays ==
    ASSUME JudgeTypes, [EvolutionNext]_evolutionVars,
           NEW b \in Agents, VerdictsOn(b) # {}, AtRest(b)
    PROVE  AtRest(b)'
  <1>1. CASE UNCHANGED worldVars
    BY <1>1 DEF worldVars, AtRest
  <1>2. CASE AkasaCrash
    BY <1>2, BotsTyped DEF AkasaCrash, AtRest
  <1>3. ASSUME NEW p \in EvolutionPolls, Poll(p) PROVE AtRest(b)'
    BY <1>3 DEF Poll, JudgeTypes, AtRest
  <1>4. ASSUME NEW p \in EvolutionPolls, NEW run \in Runs, LookAt(p, run) PROVE AtRest(b)'
    <2>1. ~Judges(b)
      BY DEF VerdictsOn, Judges
    <2>2. UNCHANGED council /\ \A q \in EvolutionPolls : q # p => poll'[q] = poll[q]
      BY <1>4 DEF LookAt, JudgeTypes
    <2>3. poll'[p].bot # b
      <3>1. poll'[p].bot \in {poll[p].bot, Stranger}
                               \cup {x \in {AgentOf[run]} : Judges(x)}
        BY <1>4 DEF LookAt, JudgeTypes
      <3> QED
        BY <2>1, <3>1, BotsTyped DEF AtRest
    <2> QED
      BY <2>2, <2>3 DEF AtRest
  <1>5. ASSUME NEW p \in EvolutionPolls, Convene(p) PROVE AtRest(b)'
    <2>1. poll[p].bot # b /\ council'[b] = council[b]
      BY <1>5 DEF Convene, JudgeTypes, AtRest
    <2>2. \A q \in EvolutionPolls : poll'[q].bot \in {poll[q].bot, Stranger}
      BY <1>5 DEF Convene, JudgeTypes
    <2> QED
      BY <2>1, <2>2, BotsTyped DEF AtRest
  <1>6. ASSUME NEW a \in Agents, Verdict(a) \/ CouncilFails(a) PROVE AtRest(b)'
    <2>1. council[a] > 0 /\ UNCHANGED poll /\ council' = [council EXCEPT ![a] = @ - 1]
      BY <1>6 DEF Verdict, CouncilFails
    <2> QED
      BY <2>1 DEF AtRest, JudgeTypes
  <1>7. CASE \E run \in Runs : RunPasses(run)
    BY <1>7 DEF RunPasses, AtRest
  <1>8. CASE \E r \in Requests : RequestNext(r)
    BY <1>1, <1>8 DEF RequestNext, Ask, Confirm, Reject, RequestFails, Load, MoveClass,
                      ReadDna, WriteDna, Signal, ReadPioneer, WritePioneer, ReadSkill,
                      WriteSkill, Stamp, LayerUnchanged
  <1>9. CASE UNCHANGED evolutionVars
    BY <1>1, <1>9 DEF evolutionVars
  <1> QED
    BY <1>2, <1>3, <1>4, <1>5, <1>6, <1>7, <1>8, <1>9 DEF EvolutionNext, JudgingNext

\* checkAndTriggerCouncilEvaluations, for every number of overlapping polls: once a bot
\* has a verdict and no council is left on it, none is ever convened again (JudgedOnce).
THEOREM BotsJudgedOnce == EvolutionSpec => JudgedOnce
  <1>1. EvolutionInit => JudgeTypes
    BY DEF EvolutionInit, JudgeTypes
  <1>2. JudgeTypes /\ [EvolutionNext]_evolutionVars
            => [\A b \in Agents : VerdictsOn(b) # {} /\ AtRest(b) => AtRest(b)']_evolutionVars
    BY RestStays
  <1> QED
    BY <1>1, <1>2, JudgeTypesStep, PTL DEF EvolutionSpec, JudgedOnce

-------------------------------------------------------------------------------
(* executeGodLayer. *)

Effectful == {"dnaRead", "dnaWrite", "pioneerRead", "pioneerWrite"}
PastSignal == {"skillRead", "skillWrite", "stamp"}

RequestTyped ==
    /\ verdicts \in Seq(VerdictRows)
    /\ \A r \in Requests :
          /\ request[r].step # "none" => request[r].on \in 1..Len(verdicts)
          /\ request[r].step \in Effectful => ~Negative(On(r))
LayerTypes ==
    /\ request = [r \in Requests |->
                     [step |-> request[r].step, on |-> request[r].on, read |-> request[r].read]]
    /\ signals \in [Agents -> Nat] /\ akasaFaults \in Nat

\* The negative verdicts on a bot that are stamped, or in a request that has been past the
\* insert into the register and still has the stamp ahead of it.
Signalled(b) ==
    {i \in 1..Len(verdicts) :
        /\ verdicts[i].bot = b /\ Negative(verdicts[i])
        /\ \/ verdicts[i].stamped
           \/ \E r \in Requests : request[r].step \in PastSignal /\ request[r].on = i}

SignalsCover == \A b \in Agents : Cardinality(Signalled(b)) <= signals[b] + akasaFaults

LayerInv == RequestTyped /\ LayerTypes /\ SignalsCover

LEMMA SignalledFinite ==
    ASSUME verdicts \in Seq(VerdictRows), NEW b
    PROVE  /\ IsFiniteSet(Signalled(b)) /\ Cardinality(Signalled(b)) \in Nat
           /\ \A S \in SUBSET Signalled(b) : Cardinality(S) <= Cardinality(Signalled(b))
  <1>1. Len(verdicts) \in Nat
    BY LenProperties
  <1>2. IsFiniteSet(1..Len(verdicts))
    BY <1>1, FS_Interval
  <1>3. Signalled(b) \subseteq 1..Len(verdicts)
    BY DEF Signalled
  <1>4. IsFiniteSet(Signalled(b))
    BY <1>2, <1>3, FS_Subset
  <1> QED
    BY <1>4, FS_CardinalityType, FS_Subset

\* A step that carries no further verdict past the insert.
LEMMA NoneSignalled ==
    ASSUME LayerInv, RequestTyped', LayerTypes', UNCHANGED signals, akasaFaults <= akasaFaults',
           \A b \in Agents : Signalled(b)' \subseteq Signalled(b)
    PROVE  LayerInv'
  <1>1. ASSUME NEW b \in Agents
        PROVE  Cardinality(Signalled(b)') <= signals'[b] + akasaFaults'
    <2>1. /\ IsFiniteSet(Signalled(b)) /\ Cardinality(Signalled(b)) \in Nat
          /\ Cardinality(Signalled(b)') <= Cardinality(Signalled(b))
      BY SignalledFinite DEF LayerInv, RequestTyped
    <2>2. IsFiniteSet(Signalled(b)') /\ Cardinality(Signalled(b)') \in Nat
      BY <2>1, FS_Subset, FS_CardinalityType
    <2>3. /\ signals[b] \in Nat /\ akasaFaults \in Nat /\ akasaFaults' \in Nat
          /\ signals'[b] = signals[b]
      BY DEF LayerInv, LayerTypes
    <2>4. Cardinality(Signalled(b)) <= signals[b] + akasaFaults
      BY DEF LayerInv, SignalsCover
    <2> QED
      BY <2>1, <2>2, <2>3, <2>4
  <1> QED
    BY <1>1 DEF LayerInv, SignalsCover

\* The insert, or its failure: one verdict more, with its row or its fault.
LEMMA OneSignalled ==
    ASSUME LayerInv, RequestTyped', LayerTypes', NEW b \in Agents, NEW i,
           Signalled(b)' \subseteq Signalled(b) \cup {i},
           \A a \in Agents \ {b} : Signalled(a)' \subseteq Signalled(a),
           \/ signals' = [signals EXCEPT ![b] = @ + 1] /\ UNCHANGED akasaFaults
           \/ akasaFaults' = akasaFaults + 1 /\ UNCHANGED signals
    PROVE  LayerInv'
  <1>1. ASSUME NEW a \in Agents
        PROVE  Cardinality(Signalled(a)') <= signals'[a] + akasaFaults'
    <2>1. /\ IsFiniteSet(Signalled(a)) /\ Cardinality(Signalled(a)) \in Nat
          /\ Cardinality(Signalled(a)) <= signals[a] + akasaFaults
      BY SignalledFinite DEF LayerInv, RequestTyped, SignalsCover
    <2>2. /\ signals[a] \in Nat /\ akasaFaults \in Nat
          /\ signals'[a] + akasaFaults' >= signals[a] + akasaFaults
          /\ a = b => signals'[a] + akasaFaults' = signals[a] + akasaFaults + 1
          /\ signals'[a] \in Nat /\ akasaFaults' \in Nat
      BY DEF LayerInv, LayerTypes
    <2>3. CASE a # b
      <3>1. IsFiniteSet(Signalled(a)') /\ Cardinality(Signalled(a)') <= Cardinality(Signalled(a))
        BY <2>1, <2>3, FS_Subset
      <3>2. Cardinality(Signalled(a)') \in Nat
        BY <3>1, FS_CardinalityType
      <3> QED
        BY <2>1, <2>2, <3>1, <3>2
    <2>4. CASE a = b
      <3> DEFINE more == Signalled(a) \cup {i}
      <3>1. IsFiniteSet(more) /\ Cardinality(more) <= Cardinality(Signalled(a)) + 1
        BY <2>1, FS_AddElement
      <3>2. /\ IsFiniteSet(Signalled(a)') /\ Cardinality(Signalled(a)') <= Cardinality(more)
        BY <2>4, <3>1, FS_Subset
      <3>3. Cardinality(Signalled(a)') \in Nat /\ Cardinality(more) \in Nat
        BY <3>1, <3>2, FS_CardinalityType
      <3> HIDE DEF more
      <3> QED
        BY <2>1, <2>2, <2>4, <3>1, <3>2, <3>3
    <2> QED
      BY <2>3, <2>4
  <1> QED
    BY <1>1 DEF LayerInv, SignalsCover

\* The verdicts may be answered and new ones come; a stamp goes on one that is signalled.
VerdictsKept ==
    /\ verdicts' \in Seq(VerdictRows) /\ Len(verdicts) <= Len(verdicts')
    /\ \A i \in 1..Len(verdicts) :
          /\ verdicts'[i].bot = verdicts[i].bot /\ verdicts'[i].type = verdicts[i].type
          /\ verdicts'[i].stamped =>
                \/ verdicts[i].stamped
                \/ \E r \in Requests : request[r].step \in PastSignal /\ request[r].on = i
    /\ \A i \in (1..Len(verdicts')) \ (1..Len(verdicts)) : ~verdicts'[i].stamped

\* Where a request may be, seen from where it was: on a verdict, past the insert only if it
\* was there already or had nothing to insert.
RequestMay(r, step, on) ==
    /\ step # "none" => on \in 1..Len(verdicts)
    /\ step \in PastSignal =>
          \/ request[r].step \in PastSignal /\ on = request[r].on
          \/ ~Negative(verdicts[on])
    /\ step \in Effectful => ~Negative(verdicts[on])

LEMMA QuietStep ==
    ASSUME LayerInv, LayerTypes', VerdictsKept, UNCHANGED signals, akasaFaults <= akasaFaults',
           \A r \in Requests : RequestMay(r, request'[r].step, request'[r].on)
    PROVE  LayerInv'
  <1>1. Len(verdicts) \in Nat /\ Len(verdicts') \in Nat
    BY LenProperties DEF LayerInv, RequestTyped, VerdictsKept
  <1>2. 1..Len(verdicts) \subseteq 1..Len(verdicts')
    BY <1>1 DEF VerdictsKept
  <1>3. \A i \in 1..Len(verdicts) : Negative(verdicts'[i]) <=> Negative(verdicts[i])
    BY DEF VerdictsKept, Negative
  <1>4. RequestTyped'
    <2>1. ASSUME NEW r \in Requests
          PROVE  /\ request'[r].step # "none" => request'[r].on \in 1..Len(verdicts')
                 /\ request'[r].step \in Effectful => ~Negative(verdicts'[request'[r].on])
      <3>1. request'[r].step \in Effectful => request'[r].step # "none"
        BY DEF Effectful
      <3> QED
        BY <1>2, <1>3, <3>1 DEF RequestMay
    <2> QED
      BY <2>1 DEF RequestTyped, VerdictsKept, On
  <1>5. ASSUME NEW b \in Agents, NEW i \in Signalled(b)' PROVE i \in Signalled(b)
    <2>1. /\ i \in 1..Len(verdicts') /\ verdicts'[i].bot = b /\ Negative(verdicts'[i])
          /\ \/ verdicts'[i].stamped
             \/ \E r \in Requests : request'[r].step \in PastSignal /\ request'[r].on = i
      BY <1>5 DEF Signalled
    <2>2. CASE verdicts'[i].stamped
      <3>1. i \in 1..Len(verdicts)
        BY <2>1, <2>2 DEF VerdictsKept
      <3> QED
        BY <1>3, <2>1, <2>2, <3>1 DEF VerdictsKept, Signalled
    <2>3. ASSUME NEW r \in Requests, request'[r].step \in PastSignal, request'[r].on = i
          PROVE  i \in Signalled(b)
      <3>1. request'[r].step # "none"
        BY <2>3 DEF PastSignal
      <3>2. i \in 1..Len(verdicts) /\ verdicts[i].bot = b /\ Negative(verdicts[i])
        BY <1>3, <2>1, <2>3, <3>1 DEF RequestMay, VerdictsKept
      <3>3. request[r].step \in PastSignal /\ request[r].on = i
        BY <2>3, <3>2 DEF RequestMay
      <3> QED
        BY <3>2, <3>3 DEF Signalled
    <2> QED
      BY <2>1, <2>2, <2>3
  <1> QED
    BY <1>4, <1>5, NoneSignalled

LEMMA VerdictsStay == ASSUME LayerInv, UNCHANGED verdicts PROVE VerdictsKept
  <1>1. Len(verdicts) \in Nat /\ verdicts \in Seq(VerdictRows)
    BY LenProperties DEF LayerInv, RequestTyped
  <1> QED
    BY <1>1 DEF VerdictsKept

\* A status is written, or a stamp on a verdict that is signalled.
LEMMA VerdictWritten ==
    ASSUME LayerInv, NEW i \in 1..Len(verdicts), NEW row1 \in VerdictRows,
           verdicts' = [verdicts EXCEPT ![i] = row1],
           row1.bot = verdicts[i].bot, row1.type = verdicts[i].type,
           \/ row1.stamped = verdicts[i].stamped
           \/ \E r \in Requests : request[r].step \in PastSignal /\ request[r].on = i
    PROVE  VerdictsKept
  <1>1. verdicts \in Seq(VerdictRows) /\ Len(verdicts) \in Nat
    BY LenProperties DEF LayerInv, RequestTyped
  <1>2. /\ verdicts' \in Seq(VerdictRows) /\ Len(verdicts') = Len(verdicts)
        /\ \A j \in 1..Len(verdicts) : verdicts'[j] = IF j = i THEN row1 ELSE verdicts[j]
    BY <1>1, ExceptSeq
  <1> QED
    BY <1>1, <1>2 DEF VerdictsKept

LEMMA RequestsStay ==
    ASSUME LayerInv, NEW r \in Requests
    PROVE  RequestMay(r, request[r].step, request[r].on)
  BY DEF LayerInv, RequestTyped, RequestMay, On

LEMMA FaultsGrow ==
    ASSUME LayerInv, AkasaFault \/ UNCHANGED akasaFaults
    PROVE  akasaFaults' \in Nat /\ akasaFaults <= akasaFaults'
  BY EvolutionAssumption DEF LayerInv, LayerTypes, AkasaFault

\* Two ways to write that a request moves, and what they leave alone.
LEMMA RequestShape ==
    ASSUME LayerInv, NEW r \in Requests, NEW step, NEW on, NEW read,
           \/ request' = [request EXCEPT ![r] = [step |-> step, on |-> on, read |-> read]]
           \/ /\ request' = [request EXCEPT ![r].step = step, ![r].read = read]
              /\ on = request[r].on
    PROVE  /\ request' = [q \in Requests |-> [step |-> request'[q].step, on |-> request'[q].on,
                                              read |-> request'[q].read]]
           /\ request'[r].step = step /\ request'[r].on = on
           /\ \A q \in Requests \ {r} : request'[q] = request[q]
  <1>1. /\ request = [q \in Requests |-> request[q]]
        /\ request[r] = [step |-> request[r].step, on |-> request[r].on, read |-> request[r].read]
        /\ \A q \in Requests : request[q] =
              [step |-> request[q].step, on |-> request[q].on, read |-> request[q].read]
    BY DEF LayerInv, LayerTypes
  <1>2. request' = [request EXCEPT ![r] = [step |-> step, on |-> on, read |-> read]]
    BY <1>1
  <1>3. /\ request'[r] = [step |-> step, on |-> on, read |-> read]
        /\ \A q \in Requests \ {r} : request'[q] = request[q]
        /\ request' = [q \in Requests |-> request'[q]]
    BY <1>1, <1>2
  <1> QED
    BY <1>1, <1>3

\* One request moves, and puts nothing into the register.
LEMMA OneRequest ==
    ASSUME LayerInv, VerdictsKept, UNCHANGED signals, AkasaFault \/ UNCHANGED akasaFaults,
           NEW r \in Requests, NEW step, NEW on, NEW read,
           \/ request' = [request EXCEPT ![r] = [step |-> step, on |-> on, read |-> read]]
           \/ /\ request' = [request EXCEPT ![r].step = step, ![r].read = read]
              /\ on = request[r].on,
           RequestMay(r, step, on)
    PROVE  LayerInv'
  <1>1. /\ request' = [q \in Requests |-> [step |-> request'[q].step, on |-> request'[q].on,
                                           read |-> request'[q].read]]
        /\ request'[r].step = step /\ request'[r].on = on
        /\ \A q \in Requests \ {r} : request'[q] = request[q]
    BY RequestShape
  <1>2. LayerTypes' /\ akasaFaults <= akasaFaults'
    BY <1>1, FaultsGrow DEF LayerInv, LayerTypes
  <1>3. \A q \in Requests : RequestMay(q, request'[q].step, request'[q].on)
    BY <1>1, RequestsStay
  <1> QED
    BY <1>2, <1>3, QuietStep

LEMMA OnVerdict ==
    ASSUME LayerInv, NEW r \in Requests, request[r].step # "none"
    PROVE  request[r].on \in 1..Len(verdicts) /\ On(r) \in VerdictRows
  <1>1. verdicts \in [1..Len(verdicts) -> VerdictRows]
    BY LenProperties DEF LayerInv, RequestTyped
  <1> QED
    BY <1>1 DEF LayerInv, RequestTyped, On

LEMMA AskStep ==
    ASSUME LayerInv, NEW r \in Requests, NEW i, NEW action \in {"confirm", "reject"},
           Ask(r, i, action)
    PROVE  LayerInv'
  <1>1. /\ request' = [request EXCEPT ![r] = [step |-> action, on |-> i, read |-> 0]]
        /\ UNCHANGED <<verdicts, signals, akasaFaults>>
    BY DEF Ask, effectVars
  <1>2. i \in 1..Len(verdicts)
    BY LenProperties DEF Ask, LayerInv, RequestTyped
  <1>3. RequestMay(r, action, i)
    BY <1>2 DEF RequestMay, PastSignal, Effectful
  <1> QED
    BY <1>1, <1>3, OneRequest, VerdictsStay

\* The verdict is answered, and the request ends or goes on to executeGodLayer.
LEMMA AnswerStep ==
    ASSUME LayerInv, NEW r \in Requests, Confirm(r) \/ Reject(r)
    PROVE  LayerInv'
  <1>1. PICK status \in {"confirmed", "rejected"} :
            /\ request[r].step \in {"confirm", "reject"}
            /\ verdicts' = [verdicts EXCEPT ![request[r].on].status = status]
            /\ \/ request' = [request EXCEPT ![r].step = "load", ![r].read = 0]
               \/ request' = [request EXCEPT ![r] = [step |-> "none", on |-> 1, read |-> 0]]
            /\ UNCHANGED <<signals, akasaFaults>>
    BY DEF Confirm, Reject, RequestAt, RequestGoes, Ends, Waiting, effectVars
  <1>2. request[r].on \in 1..Len(verdicts) /\ On(r) \in VerdictRows
    BY <1>1, OnVerdict
  <1> DEFINE row1 == [On(r) EXCEPT !.status = status]
  <1>3. /\ row1 \in VerdictRows /\ row1.bot = On(r).bot /\ row1.type = On(r).type
        /\ row1.stamped = On(r).stamped
    BY <1>2 DEF VerdictRows
  <1>4. verdicts' = [verdicts EXCEPT ![request[r].on] = row1]
    BY <1>1 DEF On
  <1> HIDE DEF row1
  <1>5. VerdictsKept
    BY <1>2, <1>3, <1>4, VerdictWritten DEF On
  <1>6. RequestMay(r, "load", request[r].on) /\ RequestMay(r, "none", 1)
    BY <1>2 DEF RequestMay, PastSignal, Effectful
  <1> QED
    BY <1>1, <1>5, <1>6, OneRequest

\* A request that ends without a stamp.
LEMMA EndStep ==
    ASSUME LayerInv, NEW r \in Requests, Ends(r), UNCHANGED <<verdicts, signals>>,
           AkasaFault \/ UNCHANGED akasaFaults
    PROVE  LayerInv'
  <1>1. request' = [request EXCEPT ![r] = [step |-> "none", on |-> 1, read |-> 0]]
    BY DEF Ends, Waiting
  <1>2. RequestMay(r, "none", 1)
    BY DEF RequestMay, PastSignal, Effectful
  <1> QED
    BY <1>1, <1>2, OneRequest, VerdictsStay

\* A request that goes on with its verdict, and inserts nothing into the register.
LEMMA GoStep ==
    ASSUME LayerInv, NEW r \in Requests, NEW step, NEW value, Reads(r, step, value),
           UNCHANGED <<verdicts, signals>>, AkasaFault \/ UNCHANGED akasaFaults,
           request[r].step # "none",
           \/ step \notin PastSignal \cup Effectful
           \/ request[r].step \in PastSignal /\ step \in PastSignal
           \/ ~Negative(On(r))
    PROVE  LayerInv'
  <1>1. request' = [request EXCEPT ![r].step = step, ![r].read = value]
    BY DEF Reads
  <1>2. RequestMay(r, step, request[r].on)
    <2>1. request[r].on \in 1..Len(verdicts)
      BY OnVerdict
    <2>2. step \in PastSignal => step \notin Effectful
      BY DEF PastSignal, Effectful
    <2> QED
      BY <2>1, <2>2 DEF RequestMay, On
  <1> QED
    BY <1>1, <1>2, OneRequest, VerdictsStay

LEMMA SwallowedStep ==
    ASSUME LayerInv, NEW r \in Requests,
           Load(r) \/ MoveClass(r) \/ ReadDna(r) \/ WriteDna(r) \/ ReadPioneer(r)
                   \/ WritePioneer(r) \/ ReadSkill(r) \/ WriteSkill(r)
    PROVE  LayerInv'
  <1>1. \A step : RequestGoes(r, step) => Reads(r, step, 0)
    BY DEF RequestGoes, Reads
  <1>2. request[r].step \in Effectful => ~Negative(On(r))
    BY DEF LayerInv, RequestTyped
  <1>3. CASE Load(r)
    <2>1. /\ request[r].step = "load" /\ UNCHANGED <<verdicts, signals>>
          /\ AkasaFault \/ UNCHANGED akasaFaults
          /\ Ends(r) \/ \E class : Reads(r, "class", class)
      BY <1>3 DEF Load, RequestAt, LayerUnchanged, effectVars
    <2>2. CASE Ends(r)
      BY <2>1, <2>2, EndStep
    <2>3. CASE \E class : Reads(r, "class", class)
      BY <2>1, <2>3, GoStep DEF PastSignal, Effectful
    <2> QED
      BY <2>1, <2>2, <2>3
  <1>4. CASE MoveClass(r)
    <2> DEFINE v == On(r)
               step == CASE CapturesDna(v) -> "dnaRead" [] Negative(v) -> "signal"
                         [] v.type = "Promote" -> "pioneerRead" [] OTHER -> "skillRead"
    <2>1. /\ request[r].step = "class" /\ UNCHANGED <<verdicts, signals>>
          /\ AkasaFault \/ UNCHANGED akasaFaults
          /\ Reads(r, step, 0)
      BY <1>1, <1>4 DEF MoveClass, RequestAt, LayerUnchanged
    <2>2. ~Negative(v) \/ step = "signal"
      BY DEF CapturesDna, Negative
    <2> HIDE DEF step
    <2> QED
      BY <2>1, <2>2, GoStep DEF PastSignal, Effectful
  <1>5. CASE ReadDna(r) \/ WriteDna(r) \/ ReadPioneer(r) \/ WritePioneer(r)
    <2>1. /\ request[r].step \in Effectful /\ UNCHANGED <<verdicts, signals>>
          /\ AkasaFault \/ UNCHANGED akasaFaults
          /\ \E step, value : Reads(r, step, value)
      BY <1>1, <1>5 DEF ReadDna, WriteDna, ReadPioneer, WritePioneer, RequestAt,
                        LayerUnchanged, effectVars, Effectful
    <2> QED
      BY <1>2, <2>1, GoStep DEF Effectful
  <1>6. CASE ReadSkill(r) \/ WriteSkill(r)
    <2>1. /\ request[r].step \in PastSignal /\ UNCHANGED <<verdicts, signals>>
          /\ AkasaFault \/ UNCHANGED akasaFaults
          /\ \E step \in PastSignal : \E value : Reads(r, step, value)
      BY <1>1, <1>6 DEF ReadSkill, WriteSkill, RequestAt, LayerUnchanged, effectVars,
                        PastSignal
    <2> QED
      BY <2>1, GoStep DEF PastSignal
  <1> QED
    BY <1>3, <1>4, <1>5, <1>6

\* The insert into the register.
LEMMA SignalStep == ASSUME LayerInv, NEW r \in Requests, Signal(r) PROVE LayerInv'
  <1>1. request[r].step = "signal"
    BY DEF Signal, RequestAt
  <1>2. request[r].on \in 1..Len(verdicts) /\ On(r).bot \in Agents
    BY <1>1, OnVerdict DEF VerdictRows
  <1>3. PICK b \in Agents, i \in 1..Len(verdicts) : i = request[r].on /\ b = On(r).bot
    BY <1>2
  <1>4. /\ request[r].step = "signal" /\ UNCHANGED verdicts
        /\ request' = [request EXCEPT ![r].step = "skillRead", ![r].read = 0]
        /\ \/ signals' = [signals EXCEPT ![b] = @ + 1] /\ UNCHANGED akasaFaults
           \/ akasaFaults' = akasaFaults + 1 /\ UNCHANGED signals
        /\ AkasaFault \/ UNCHANGED akasaFaults
    BY <1>3 DEF Signal, RequestAt, RequestGoes, LayerUnchanged, AkasaFault
  <1>5. i \in 1..Len(verdicts) /\ b \in Agents /\ b = verdicts[i].bot
    BY <1>3 DEF On
  <1>6. /\ request' = [q \in Requests |-> [step |-> request'[q].step, on |-> request'[q].on,
                                           read |-> request'[q].read]]
        /\ request'[r].step = "skillRead" /\ request'[r].on = i
        /\ \A q \in Requests \ {r} : request'[q] = request[q]
    BY <1>4, <1>3, RequestShape
  <1>7. LayerTypes'
    <2>1. signals' \in [Agents -> Nat] /\ akasaFaults' \in Nat
      <3>1. signals \in [Agents -> Nat] /\ akasaFaults \in Nat
        BY DEF LayerInv, LayerTypes
      <3>2. akasaFaults' \in Nat
        BY <1>4, FaultsGrow
      <3>3. signals' \in [Agents -> Nat]
        BY <1>4, <1>5, <3>1
      <3> QED
        BY <3>2, <3>3
    <2> QED
      BY <1>6, <2>1 DEF LayerTypes
  <1>8. RequestTyped'
    <2>1. ASSUME NEW q \in Requests
          PROVE  /\ request'[q].step # "none" => request'[q].on \in 1..Len(verdicts)
                 /\ request'[q].step \in Effectful => ~Negative(verdicts[request'[q].on])
      BY <1>5, <1>6, <1>3 DEF LayerInv, RequestTyped, On, Effectful
    <2> QED
      BY <1>4, <2>1 DEF LayerInv, RequestTyped, On
  <1>9. Signalled(b)' \subseteq Signalled(b) \cup {i}
    <2>1. ASSUME NEW j \in Signalled(b)' PROVE j = i \/ j \in Signalled(b)
      BY <1>4, <1>6, <2>1 DEF Signalled
    <2> QED
      BY <2>1
  <1>10. \A a \in Agents \ {b} : Signalled(a)' \subseteq Signalled(a)
    <2>1. ASSUME NEW a \in Agents \ {b}, NEW j \in Signalled(a)' PROVE j \in Signalled(a)
      BY <1>4, <1>5, <1>6, <2>1 DEF Signalled
    <2> QED
      BY <2>1
  <1> QED
    BY <1>4, <1>5, <1>7, <1>8, <1>9, <1>10, OneSignalled

LEMMA StampStep == ASSUME LayerInv, NEW r \in Requests, Stamp(r) PROVE LayerInv'
  <1>1. /\ request[r].step = "stamp" /\ Ends(r) /\ UNCHANGED signals
        /\ \/ AkasaFault /\ UNCHANGED verdicts
           \/ /\ verdicts' = [verdicts EXCEPT ![request[r].on].stamped = TRUE]
              /\ UNCHANGED akasaFaults
    BY DEF Stamp, RequestAt, effectVars
  <1>2. CASE UNCHANGED verdicts
    BY <1>1, <1>2, EndStep
  <1>3. CASE verdicts' = [verdicts EXCEPT ![request[r].on].stamped = TRUE]
    <2> DEFINE row1 == [On(r) EXCEPT !.stamped = TRUE]
    <2>1. request[r].on \in 1..Len(verdicts) /\ On(r) \in VerdictRows
      BY <1>1, OnVerdict
    <2>2. row1 \in VerdictRows /\ row1.bot = On(r).bot /\ row1.type = On(r).type
      BY <2>1 DEF VerdictRows
    <2>3. verdicts' = [verdicts EXCEPT ![request[r].on] = row1]
      BY <1>3 DEF On
    <2> HIDE DEF row1
    <2>4. VerdictsKept
      BY <1>1, <2>1, <2>2, <2>3, VerdictWritten DEF On, PastSignal
    <2>5. request' = [request EXCEPT ![r] = [step |-> "none", on |-> 1, read |-> 0]]
      BY <1>1 DEF Ends, Waiting
    <2>6. RequestMay(r, "none", 1)
      BY DEF RequestMay, PastSignal, Effectful
    <2> QED
      BY <1>1, <2>4, <2>5, <2>6, OneRequest
  <1> QED
    BY <1>1, <1>2, <1>3

\* The judging, and a restart, end requests or add verdicts at most.
LEMMA JudgingStep == ASSUME LayerInv, JudgingNext PROVE LayerInv'
  <1>1. verdicts \in Seq(VerdictRows) /\ Len(verdicts) \in Nat
    BY LenProperties DEF LayerInv, RequestTyped
  <1>2. UNCHANGED <<request, signals>> /\ (AkasaFault \/ UNCHANGED akasaFaults)
    BY DEF JudgingNext, RunPasses, LookAt, Poll, Convene, Verdict, CouncilFails, RunUnchanged,
           effectVars
  <1>3. VerdictsKept
    <2>1. CASE UNCHANGED verdicts
      BY <2>1, VerdictsStay
    <2>2. ASSUME NEW b \in Agents, Verdict(b) PROVE VerdictsKept
      <3>1. PICK type \in Verdicts :
                verdicts' = Append(verdicts, [bot |-> b, type |-> type, status |-> "pending",
                                              stamped |-> FALSE])
        BY <2>2 DEF Verdict
      <3> DEFINE new == [bot |-> b, type |-> type, status |-> "pending", stamped |-> FALSE]
      <3>2. new \in VerdictRows /\ ~new.stamped
        BY <3>1 DEF VerdictRows
      <3> HIDE DEF new
      <3>3. /\ verdicts' \in Seq(VerdictRows) /\ Len(verdicts') = Len(verdicts) + 1
            /\ \A i \in 1..Len(verdicts) : verdicts'[i] = verdicts[i]
            /\ verdicts'[Len(verdicts) + 1] = new
        BY <1>1, <3>1, <3>2, AppendProperties DEF new
      <3> QED
        BY <1>1, <3>2, <3>3 DEF VerdictsKept
    <2> QED
      BY <2>1, <2>2 DEF JudgingNext, RunPasses, LookAt, Poll, Convene, CouncilFails,
                        RunUnchanged
  <1>4. LayerTypes' /\ akasaFaults <= akasaFaults'
    BY <1>2, FaultsGrow DEF LayerInv, LayerTypes
  <1>5. \A r \in Requests : RequestMay(r, request'[r].step, request'[r].on)
    BY <1>2, RequestsStay
  <1> QED
    BY <1>2, <1>3, <1>4, <1>5, QuietStep

LEMMA RestartStep == ASSUME LayerInv, AkasaCrash PROVE LayerInv'
  <1>1. /\ UNCHANGED <<verdicts, signals, akasaFaults>>
        /\ request' = [r \in Requests |-> [step |-> "none", on |-> 1, read |-> 0]]
    BY DEF AkasaCrash, Waiting, effectVars
  <1>2. LayerTypes' /\ akasaFaults <= akasaFaults'
    BY <1>1 DEF LayerInv, LayerTypes
  <1>3. \A r \in Requests : RequestMay(r, request'[r].step, request'[r].on)
    BY <1>1 DEF RequestMay, PastSignal, Effectful
  <1> QED
    BY <1>1, <1>2, <1>3, VerdictsStay, QuietStep

LEMMA LayerStep == ASSUME LayerInv, [EvolutionNext]_evolutionVars PROVE LayerInv'
  <1>1. CASE UNCHANGED evolutionVars
    <2>1. UNCHANGED <<verdicts, request, signals, akasaFaults>>
      BY <1>1 DEF evolutionVars, effectVars
    <2>2. LayerTypes' /\ akasaFaults <= akasaFaults'
      BY <2>1 DEF LayerInv, LayerTypes
    <2> QED
      BY <2>1, <2>2, VerdictsStay, RequestsStay, QuietStep
  <1>2. ASSUME NEW r \in Requests, RequestNext(r) PROVE LayerInv'
    <2>1. CASE \E i \in 1..MaxVerdicts, action \in {"confirm", "reject"} : Ask(r, i, action)
      BY <2>1, AskStep
    <2>2. CASE RequestFails(r)
      BY <2>2, EndStep DEF RequestFails, effectVars
    <2> QED
      BY <1>2, <2>1, <2>2, AnswerStep, SwallowedStep, SignalStep, StampStep DEF RequestNext
  <1> QED
    BY <1>1, <1>2, JudgingStep, RestartStep DEF EvolutionNext

LEMMA LayerStart == EvolutionInit => LayerInv
  <1> SUFFICES ASSUME EvolutionInit PROVE LayerInv
    OBVIOUS
  <1>1. LayerTypes
    BY DEF EvolutionInit, Waiting, LayerTypes
  <1>2. /\ verdicts \in Seq(VerdictRows) /\ \A i \in 1..Len(verdicts) : ~verdicts[i].stamped
        /\ \A r \in Requests : request[r].step = "none"
    BY BacklogAssumption, LenProperties DEF EvolutionInit, Waiting
  <1>3. RequestTyped
    BY <1>2 DEF RequestTyped, Effectful
  <1>4. \A b \in Agents : Signalled(b) = {}
    BY <1>2 DEF Signalled, PastSignal
  <1>5. SignalsCover
    BY <1>4, FS_EmptySet DEF SignalsCover, EvolutionInit
  <1> QED
    BY <1>1, <1>3, <1>5 DEF LayerInv

\* The stamp of executeGodLayer, however many requests carry the same verdict out at once
\* and wherever a restart cuts them off: a stamped Demote, Monitor or Retire verdict has
\* its row in the register, or an insert that failed (StampedWasDone).
THEOREM StampedWereDone == EvolutionSpec => []StampedWasDone
  <1>1. LayerInv => StampedWasDone
    <2> SUFFICES ASSUME LayerInv, NEW b \in Agents
                 PROVE  Cardinality(NegativeStamped(b)) <= signals[b] + akasaFaults
      BY DEF StampedWasDone
    <2>1. /\ IsFiniteSet(Signalled(b)) /\ Cardinality(Signalled(b)) \in Nat
          /\ Cardinality(Signalled(b)) <= signals[b] + akasaFaults
          /\ signals[b] \in Nat /\ akasaFaults \in Nat
      BY SignalledFinite DEF LayerInv, RequestTyped, LayerTypes, SignalsCover
    <2>2. NegativeStamped(b) \subseteq Signalled(b)
      BY LenProperties DEF NegativeStamped, Signalled, LayerInv, RequestTyped
    <2>3. /\ Cardinality(NegativeStamped(b)) \in Nat
          /\ Cardinality(NegativeStamped(b)) <= Cardinality(Signalled(b))
      BY <2>1, <2>2, FS_Subset, FS_CardinalityType
    <2> QED
      BY <2>1, <2>3
  <1> QED
    BY <1>1, LayerStart, LayerStep, PTL DEF EvolutionSpec

-------------------------------------------------------------------------------
(* What the requests of executeGodLayer have read. *)

\* What a request has read, by the step it goes on with.
Reading(step, on, read) ==
    /\ step \in RequestSteps /\ on \in 1..MaxVerdicts
    /\ step = "class" => read \in AgentClasses
    /\ step = "dnaWrite" => read \in Nat \ {0}
    /\ step = "pioneerWrite" => read \in Nat
    /\ step = "skillWrite" => read \in 0..(Unlearned - 1)

RequestReads == \A r \in Requests : Reading(request[r].step, request[r].on, request[r].read)

\* The tables, where dna_store has a last version once it has any.
StoreTypes ==
    /\ runState \in [Runs -> {"going", "fresh", "old"}]
    /\ Len(verdicts) <= MaxVerdicts
    /\ classRow \in [Agents -> AgentClasses \cup {"none"}]
    /\ dna \subseteq (STRING \X (Nat \ {0}))
    /\ dna = {} \/ \E last \in dna : \A entry \in dna : entry[2] <= last[2]
    /\ confirmedRuns \in Nat
    /\ strikes \in [Agents -> 0..Unlearned]
    /\ akasaFaults \in 0..MaxAkasaFaults /\ akasaCrashes \in 0..MaxAkasaCrashes

EvolutionInv == LayerInv /\ JudgeTypes /\ RequestReads /\ StoreTypes

LEMMA EvolutionBounds ==
    /\ MaxVerdicts \in Nat /\ MaxAkasaFaults \in Nat /\ MaxAkasaCrashes \in Nat
    /\ 1 \in 1..MaxVerdicts
    /\ \A b \in Agents : SoulOf[b] \in STRING
  BY EvolutionAssumption

LEMMA ClassesTyped ==
    /\ \A b \in Agents : StoreTypes => ClassOf(b) \in AgentClasses
    /\ \A class \in AgentClasses, type \in Verdicts : ClassAfter(class, type) \in AgentClasses
  <1>1. ASSUME NEW b \in Agents, StoreTypes PROVE ClassOf(b) \in AgentClasses
    BY <1>1 DEF StoreTypes, ClassOf, AgentClasses
  <1>2. Ladder[1] = "Novice" /\ Ladder[2] = "Understudy" /\ Ladder[3] = "Artisan"
    BY DEF Ladder
  <1>3. Rank("Novice") = 1 /\ Rank("Understudy") = 2 /\ Rank("Artisan") = 3
    <2>1. \A i \in 1..3 : i = 1 \/ i = 2 \/ i = 3
      OBVIOUS
    <2>2. \A i \in 1..3 : /\ Ladder[i] = "Novice" <=> i = 1
                          /\ Ladder[i] = "Understudy" <=> i = 2
                          /\ Ladder[i] = "Artisan" <=> i = 3
      BY <1>2, <2>1
    <2>3. 1 \in 1..3 /\ 2 \in 1..3 /\ 3 \in 1..3
      OBVIOUS
    <2> QED
      BY <2>2, <2>3 DEF Rank
  <1>4. ASSUME NEW class \in AgentClasses, NEW type \in Verdicts
        PROVE  ClassAfter(class, type) \in AgentClasses
    BY <1>2, <1>3 DEF ClassAfter, AgentClasses
  <1> QED
    BY <1>1, <1>4

\* One request goes on, or ends.
LEMMA ReadingMoves ==
    ASSUME LayerInv, RequestReads, NEW r \in Requests, NEW step, NEW on, NEW read,
           \/ request' = [request EXCEPT ![r] = [step |-> step, on |-> on, read |-> read]]
           \/ /\ request' = [request EXCEPT ![r].step = step, ![r].read = read]
              /\ on = request[r].on,
           Reading(step, on, read)
    PROVE  RequestReads'
  <1>1. /\ request = [q \in Requests |-> request[q]]
        /\ request[r] = [step |-> request[r].step, on |-> request[r].on, read |-> request[r].read]
    BY DEF LayerInv, LayerTypes
  <1>2. request' = [request EXCEPT ![r] = [step |-> step, on |-> on, read |-> read]]
    BY <1>1
  <1>3. /\ request'[r] = [step |-> step, on |-> on, read |-> read]
        /\ \A q \in Requests \ {r} : request'[q] = request[q]
    BY <1>1, <1>2
  <1>4. ASSUME NEW q \in Requests
        PROVE  Reading(request'[q].step, request'[q].on, request'[q].read)
    <2>1. CASE q = r
      BY <1>3, <2>1
    <2>2. CASE q # r
      BY <1>3, <2>2 DEF RequestReads
    <2> QED
      BY <2>1, <2>2
  <1>5. \A q \in Requests : Reading(request[q].step, request[q].on, request[q].read)'
    BY <1>4 DEF Reading
  <1> QED
    BY <1>5 DEF RequestReads

LEMMA ReadingEnds ==
    ASSUME LayerInv, RequestReads, NEW r \in Requests, Ends(r)
    PROVE  RequestReads'
  <1>1. Reading("none", 1, 0)
    BY EvolutionBounds DEF Reading, RequestSteps
  <1> QED
    BY <1>1, ReadingMoves DEF Ends, Waiting

LEMMA ReadingGoes ==
    ASSUME LayerInv, RequestReads, NEW r \in Requests, NEW step, NEW read,
           \/ Reads(r, step, read)
           \/ RequestGoes(r, step) /\ read = 0,
           \A on \in 1..MaxVerdicts : Reading(step, on, read)
    PROVE  RequestReads'
  <1>1. request[r].on \in 1..MaxVerdicts
    BY DEF RequestReads, Reading
  <1> QED
    BY <1>1, ReadingMoves DEF Reads, RequestGoes

LEMMA FaultsTyped ==
    ASSUME StoreTypes, AkasaFault \/ UNCHANGED akasaFaults
    PROVE  akasaFaults' \in 0..MaxAkasaFaults
  BY EvolutionBounds DEF StoreTypes, AkasaFault

\* The answer to a request leaves as many verdicts as there were.
LEMMA SameLength ==
    ASSUME LayerInv, NEW r \in Requests, request[r].step # "none",
           \/ \E status \in {"confirmed", "rejected"} :
                 verdicts' = [verdicts EXCEPT ![request[r].on].status = status]
           \/ verdicts' = [verdicts EXCEPT ![request[r].on].stamped = TRUE]
    PROVE  Len(verdicts') = Len(verdicts)
  <1>1. verdicts \in Seq(VerdictRows) /\ request[r].on \in 1..Len(verdicts)
        /\ On(r) \in VerdictRows
    BY OnVerdict DEF LayerInv, RequestTyped
  <1>2. \E row1 \in VerdictRows : verdicts' = [verdicts EXCEPT ![request[r].on] = row1]
    <2>1. ASSUME NEW status \in {"confirmed", "rejected"},
                 verdicts' = [verdicts EXCEPT ![request[r].on].status = status]
          PROVE  \E row1 \in VerdictRows : verdicts' = [verdicts EXCEPT ![request[r].on] = row1]
      <3>1. [On(r) EXCEPT !.status = status] \in VerdictRows
        BY <1>1 DEF VerdictRows
      <3> QED
        BY <2>1, <3>1 DEF On
    <2>2. CASE verdicts' = [verdicts EXCEPT ![request[r].on].stamped = TRUE]
      <3>1. [On(r) EXCEPT !.stamped = TRUE] \in VerdictRows
        BY <1>1 DEF VerdictRows
      <3> QED
        BY <2>2, <3>1 DEF On
    <2> QED
      BY <2>1, <2>2
  <1> QED
    BY <1>1, <1>2, ExceptSeq

LEMMA AnswerTypes ==
    ASSUME EvolutionInv, NEW r \in Requests,
           \/ \E i \in 1..MaxVerdicts, action \in {"confirm", "reject"} : Ask(r, i, action)
           \/ Confirm(r) \/ Reject(r) \/ RequestFails(r) \/ Stamp(r)
    PROVE  RequestReads' /\ StoreTypes'
  <1> USE DEF EvolutionInv
  <1>1. ASSUME NEW i \in 1..MaxVerdicts, NEW action \in {"confirm", "reject"}, Ask(r, i, action)
        PROVE  RequestReads' /\ StoreTypes'
    <2>1. Reading(action, i, 0)
      BY DEF Reading, RequestSteps
    <2>2. request' = [request EXCEPT ![r] = [step |-> action, on |-> i, read |-> 0]]
      BY <1>1 DEF Ask
    <2>3. StoreTypes'
      BY <1>1 DEF Ask, StoreTypes, worldVars, effectVars
    <2> QED
      BY <2>1, <2>2, <2>3, ReadingMoves
  <1>2. CASE Confirm(r)
    <2>1. \A on \in 1..MaxVerdicts : Reading("load", on, 0)
      BY DEF Reading, RequestSteps
    <2>2. RequestReads'
      BY <1>2, <2>1, ReadingGoes DEF Confirm
    <2>3. Len(verdicts') = Len(verdicts)
      BY <1>2, SameLength DEF Confirm, RequestAt
    <2> QED
      BY <1>2, <2>2, <2>3 DEF Confirm, StoreTypes, worldVars, effectVars
  <1>3. CASE Reject(r)
    <2>1. Len(verdicts') = Len(verdicts)
      BY <1>3, SameLength DEF Reject, RequestAt
    <2> QED
      BY <1>3, <2>1, ReadingEnds DEF Reject, StoreTypes, worldVars, effectVars
  <1>4. CASE RequestFails(r)
    <2>1. akasaFaults' \in 0..MaxAkasaFaults
      BY <1>4, FaultsTyped DEF RequestFails
    <2> QED
      BY <1>4, <2>1, ReadingEnds DEF RequestFails, StoreTypes, worldVars, effectVars
  <1>5. CASE Stamp(r)
    <2>1. akasaFaults' \in 0..MaxAkasaFaults
      BY <1>5, FaultsTyped DEF Stamp
    <2>2. Len(verdicts') = Len(verdicts)
      BY <1>5, SameLength DEF Stamp, RequestAt
    <2> QED
      BY <1>5, <2>1, <2>2, ReadingEnds DEF Stamp, StoreTypes, worldVars, effectVars
  <1> QED
    BY <1>1, <1>2, <1>3, <1>4, <1>5

LEMMA ClassTypes ==
    ASSUME EvolutionInv, NEW r \in Requests, Load(r) \/ MoveClass(r) \/ Signal(r)
    PROVE  RequestReads' /\ StoreTypes'
  <1> USE DEF EvolutionInv
  <1>1. akasaFaults' \in 0..MaxAkasaFaults
    BY FaultsTyped DEF Load, MoveClass, Signal
  <1>2. request[r].step # "none"
    BY DEF Load, MoveClass, Signal, RequestAt
  <1>3. On(r).bot \in Agents /\ On(r).type \in Verdicts
    BY <1>2, OnVerdict DEF VerdictRows
  <1>4. \A on \in 1..MaxVerdicts, class \in AgentClasses : Reading("class", on, class)
    BY DEF Reading, RequestSteps
  <1>5. \A on \in 1..MaxVerdicts, step \in RequestSteps \ {"class", "dnaWrite", "pioneerWrite",
                                                          "skillWrite"} : Reading(step, on, 0)
    BY DEF Reading
  <1>6. CASE Load(r)
    <2>1. Ends(r) \/ \E class \in AgentClasses : Reads(r, "class", class)
      BY <1>3, <1>6, ClassesTyped DEF Load, AgentClasses
    <2>2. RequestReads'
      BY <1>4, <2>1, ReadingEnds, ReadingGoes
    <2> QED
      BY <1>1, <1>6, <2>2 DEF Load, LayerUnchanged, StoreTypes, worldVars, effectVars
  <1>7. CASE MoveClass(r)
    <2> DEFINE v == On(r)
               step == CASE CapturesDna(v) -> "dnaRead" [] Negative(v) -> "signal"
                         [] v.type = "Promote" -> "pioneerRead" [] OTHER -> "skillRead"
               new == ClassAfter(request[r].read, v.type)
    <2>1. step \in RequestSteps \ {"class", "dnaWrite", "pioneerWrite", "skillWrite"}
      BY DEF RequestSteps
    <2>2. RequestGoes(r, step)
      BY <1>7 DEF MoveClass
    <2>3. new \in AgentClasses
      <3>1. request[r].read \in AgentClasses
        BY <1>7 DEF MoveClass, RequestAt, RequestReads, Reading
      <3> QED
        BY <1>3, <3>1, ClassesTyped
    <2>4. classRow' \in {classRow, [classRow EXCEPT ![v.bot] = new]}
      BY <1>7 DEF MoveClass
    <2> HIDE DEF step, new
    <2>5. classRow' \in [Agents -> AgentClasses \cup {"none"}]
      BY <2>3, <2>4 DEF StoreTypes
    <2>6. RequestReads'
      BY <1>5, <2>1, <2>2, ReadingGoes
    <2> QED
      BY <1>1, <1>7, <2>5, <2>6 DEF MoveClass, LayerUnchanged, StoreTypes, worldVars
  <1>8. CASE Signal(r)
    <2>1. "skillRead" \in RequestSteps \ {"class", "dnaWrite", "pioneerWrite", "skillWrite"}
      BY DEF RequestSteps
    <2>2. RequestReads'
      BY <1>5, <1>8, <2>1, ReadingGoes DEF Signal
    <2> QED
      BY <1>1, <1>8, <2>2 DEF Signal, LayerUnchanged, StoreTypes, worldVars
  <1> QED
    BY <1>6, <1>7, <1>8

\* MAX(version) is the version of some entry, and one more is no version yet.
LEMMA LatestTyped ==
    ASSUME StoreTypes
    PROVE  /\ Latest \in Nat
           /\ \A entry \in dna : entry[2] <= Latest
  <1>1. CASE dna = {}
    BY <1>1 DEF Latest
  <1>2. ASSUME NEW last \in dna, \A entry \in dna : entry[2] <= last[2]
        PROVE  Latest \in Nat /\ \A entry \in dna : entry[2] <= Latest
    <2> DEFINE versions == {entry[2] : entry \in dna}
    <2>1. versions \subseteq Nat
      BY DEF StoreTypes
    <2>2. last[2] \in versions /\ \A n \in versions : last[2] >= n
      BY <1>2, <2>1
    <2>3. Max(versions) \in versions /\ \A n \in versions : Max(versions) >= n
      <3> HIDE DEF versions
      <3> QED
        BY <2>2 DEF Max
    <2>4. Latest = Max(versions)
      BY <1>2 DEF Latest
    <2> HIDE DEF versions
    <2>5. Latest \in Nat /\ \A n \in versions : n <= Latest
      BY <2>1, <2>3, <2>4
    <2> QED
      BY <2>5 DEF versions
  <1> QED
    BY <1>1, <1>2 DEF StoreTypes

LEMMA DnaTypes ==
    ASSUME EvolutionInv, NEW r \in Requests, ReadDna(r) \/ WriteDna(r)
    PROVE  RequestReads' /\ StoreTypes'
  <1> USE DEF EvolutionInv
  <1>1. request[r].step # "none"
    BY DEF ReadDna, WriteDna, RequestAt
  <1>2. On(r).bot \in Agents /\ On(r).type \in Verdicts
    BY <1>1, OnVerdict DEF VerdictRows
  <1>3. CASE ReadDna(r)
    <2>1. NextEntry \in Nat \ {0}
      BY LatestTyped DEF NextEntry
    <2>2. \A on \in 1..MaxVerdicts : Reading("dnaWrite", on, NextEntry)
      BY <2>1 DEF Reading, RequestSteps
    <2>3. RequestReads'
      BY <1>3, <2>2, ReadingGoes DEF ReadDna
    <2> QED
      BY <1>3, <2>3 DEF ReadDna, LayerUnchanged, StoreTypes, worldVars, effectVars
  <1>4. CASE WriteDna(r)
    <2> DEFINE entry1 == <<SoulOf[On(r).bot], request[r].read>>
    <2>1. akasaFaults' \in 0..MaxAkasaFaults
      BY <1>4, FaultsTyped DEF WriteDna
    <2>2. AfterDna(On(r)) \in {"pioneerRead", "skillRead"}
      BY DEF AfterDna
    <2>3. \A on \in 1..MaxVerdicts, step \in {"pioneerRead", "skillRead"} : Reading(step, on, 0)
      BY DEF Reading, RequestSteps
    <2>4. RequestReads'
      BY <1>4, <2>2, <2>3, ReadingGoes DEF WriteDna
    <2>5. entry1 \in STRING \X (Nat \ {0}) /\ entry1[2] \in Nat
      <3>1. request[r].read \in Nat \ {0}
        BY <1>4 DEF WriteDna, RequestAt, RequestReads, Reading
      <3> QED
        BY <1>2, <3>1, EvolutionBounds
    <2>6. dna' \in {dna, dna \cup {entry1}}
      BY <1>4 DEF WriteDna
    <2> HIDE DEF entry1
    <2>7. dna \subseteq STRING \X (Nat \ {0}) /\ \A entry \in dna : entry[2] \in Nat
      BY DEF StoreTypes
    <2>8. dna' \subseteq STRING \X (Nat \ {0})
      BY <2>5, <2>6, <2>7
    <2>9. dna' = {} \/ \E last \in dna' : \A entry \in dna' : entry[2] <= last[2]
      <3>1. CASE dna' = dna
        BY <3>1 DEF StoreTypes
      <3>2. CASE dna' = dna \cup {entry1} /\ dna = {}
        BY <2>5, <3>2
      <3>3. ASSUME dna' = dna \cup {entry1},
                   NEW last \in dna, \A entry \in dna : entry[2] <= last[2]
            PROVE  \E last1 \in dna' : \A entry \in dna' : entry[2] <= last1[2]
        <4>1. last[2] \in Nat
          BY <2>7
        <4>2. CASE entry1[2] <= last[2]
          BY <3>3, <4>2
        <4>3. CASE last[2] <= entry1[2]
          BY <2>5, <2>7, <3>3, <4>1, <4>3
        <4> QED
          BY <2>5, <4>1, <4>2, <4>3
      <3> QED
        BY <2>6, <3>1, <3>2, <3>3 DEF StoreTypes
    <2> QED
      BY <1>4, <2>1, <2>4, <2>8, <2>9 DEF WriteDna, LayerUnchanged, StoreTypes, worldVars
  <1> QED
    BY <1>3, <1>4

LEMMA CountTypesKept ==
    ASSUME EvolutionInv, NEW r \in Requests,
           ReadPioneer(r) \/ WritePioneer(r) \/ ReadSkill(r) \/ WriteSkill(r)
    PROVE  RequestReads' /\ StoreTypes'
  <1> USE DEF EvolutionInv
  <1>1. request[r].step # "none"
    BY DEF ReadPioneer, WritePioneer, ReadSkill, WriteSkill, RequestAt
  <1>2. On(r).bot \in Agents /\ On(r).type \in Verdicts
    BY <1>1, OnVerdict DEF VerdictRows
  <1>3. \A on \in 1..MaxVerdicts, step \in {"skillRead", "stamp"} : Reading(step, on, 0)
    BY DEF Reading, RequestSteps
  <1>4. CASE ReadPioneer(r)
    <2>1. \A on \in 1..MaxVerdicts : Reading("pioneerWrite", on, confirmedRuns)
      BY DEF Reading, RequestSteps, StoreTypes
    <2>2. RequestReads'
      BY <1>4, <2>1, ReadingGoes DEF ReadPioneer
    <2> QED
      BY <1>4, <2>2 DEF ReadPioneer, LayerUnchanged, StoreTypes, worldVars, effectVars
  <1>5. CASE WritePioneer(r)
    <2>1. akasaFaults' \in 0..MaxAkasaFaults
      BY <1>5, FaultsTyped DEF WritePioneer
    <2>2. RequestReads'
      BY <1>3, <1>5, ReadingGoes DEF WritePioneer
    <2>3. request[r].read \in Nat
      BY <1>5 DEF WritePioneer, RequestAt, RequestReads, Reading
    <2>4. confirmedRuns' \in Nat
      BY <1>5, <2>3 DEF WritePioneer, StoreTypes
    <2> QED
      BY <1>5, <2>1, <2>2, <2>4 DEF WritePioneer, LayerUnchanged, StoreTypes, worldVars
  <1>6. CASE ReadSkill(r)
    <2>1. ASSUME RequestGoes(r, "stamp") PROVE RequestReads'
      BY <1>3, <2>1, ReadingGoes
    <2>2. ASSUME strikes[On(r).bot] # Unlearned, Reads(r, "skillWrite", strikes[On(r).bot])
          PROVE  RequestReads'
      <3>1. strikes[On(r).bot] \in 0..(Unlearned - 1)
        BY <1>2, <2>2 DEF StoreTypes, Unlearned
      <3>2. \A on \in 1..MaxVerdicts : Reading("skillWrite", on, strikes[On(r).bot])
        BY <3>1 DEF Reading, RequestSteps
      <3> QED
        BY <2>2, <3>2, ReadingGoes
    <2>3. RequestReads'
      BY <1>6, <2>1, <2>2 DEF ReadSkill
    <2> QED
      BY <1>6, <2>3 DEF ReadSkill, LayerUnchanged, StoreTypes, worldVars, effectVars
  <1>7. CASE WriteSkill(r)
    <2>1. akasaFaults' \in 0..MaxAkasaFaults
      BY <1>7, FaultsTyped DEF WriteSkill
    <2>2. RequestReads'
      BY <1>3, <1>7, ReadingGoes DEF WriteSkill
    <2>3. request[r].read \in 0..(Unlearned - 1)
      BY <1>7 DEF WriteSkill, RequestAt, RequestReads, Reading
    <2>4. StrikesAfter(On(r), request[r].read) \in 0..Unlearned
      BY <2>3 DEF StrikesAfter, Unlearned
    <2>5. strikes' \in [Agents -> 0..Unlearned]
      BY <1>7, <2>4 DEF WriteSkill, StoreTypes
    <2> QED
      BY <1>7, <2>1, <2>2, <2>5 DEF WriteSkill, LayerUnchanged, StoreTypes, worldVars
  <1> QED
    BY <1>4, <1>5, <1>6, <1>7

LEMMA JudgingTypes ==
    ASSUME EvolutionInv, JudgingNext
    PROVE  RequestReads' /\ StoreTypes'
  <1> USE DEF EvolutionInv
  <1>1. /\ UNCHANGED <<request, effectVars, akasaCrashes>>
        /\ AkasaFault \/ UNCHANGED akasaFaults
    BY DEF JudgingNext, RunPasses, LookAt, Poll, Convene, Verdict, CouncilFails, RunUnchanged
  <1>2. RequestReads' /\ akasaFaults' \in 0..MaxAkasaFaults
    BY <1>1, FaultsTyped DEF RequestReads, Reading
  <1>3. runState' \in [Runs -> {"going", "fresh", "old"}]
    <2>1. CASE \E run \in Runs : RunPasses(run)
      BY <2>1 DEF RunPasses, StoreTypes
    <2>2. CASE UNCHANGED runState
      BY <2>2 DEF StoreTypes
    <2> QED
      BY <2>1, <2>2 DEF JudgingNext, LookAt, Poll, Convene, Verdict, CouncilFails
  <1>4. Len(verdicts') <= MaxVerdicts
    <2>1. ASSUME NEW b \in Agents, Verdict(b) PROVE Len(verdicts') <= MaxVerdicts
      <3>1. verdicts \in Seq(VerdictRows) /\ Len(verdicts) \in Nat
        BY LenProperties DEF LayerInv, RequestTyped
      <3>2. PICK type \in Verdicts :
                verdicts' = Append(verdicts, [bot |-> b, type |-> type, status |-> "pending",
                                              stamped |-> FALSE])
        BY <2>1 DEF Verdict
      <3>3. [bot |-> b, type |-> type, status |-> "pending", stamped |-> FALSE] \in VerdictRows
        BY DEF VerdictRows
      <3>4. Len(verdicts') = Len(verdicts) + 1
        BY <3>1, <3>2, <3>3, AppendProperties
      <3> DEFINE length == Len(verdicts)
      <3>5. length < MaxVerdicts /\ length \in Nat
        BY <2>1, <3>1 DEF Verdict
      <3> HIDE DEF length
      <3>6. length + 1 <= MaxVerdicts
        BY <3>5, EvolutionBounds
      <3> QED
        BY <3>4, <3>6 DEF length
    <2>2. CASE UNCHANGED verdicts
      BY <2>2 DEF StoreTypes
    <2> QED
      BY <2>1, <2>2 DEF JudgingNext, RunPasses, LookAt, Poll, Convene, CouncilFails,
                        RunUnchanged
  <1> QED
    BY <1>1, <1>2, <1>3, <1>4 DEF StoreTypes, effectVars

LEMMA EvolutionStep ==
    ASSUME EvolutionInv, [EvolutionNext]_evolutionVars
    PROVE  EvolutionInv'
  <1>1. LayerInv' /\ JudgeTypes'
    BY LayerStep, JudgeTypesStep DEF EvolutionInv
  <1>2. CASE UNCHANGED evolutionVars
    <2>1. RequestReads' /\ StoreTypes'
      BY <1>2 DEF EvolutionInv, RequestReads, Reading, StoreTypes, evolutionVars, worldVars,
                  effectVars
    <2> QED
      BY <1>1, <2>1 DEF EvolutionInv
  <1>3. ASSUME NEW r \in Requests, RequestNext(r) PROVE RequestReads' /\ StoreTypes'
    BY <1>3, AnswerTypes, ClassTypes, DnaTypes, CountTypesKept DEF RequestNext
  <1>4. CASE AkasaCrash
    <2>1. Reading("none", 1, 0)
      BY EvolutionBounds DEF Reading, RequestSteps
    <2>2. RequestReads'
      BY <1>4, <2>1 DEF AkasaCrash, Waiting, RequestReads, Reading
    <2>3. akasaCrashes' \in 0..MaxAkasaCrashes
      BY <1>4, EvolutionBounds DEF AkasaCrash, EvolutionInv, StoreTypes
    <2>4. StoreTypes /\ UNCHANGED <<runState, verdicts, classRow, dna, confirmedRuns, strikes,
                                     akasaFaults>>
      BY <1>4 DEF AkasaCrash, EvolutionInv, effectVars
    <2>5. StoreTypes'
      BY <2>3, <2>4 DEF StoreTypes
    <2> QED
      BY <1>1, <2>2, <2>5 DEF EvolutionInv
  <1> QED
    BY <1>1, <1>2, <1>3, <1>4, JudgingTypes DEF EvolutionNext, EvolutionInv

LEMMA EvolutionStart == EvolutionInit => EvolutionInv
  <1> SUFFICES ASSUME EvolutionInit PROVE EvolutionInv
    OBVIOUS
  <1>1. JudgeTypes
    BY DEF EvolutionInit, JudgeTypes
  <1>2. Reading("none", 1, 0)
    BY EvolutionBounds DEF Reading, RequestSteps
  <1>3. RequestReads
    BY <1>2 DEF EvolutionInit, Waiting, RequestReads
  <1>4. Len(verdicts) <= MaxVerdicts
    BY BacklogAssumption DEF EvolutionInit
  <1>5. StoreTypes
    BY <1>4, EvolutionBounds DEF EvolutionInit, StoreTypes, Unlearned
  <1> QED
    BY <1>1, <1>3, <1>5, LayerStart DEF EvolutionInv

LEMMA EvolutionTypes == EvolutionInv => EvolutionTypeOK
  <1> SUFFICES ASSUME EvolutionInv PROVE EvolutionTypeOK
    OBVIOUS
  <1>1. verdicts \in BoundedSeq(VerdictRows, MaxVerdicts)
    <2> DEFINE length == Len(verdicts)
    <2>1. verdicts \in [1..length -> VerdictRows] /\ length \in Nat
      BY LenProperties DEF EvolutionInv, LayerInv, RequestTyped
    <2>2. length <= MaxVerdicts
      BY DEF EvolutionInv, StoreTypes
    <2> HIDE DEF length
    <2>3. length \in 0..MaxVerdicts
      BY <2>1, <2>2, EvolutionBounds
    <2> QED
      BY <2>1, <2>3 DEF BoundedSeq, SeqOf
  <1>2. \A r \in Requests : request[r].step \in RequestSteps /\ request[r].on \in 1..MaxVerdicts
    BY DEF EvolutionInv, RequestReads, Reading
  <1>3. \A p \in EvolutionPolls : poll[p].todo \subseteq Runs /\ poll[p].bot \in Agents \cup {Stranger}
    BY DEF EvolutionInv, JudgeTypes
  <1>4. council \in [Agents -> Nat] /\ signals \in [Agents -> Nat]
    BY DEF EvolutionInv, JudgeTypes, LayerInv, LayerTypes
  <1> QED
    BY <1>1, <1>2, <1>3, <1>4 DEF EvolutionInv, StoreTypes, EvolutionTypeOK

\* What a request of executeGodLayer carries from the read to the write of a step is of the
\* kind of the table it ends in, whatever is written, fails or restarts in between: a class,
\* a version above 0, a count, fewer strikes than unlearn (EvolutionTypeOK).
THEOREM EvolutionTyped == EvolutionSpec => []EvolutionTypeOK
  BY EvolutionStart, EvolutionStep, EvolutionTypes, PTL DEF EvolutionSpec

-------------------------------------------------------------------------------
(* The services around a run. *)

\* The services run next to each other and share nothing but the moment: every behaviour
\* of the platform is one of each, with whatever is proved of it alone.
THEOREM PlatformComposes ==
    PlatformSpec => GatewaySpec /\ BillingSpec /\ EvolutionSpec /\ LinkSpec
  <1>1. PlatformInit => GatewayInit /\ BillingInit /\ EvolutionInit /\ LinkInit
    BY DEF PlatformInit
  <1>2. [PlatformNext]_platformVars => [GatewayNext]_gatewayVars
    BY DEF PlatformNext, platformVars
  <1>3. [PlatformNext]_platformVars => [BillingNext]_billingVars
    BY DEF PlatformNext, platformVars
  <1>4. [PlatformNext]_platformVars => [EvolutionNext]_evolutionVars
    BY DEF PlatformNext, platformVars, EvolutionNext
  <1>5. [PlatformNext]_platformVars => [LinkNext]_linkVars
    BY DEF PlatformNext, platformVars
  <1> QED
    BY <1>1, <1>2, <1>3, <1>4, <1>5, PTL
    DEF PlatformSpec, GatewaySpec, BillingSpec, EvolutionSpec, LinkSpec

\* The types of all four services hold whichever of them runs (PlatformTypeOK).
THEOREM PlatformTyped == PlatformSpec => []PlatformTypeOK
  <1>1. BillingSpec => []BillingTypeOK
    <2>1. BillingInit => BillingTypeOK
      BY BillingInitially DEF ChargesInv
    <2> QED
      BY <2>1, BillingTypeStep, PTL DEF BillingSpec
  <1>2. GatewayTypeOK /\ BillingTypeOK /\ EvolutionTypeOK /\ LinkTypeOK => PlatformTypeOK
    BY DEF PlatformTypeOK
  <1> QED
    BY <1>1, <1>2, PlatformComposes, GatewayTyped, EvolutionTyped, LinkTyped, PTL
===============================================================================
