------------------------------ MODULE Connections ------------------------------
(* The connection of one user to one tool: a row of tool_connections, unique   *)
(* per user and tool, with tokens that several requests refresh, replace and   *)
(* delete without a lock.  A token is the grant it descends from and its       *)
(* generation; the provider of the tool is external.                           *)
EXTENDS Naturals

CONSTANTS
    Readers,        \* calls of getValidToken under way at once
    Callbacks,      \* OAuth callbacks under way at once
    Rotates,        \* the provider takes each refresh token once only
    MaxGrants,      \* bound: times the user authorises the tool
    MaxIds,         \* bound: rows created, one after the other
    MaxRenewals,    \* bound: refreshes of one grant
    MaxLinkFaults   \* bound: failures of the provider, the database or a decryption

ASSUME ConnectionsAssumption ==
    /\ Rotates \in BOOLEAN
    /\ {MaxGrants, MaxIds, MaxRenewals, MaxLinkFaults} \subseteq Nat

VARIABLES
    row,        \* the row, or NoRow
    ids,        \* rows created so far
    granted,    \* grants handed out so far
    newest,     \* the last generation the provider has issued of each grant
    dropped,    \* grants that were in a row when it was deleted
    reader,     \* where each getValidToken is, and the row it has read
    callback,   \* where each callback is, and its grant
    linkFaults

linkVars == <<row, ids, granted, newest, dropped, reader, callback, linkFaults>>

Grants == 1..MaxGrants
NoToken == [grant |-> 0, gen |-> 0]
Tokens == [grant : 0..MaxGrants, gen : 0..MaxRenewals]
NoRow == [id |-> 0, kind |-> "none", status |-> "none", access |-> NoToken,
          refresh |-> NoToken, stale |-> FALSE]
Rows == [id : 0..MaxIds, kind : {"none", "oauth", "api_key"},
         status : {"none", "connected", "expired", "errored"},
         access : Tokens, refresh : Tokens, stale : BOOLEAN]
NoReader == [step |-> "idle", of |-> 0, with |-> NoToken]

LinkTypeOK ==
    /\ row \in Rows /\ ids \in 0..MaxIds /\ granted \in 0..MaxGrants
    /\ newest \in [Grants -> 0..MaxRenewals]
    /\ dropped \subseteq Grants
    /\ reader \in [Readers -> [step : {"idle", "read", "fetch", "write", "fail"},
                               of : 0..MaxIds, with : Tokens]]
    /\ callback \in [Callbacks -> {"idle"} \X {0} \cup {"insert", "update"} \X Grants]
    /\ linkFaults \in 0..MaxLinkFaults

LinkInit ==
    /\ row = NoRow /\ ids = 0 /\ granted = 0
    /\ newest = [g \in Grants |-> 0]
    /\ dropped = {}
    /\ reader = [r \in Readers |-> NoReader]
    /\ callback = [c \in Callbacks |-> <<"idle", 0>>]
    /\ linkFaults = 0

LinkFault == linkFaults < MaxLinkFaults /\ linkFaults' = linkFaults + 1

Token(g, n) == [grant |-> g, gen |-> n]

\* The tokens of a new grant: Slack hands out no refresh token.
FreshTokens(g) == {[access |-> Token(g, 0), refresh |-> t] : t \in {NoToken, Token(g, 0)}}

-------------------------------------------------------------------------------
(* The routes of tool-connections, and the callback of the OAuth flow. *)

RequestsUnchanged == UNCHANGED <<reader, callback>>

\* POST: a second connection for the tool is refused, 409.
Create(kind) ==
    /\ granted < MaxGrants /\ granted' = granted + 1
    /\ \/ /\ row = NoRow /\ ids < MaxIds /\ ids' = ids + 1
          /\ \E t \in FreshTokens(granted + 1) :
                row' = [id |-> ids + 1, kind |-> kind, status |-> "connected",
                        access |-> IF kind = "oauth" THEN t.access ELSE NoToken,
                        refresh |-> IF kind = "oauth" THEN t.refresh ELSE NoToken,
                        stale |-> FALSE]
       \/ row # NoRow /\ UNCHANGED <<row, ids>>
    /\ RequestsUnchanged /\ UNCHANGED <<newest, dropped, linkFaults>>

Delete ==
    /\ row # NoRow /\ row' = NoRow
    /\ dropped' = dropped \cup ({row.access.grant, row.refresh.grant} \ {0})
    /\ RequestsUnchanged /\ UNCHANGED <<ids, granted, newest, linkFaults>>

\* PATCH refresh: the tokens of the body, and the old refresh token and expiry when it has
\* none.
Replace(id) ==
    /\ row.id = id /\ granted < MaxGrants /\ granted' = granted + 1
    /\ \E t \in FreshTokens(granted + 1), expiry \in {FALSE, row.stale} :
          row' = [row EXCEPT !.status = "connected", !.access = t.access, !.stale = expiry,
                             !.refresh = IF t.refresh = NoToken THEN @ ELSE t.refresh]
    /\ RequestsUnchanged /\ UNCHANGED <<ids, newest, dropped, linkFaults>>

\* POST test: lastUsedAt when the credential can be decrypted; otherwise "errored".
TestFails ==
    /\ row # NoRow /\ LinkFault
    /\ row' = [row EXCEPT !.status = "errored"]
    /\ RequestsUnchanged /\ UNCHANGED <<ids, granted, newest, dropped>>

\* The callback has exchanged its code for tokens.
Exchange(c) ==
    /\ callback[c][1] = "idle" /\ granted < MaxGrants /\ granted' = granted + 1
    /\ callback' = [callback EXCEPT ![c] = <<"insert", granted + 1>>]
    /\ UNCHANGED <<row, ids, newest, dropped, reader, linkFaults>>

InsertGrant(c) ==
    /\ callback[c][1] = "insert"
    /\ \/ /\ row = NoRow /\ ids < MaxIds /\ ids' = ids + 1
          /\ \E t \in FreshTokens(callback[c][2]) :
                row' = [id |-> ids + 1, kind |-> "oauth", status |-> "connected",
                        access |-> t.access, refresh |-> t.refresh, stale |-> FALSE]
          /\ callback' = [callback EXCEPT ![c] = <<"idle", 0>>]
       \/ /\ row # NoRow
          /\ callback' = [callback EXCEPT ![c][1] = "update"]
          /\ UNCHANGED <<row, ids>>
    /\ UNCHANGED <<granted, newest, dropped, reader, linkFaults>>

\* The row the insert ran into is updated in place, with its kind left as it is; when it
\* has gone meanwhile nothing is stored, and the user is told all is well.
UpdateGrant(c) ==
    /\ callback[c][1] = "update"
    /\ \E t \in FreshTokens(callback[c][2]) :
          row' = IF row = NoRow THEN row
                 ELSE [row EXCEPT !.status = "connected", !.access = t.access,
                                  !.refresh = t.refresh, !.stale = FALSE]
    /\ callback' = [callback EXCEPT ![c] = <<"idle", 0>>]
    /\ UNCHANGED <<ids, granted, newest, dropped, reader, linkFaults>>

CallbackFails(c) ==
    /\ callback[c][1] # "idle" /\ LinkFault
    /\ callback' = [callback EXCEPT ![c] = <<"idle", 0>>]
    /\ UNCHANGED <<row, ids, granted, newest, dropped, reader>>

-------------------------------------------------------------------------------
(* getValidToken. *)

\* Less than five minutes are left of the access token.
GrowsStale ==
    /\ row.access # NoToken /\ row.refresh # NoToken /\ ~row.stale
    /\ row' = [row EXCEPT !.stale = TRUE]
    /\ RequestsUnchanged /\ UNCHANGED <<ids, granted, newest, dropped, linkFaults>>

\* GET tool-credential looks the row up by user and tool, and takes only a connected
\* one; the GitHub routes ask for no status.
Lookup(r) ==
    /\ reader[r].step = "idle" /\ row # NoRow
    /\ reader' = [reader EXCEPT ![r] = [step |-> "read", of |-> row.id, with |-> NoToken]]
    /\ UNCHANGED <<row, ids, granted, newest, dropped, callback, linkFaults>>

\* A row that has gone, an API key, a token still good: nothing changes.
Read(r) ==
    /\ reader[r].step = "read"
    /\ reader' = [reader EXCEPT ![r] =
                    IF row.id = reader[r].of /\ row.kind = "oauth" /\ row.stale
                      THEN [@ EXCEPT !.step = "fetch", !.with = row.refresh]
                      ELSE NoReader]
    /\ UNCHANGED <<row, ids, granted, newest, dropped, callback, linkFaults>>

\* External: the provider issues the next generation, unless the token has been used.
Accepts(t) == newest[t.grant] < MaxRenewals /\ (Rotates => t.gen = newest[t.grant])

Renew(r) ==
    LET t == reader[r].with IN
    /\ reader[r].step = "fetch" /\ Accepts(t)
    /\ newest' = [newest EXCEPT ![t.grant] = @ + 1]
    /\ reader' = [reader EXCEPT ![r].step = "write",
                                ![r].with = Token(t.grant, newest[t.grant] + 1)]
    /\ UNCHANGED <<row, ids, granted, dropped, callback, linkFaults>>

Refused(r) ==
    LET t == reader[r].with IN
    /\ reader[r].step = "fetch"
    /\ \/ Rotates /\ t.gen # newest[t.grant] /\ UNCHANGED linkFaults
       \/ LinkFault
    /\ reader' = [reader EXCEPT ![r].step = "fail"]
    /\ UNCHANGED <<row, ids, granted, newest, dropped, callback>>

\* Mutant of Still: the update goes by user and tool.
StillAny(id) == row # NoRow

\* The update goes by the id that was read.
Still(id) == row.id = id

\* A refresh token comes with the access token when the provider rotates them; the old
\* expiry stays when the answer has none.
WriteTokens(r) ==
    /\ reader[r].step = "write"
    /\ \E expiry \in {FALSE, row.stale} :
          row' = IF Still(reader[r].of)
                   THEN [row EXCEPT !.status = "connected", !.access = reader[r].with,
                                    !.refresh = IF Rotates THEN reader[r].with ELSE @,
                                    !.stale = expiry]
                   ELSE row
    /\ reader' = [reader EXCEPT ![r] = NoReader]
    /\ UNCHANGED <<ids, granted, newest, dropped, callback, linkFaults>>

\* The error of the provider or of the update above marks the row, whatever it holds now.
MarkExpired(r) ==
    /\ \/ reader[r].step = "fail" /\ UNCHANGED linkFaults
       \/ reader[r].step = "write" /\ LinkFault
    /\ row' = IF Still(reader[r].of) THEN [row EXCEPT !.status = "expired"] ELSE row
    /\ reader' = [reader EXCEPT ![r] = NoReader]
    /\ UNCHANGED <<ids, granted, newest, dropped, callback>>

RouteNext ==
    \/ \E kind \in {"oauth", "api_key"} : Create(kind)
    \/ Delete \/ TestFails \/ GrowsStale
    \/ \E id \in 1..MaxIds : Replace(id)
CallbackNext(c) == Exchange(c) \/ InsertGrant(c) \/ UpdateGrant(c) \/ CallbackFails(c)
ReaderNext(r) ==
    Lookup(r) \/ Read(r) \/ Renew(r) \/ Refused(r) \/ WriteTokens(r) \/ MarkExpired(r)

LinkNext ==
    RouteNext \/ (\E c \in Callbacks : CallbackNext(c)) \/ (\E r \in Readers : ReaderNext(r))

LinkSpec == LinkInit /\ [][LinkNext]_linkVars

-------------------------------------------------------------------------------
(* Properties. *)

\* DELETE of a connection, and the WHERE id of getValidToken: a token of a connection the
\* user has deleted never comes back, although a refresh of it may still be under way
\* when the user connects the tool again.
DeletedStaysGone == {row.access.grant, row.refresh.grant} \cap dropped = {}
===============================================================================
