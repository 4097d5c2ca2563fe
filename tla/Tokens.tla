------------------------------- MODULE Tokens -------------------------------
(***************************************************************************)
(* The parent's session: the API client (src/Bolo services/api/client.ts)  *)
(* with its tokens in memory and in storage, and the server's refresh      *)
(* tokens (identity/service.go).                                           *)
(*                                                                         *)
(* A pair of tokens is a number; 0 stands for none.  A pair belongs to the *)
(* sign-in it descends from.  A request sends the access token in memory;  *)
(* on 401 it joins the one refresh under way, or starts it, and is sent    *)
(* once more.  The refresh call runs on the server in three queries, and   *)
(* goes on there when the client has given up on it.  AsyncStorage does    *)
(* its writes in the order they were asked for.                            *)
(***************************************************************************)
EXTENDS Integers, Sequences, FiniteSets, SequencesExt

CONSTANTS
    Requests,   \* the requests the screens may have under way
    MaxSignIns, \* bound: sign-ins
    MaxCalls,   \* bound: refresh calls
    MaxFaults   \* bound: failures and crashes

ASSUME TokensAssumption == {MaxSignIns, MaxCalls, MaxFaults} \subseteq Nat

VARIABLES
    tokens,    \* the pair in memory
    disk,      \* the pair in bolo.tokens.v1
    writes,    \* writes to it not done, oldest first
    requests,  \* by request: its step and the pair whose access token it sent
    refresh,   \* refreshInFlight: its step and its call
    loaded,    \* loadTokens has run in this launch
    pairs,     \* pairs issued: the sign-in each belongs to, the pair it came from
    live,      \* pairs whose refresh token is stored, not revoked and not expired
    stale,     \* pairs up to this one have an access token that expired
    calls,     \* refresh calls: the pair presented, the step, the pair issued
    wanted,    \* history: the sign-in the parent wants, 0 when signed out
    marks,     \* history: what happened so far
    faults

clientVars == <<tokens, disk, writes, requests, refresh, loaded>>
serverVars == <<pairs, live, stale, calls>>
vars == <<clientVars, serverVars, wanted, marks, faults>>

Marks == {"aborted", "failed", "crashed", "expired", "race", "lost"}
Pairs == DOMAIN pairs
Done == [step |-> "idle", access |-> 0]
NoRefresh == [step |-> "idle", call |-> 0]

Fault == faults < MaxFaults /\ faults' = faults + 1
Mark(m) == marks' = marks \cup {m}

-----------------------------------------------------------------------------
(* Tokens in memory and in storage.                                        *)

\* The memory is set at once; the write is asked for with what it holds.
SetTokens(pair, byRefresh) ==
    /\ tokens' = pair
    /\ writes' = Append(writes, [pair |-> pair, byRefresh |-> byRefresh])

\* Faulty: nothing is written.
SaveTokensInMemory(pair, byRefresh) == tokens' = pair /\ UNCHANGED writes

\* Faulty: the stored pair stays.
ClearTokensInMemory(byRefresh) == tokens' = 0 /\ UNCHANGED writes

SaveTokens(pair, byRefresh) == SetTokens(pair, byRefresh)
ClearTokens(byRefresh) == SetTokens(0, byRefresh)

LoadTokens ==
    /\ ~loaded /\ loaded' = TRUE
    /\ tokens' = disk
    /\ UNCHANGED <<disk, writes, requests, refresh, serverVars, wanted, marks, faults>>

\* A read that throws falls back to an empty map: as if signed out.
LoadFails ==
    /\ ~loaded /\ loaded' = TRUE /\ Fault
    /\ Mark("failed")
    /\ UNCHANGED <<tokens, disk, writes, requests, refresh, serverVars, wanted>>

-----------------------------------------------------------------------------
(* Requests.                                                               *)

Send(q) ==
    /\ loaded /\ requests[q] = Done
    /\ Len(calls) + Cardinality({r \in Requests : requests[r].step = "first"}) < MaxCalls
    /\ requests' = [requests EXCEPT ![q] = [step |-> "first", access |-> tokens]]
    /\ UNCHANGED <<tokens, disk, writes, refresh, loaded, serverVars, wanted, marks, faults>>

Accepted(q) == requests[q].access > stale

\* Faulty: each request starts a refresh of its own.
EnsureOwnRefresh(q) ==
    /\ requests' = [requests EXCEPT ![q] = [step |-> "waiting", access |-> 0]]
    /\ calls' = Append(calls, [token |-> tokens, step |-> "select", pair |-> 0])
    /\ refresh' = [step |-> "sent", call |-> Len(calls) + 1]

\* Joins the refresh under way or starts one, with the tokens of this moment.
EnsureFreshTokens(q) ==
    /\ requests' = [requests EXCEPT ![q] = [step |-> "waiting", access |-> 0]]
    /\ IF refresh.step # "idle" THEN UNCHANGED <<refresh, calls>>
       ELSE /\ calls' = Append(calls, [token |-> tokens, step |-> "select", pair |-> 0])
            /\ refresh' = [step |-> "sent", call |-> Len(calls) + 1]

\* Success, a second 401, or a 401 without tokens is handed to the caller.
Answer(q) ==
    /\ requests[q].step \in {"first", "second"}
    /\ IF requests[q].step = "second" \/ Accepted(q) \/ tokens = 0
       THEN requests' = [requests EXCEPT ![q] = Done] /\ UNCHANGED <<refresh, calls>>
       ELSE EnsureFreshTokens(q)
    /\ UNCHANGED <<tokens, disk, writes, loaded, pairs, live, stale, wanted, marks, faults>>

\* No connection, or no answer before the abort timer: the caller gets an error.
RequestFails(q) ==
    /\ requests[q].step \in {"first", "second"} /\ Fault
    /\ requests' = [requests EXCEPT ![q] = Done]
    /\ UNCHANGED <<tokens, disk, writes, refresh, loaded, serverVars, wanted, marks>>

-----------------------------------------------------------------------------
(* The refresh, on the client.                                             *)

Waiting == {q \in Requests : requests[q].step = "waiting"}
Call == calls[refresh.call]

\* Faulty: the requests that waited are not told.
EndRefreshUnresolved(refreshed) == refresh' = NoRefresh /\ UNCHANGED requests

\* The promise resolves: the requests that waited are sent again, with the
\* tokens of this moment, or fail with their 401.
EndRefresh(refreshed) ==
    /\ refresh' = NoRefresh
    /\ requests' = [q \in Requests |->
            IF q \notin Waiting THEN requests[q]
            ELSE IF refreshed THEN [step |-> "second", access |-> tokens] ELSE Done]

RefreshAnswered ==
    /\ refresh.step = "sent"
    /\ \/ /\ Call.step = "issued"
          /\ SaveTokens(Call.pair, TRUE)
          /\ refresh' = [refresh EXCEPT !.step = "saving"]
          /\ UNCHANGED requests
       \/ /\ Call.step = "refused"
          /\ ClearTokens(TRUE)
          /\ refresh' = [refresh EXCEPT !.step = "clearing"]
          /\ UNCHANGED requests
       \/ /\ Call.step = "failed"
          /\ EndRefresh(FALSE)
          /\ UNCHANGED <<tokens, writes>>
    /\ UNCHANGED <<disk, loaded, serverVars, wanted, marks, faults>>

\* The tokens are kept; the call may still run on the server.
RefreshAborted ==
    /\ refresh.step = "sent" /\ Fault
    /\ EndRefresh(FALSE)
    /\ Mark("aborted")
    /\ UNCHANGED <<tokens, disk, writes, loaded, serverVars, wanted>>

\* The oldest write ends, and with it the refresh that awaits it.
WriteEnds ==
    /\ writes # <<>>
    /\ writes' = Tail(writes)
    /\ IF Head(writes).byRefresh THEN EndRefresh(refresh.step = "saving")
                                ELSE UNCHANGED <<refresh, requests>>
    /\ UNCHANGED <<tokens, loaded, serverVars, wanted>>

Losing == IF writes # <<>> /\ Head(writes).byRefresh /\ refresh.step = "clearing" THEN {"lost"} ELSE {}

Write ==
    /\ WriteEnds
    /\ disk' = Head(writes).pair
    /\ marks' = marks \cup Losing
    /\ UNCHANGED faults

\* The fallback map takes it; the stored value stays.
WriteFails ==
    /\ WriteEnds /\ Fault
    /\ marks' = marks \cup Losing \cup {"failed"}
    /\ UNCHANGED disk

-----------------------------------------------------------------------------
(* The refresh, on the server.                                             *)

Step(c, step) == calls' = [calls EXCEPT ![c].step = step]
Calling == UNCHANGED <<clientVars, stale, wanted>>

SelectToken(c) ==
    /\ calls[c].step = "select"
    /\ Step(c, IF calls[c].token \in live THEN "revoke" ELSE "refused")
    /\ UNCHANGED <<pairs, live, marks, faults>> /\ Calling

\* A token already revoked is no error: the update just changes no row.
RevokeToken(c) ==
    /\ calls[c].step = "revoke"
    /\ live' = live \ {calls[c].token}
    /\ Step(c, "issue")
    /\ UNCHANGED <<pairs, marks, faults>> /\ Calling

\* Faulty: the new refresh token is not stored.
IssueTokensUnstored(c) ==
    /\ calls[c].step = "issue"
    /\ pairs' = Append(pairs, [owner |-> pairs[calls[c].token].owner, from |-> calls[c].token])
    /\ calls' = [calls EXCEPT ![c].step = "issued", ![c].pair = Len(pairs) + 1]
    /\ UNCHANGED <<live, marks, faults>> /\ Calling

IssueTokens(c) ==
    /\ calls[c].step = "issue"
    /\ pairs' = Append(pairs, [owner |-> pairs[calls[c].token].owner, from |-> calls[c].token])
    /\ live' = live \cup {Len(pairs) + 1}
    /\ calls' = [calls EXCEPT ![c].step = "issued", ![c].pair = Len(pairs) + 1]
    /\ UNCHANGED <<marks, faults>> /\ Calling

\* An error of the first query is answered like an unknown token.
CallFails(c) ==
    /\ calls[c].step \in {"select", "revoke", "issue"} /\ Fault
    /\ Step(c, IF calls[c].step = "select" THEN "refused" ELSE "failed")
    /\ Mark("failed")
    /\ UNCHANGED <<pairs, live>> /\ Calling

-----------------------------------------------------------------------------
(* The parent, time, and launches.                                         *)

\* Meanwhile a refresh of the old session may be under way.
Races == marks' = marks \cup (IF refresh.step # "idle" THEN {"race"} ELSE {})

\* register or login, and saveTokens with the pair it returns.
SignIn ==
    /\ loaded /\ Cardinality({n \in Pairs : pairs[n].from = 0}) < MaxSignIns
    /\ pairs' = Append(pairs, [owner |-> Len(pairs) + 1, from |-> 0])
    /\ live' = live \cup {Len(pairs) + 1}
    /\ SaveTokens(Len(pairs) + 1, FALSE)
    /\ wanted' = Len(pairs) + 1
    /\ Races
    /\ UNCHANGED <<disk, requests, refresh, loaded, stale, calls, faults>>

SignOut ==
    /\ loaded /\ wanted # 0
    /\ ClearTokens(FALSE)
    /\ wanted' = 0
    /\ Races
    /\ UNCHANGED <<disk, requests, refresh, loaded, serverVars, faults>>

\* They live equally long: the oldest goes first.
AccessExpires ==
    /\ stale < Len(pairs)
    /\ stale' = stale + 1
    /\ UNCHANGED <<clientVars, pairs, live, calls, wanted, marks, faults>>

\* The oldest refresh token, unused for its month, runs out; the access token
\* issued with it did long ago.
RefreshTokenExpires ==
    /\ live # {} /\ Min(live) <= stale /\ Fault
    /\ live' = live \ {Min(live)}
    /\ Mark("expired")
    /\ UNCHANGED <<clientVars, pairs, stale, calls, wanted>>

\* The process ends with whatever it was doing.
Relaunch ==
    /\ loaded /\ Fault
    /\ tokens' = 0 /\ writes' = <<>> /\ loaded' = FALSE
    /\ requests' = [q \in Requests |-> Done]
    /\ refresh' = NoRefresh
    /\ marks' = marks \cup (IF writes # <<>> \/ refresh.step = "sent" THEN {"crashed"} ELSE {})
    /\ UNCHANGED <<disk, serverVars, wanted>>

-----------------------------------------------------------------------------
Init ==
    /\ tokens = 0 /\ disk = 0 /\ writes = <<>> /\ loaded = FALSE
    /\ requests = [q \in Requests |-> Done]
    /\ refresh = NoRefresh
    /\ pairs = <<>> /\ live = {} /\ stale = 0 /\ calls = <<>>
    /\ wanted = 0 /\ marks = {} /\ faults = 0

Requesting(q) == Send(q) \/ Answer(q) \/ RequestFails(q)
Refreshing == RefreshAnswered \/ RefreshAborted
Writing == Write \/ WriteFails
Serving(c) == SelectToken(c) \/ RevokeToken(c) \/ IssueTokens(c) \/ CallFails(c)

Next ==
    \/ LoadTokens \/ LoadFails
    \/ \E q \in Requests : Requesting(q)
    \/ Refreshing \/ Writing
    \/ \E c \in DOMAIN calls : Serving(c)
    \/ SignIn \/ SignOut \/ AccessExpires \/ RefreshTokenExpires \/ Relaunch

\* The abort timers end every fetch, the server runs, storage answers.
Fairness ==
    /\ \A q \in Requests : WF_vars(Answer(q))
    /\ WF_vars(Refreshing) /\ WF_vars(Writing)
    /\ \A c \in 1..MaxCalls : WF_vars(c \in DOMAIN calls /\ Serving(c))

Spec == Init /\ [][Next]_vars /\ Fairness

-----------------------------------------------------------------------------
(* Correctness.                                                            *)

RefreshWrites == {i \in DOMAIN writes : writes[i].byRefresh}

\* The types of the variables.  Requests wait only while a refresh is under
\* way, and a refresh awaits its own write and no other.
TokensTypeOK ==
    /\ tokens \in {0} \cup Pairs /\ disk \in {0} \cup Pairs
    /\ \A w \in Range(writes) : w.pair \in {0} \cup Pairs /\ w.byRefresh \in BOOLEAN
    /\ requests \in [Requests -> [step : {"idle", "first", "waiting", "second"}, access : {0} \cup Pairs]]
    /\ refresh.step \in {"idle", "sent", "saving", "clearing"}
    /\ refresh.call \in {0} \cup DOMAIN calls
    /\ Waiting # {} => refresh.step # "idle"
    /\ refresh.step \in {"saving", "clearing"} <=> RefreshWrites # {}
    /\ \A i, j \in RefreshWrites : i = j
    /\ live \subseteq Pairs /\ stale \in 0..Len(pairs)
    /\ wanted \in {0} \cup Pairs /\ marks \subseteq Marks

Quiet == loaded /\ refresh.step = "idle" /\ writes = <<>>

\* Between refreshes the client holds a refresh token the server accepts, and
\* has it stored for the next launch, however many requests met the expiry
\* together; it takes a lost answer, a crash or an error to break that, or the
\* token's own end (ensureFreshTokens, Service.Refresh).
HeldTokenWorks ==
    Quiet /\ tokens # 0 /\ marks \cap {"aborted", "failed", "crashed", "expired"} = {} =>
        tokens \in live /\ disk = tokens

\* The parent is never signed out by the client without such a failure or an
\* expired refresh token (client.ts: rotated away or expired, this session is
\* over).
SessionKept == "lost" \in marks => marks \cap {"aborted", "failed", "crashed", "expired"} # {}

\* A session without failures goes on, in memory, in storage and on the server.
SessionSurvives == HeldTokenWorks /\ SessionKept

\* The client works in the sign-in the parent asked for last, or in none:
\* nothing of an earlier one comes back after a sign-out or under another
\* sign-in.  A refresh under way at that moment breaks this (client.ts:147
\* stores what it gets), and so does a write that never reached the storage.
SessionIsWanted ==
    marks \cap {"race", "crashed", "failed"} = {} /\ tokens # 0 => pairs[tokens].owner = wanted

\* A refresh token is exchanged for one pair at most, unless the client sent
\* it again while a call it gave up on, or crashed under, was running
\* (Service.Refresh: the presented token is revoked and a new pair is issued).
SpentOnce ==
    marks \cap {"aborted", "crashed"} = {} =>
        \A m, n \in Pairs : pairs[m].from = pairs[n].from /\ pairs[m].from # 0 => m = n

\* Every request ends, also when its access token expired and the refresh it
\* waits for fails.
RequestsSettle == \A q \in Requests : requests[q].step # "idle" ~> requests[q] = Done
=============================================================================
