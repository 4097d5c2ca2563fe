---------------------------- MODULE Tokens_proofs ---------------------------
(***************************************************************************)
(* Theorems about the parent's session, for every set of requests and      *)
(* every bound on sign-ins, refresh calls and faults.                      *)
(***************************************************************************)
EXTENDS Tokens, SequenceTheorems, TLAPS

CallSteps == {"select", "revoke", "issue", "issued", "refused", "failed"}
RequestSteps == {"idle", "first", "waiting", "second"}
RefreshSteps == {"idle", "sent", "saving", "clearing"}
USE DEF CallSteps, RequestSteps, RefreshSteps

PairRecord == [owner: Nat, from: Nat]
CallRecord == [token: Nat, step: CallSteps, pair: Nat]
WriteRecord == [pair: Nat, byRefresh: BOOLEAN]

(***************************************************************************)
(* Type correctness.  Every pair the client, its storage or a call knows   *)
(* is one the server issued; a call presents a pair.                       *)
(***************************************************************************)
Known == 0..Len(pairs)

PairsOK ==
    /\ pairs \in Seq(PairRecord)
    /\ \A n \in 1..Len(pairs) : pairs[n].from \in Known
    /\ live \subseteq 1..Len(pairs) /\ stale \in Known

CallsOK ==
    /\ calls \in Seq(CallRecord)
    /\ \A c \in 1..Len(calls) :
        /\ calls[c].token \in 1..Len(pairs)
        /\ calls[c].step = "issued" => calls[c].pair \in 1..Len(pairs)

ServerOK == PairsOK /\ CallsOK

MemoryOK == tokens \in Known /\ disk \in Known /\ loaded \in BOOLEAN

WritesOK ==
    /\ writes \in Seq(WriteRecord)
    /\ \A i \in 1..Len(writes) : writes[i].pair \in Known

RequestsOK ==
    /\ requests \in [Requests -> [step: RequestSteps, access: Nat]]
    /\ \A q \in Requests : requests[q].access \in Known

RefreshOK ==
    /\ refresh \in [step: RefreshSteps, call: Nat]
    /\ refresh.call \in 0..Len(calls)
    /\ refresh.step = "sent" => refresh.call # 0

\* Requests wait for a refresh, a refresh for its write and no other one.
AwaitOK ==
    /\ refresh.step = "idle" => Waiting = {}
    /\ refresh.step \in {"saving", "clearing"} <=> RefreshWrites # {}
    /\ \A i, j \in RefreshWrites : i = j

\* A launch begins with nothing in memory and nothing under way.
LaunchOK == ~loaded => tokens = 0 /\ writes = <<>> /\ refresh.step = "idle"

HistoryOK == wanted \in Known /\ marks \subseteq Marks /\ faults \in Nat

TypeInv == /\ ServerOK /\ MemoryOK /\ WritesOK /\ RequestsOK /\ RefreshOK
           /\ AwaitOK /\ LaunchOK /\ HistoryOK

LEMMA TypeInit == Init => TypeInv
<1> SUFFICES ASSUME Init PROVE TypeInv
  OBVIOUS
<1> USE DEF Init
<1>1. /\ pairs \in Seq(PairRecord) /\ calls \in Seq(CallRecord) /\ writes \in Seq(WriteRecord)
      /\ Len(pairs) = 0 /\ Len(calls) = 0 /\ Len(writes) = 0 /\ DOMAIN writes = {}
  BY EmptySeq
<1>2. ServerOK /\ MemoryOK /\ WritesOK
  <2>1. 1..Len(pairs) = {} /\ 1..Len(calls) = {} /\ 1..Len(writes) = {} /\ Known = {0}
    BY <1>1 DEF Known
  <2> QED BY <1>1, <2>1 DEF ServerOK, PairsOK, CallsOK, MemoryOK, WritesOK
<1>3. RequestsOK /\ RefreshOK /\ HistoryOK
  BY <1>1 DEF RequestsOK, RefreshOK, HistoryOK, Done, NoRefresh, Known
<1>4. AwaitOK /\ LaunchOK
  BY <1>1 DEF AwaitOK, LaunchOK, Waiting, RefreshWrites, NoRefresh, Done
<1> QED BY <1>2, <1>3, <1>4 DEF TypeInv

LEMMA TypeMeans == TypeInv => TokensTypeOK
<1> SUFFICES ASSUME TypeInv PROVE TokensTypeOK
  OBVIOUS
<1> USE DEF TypeInv
<1>1. Pairs = 1..Len(pairs) /\ Len(pairs) \in Nat /\ {0} \cup Pairs = Known
  BY DEF ServerOK, PairsOK, Pairs, Known
<1>2. DOMAIN calls = 1..Len(calls) /\ Len(calls) \in Nat
  BY DEF ServerOK, CallsOK
<1>3. \A w \in Range(writes) : w.pair \in Known /\ w.byRefresh \in BOOLEAN
  <2>1. ASSUME NEW w \in Range(writes) PROVE w.pair \in Known /\ w.byRefresh \in BOOLEAN
    <3>1. PICK i \in DOMAIN writes : w = writes[i]
      BY <2>1 DEF Range
    <3>2. writes \in Seq(WriteRecord) /\ i \in 1..Len(writes) /\ writes[i] \in WriteRecord
      BY <3>1 DEF WritesOK
    <3> QED BY <3>1, <3>2 DEF WritesOK, WriteRecord
  <2> QED BY <2>1
<1>4. requests \in [Requests -> [step: RequestSteps, access: Known]]
  BY DEF RequestsOK
<1>5. refresh.step \in RefreshSteps /\ refresh.call \in {0} \cup DOMAIN calls
  BY <1>2 DEF RefreshOK
<1> QED
  BY <1>1, <1>3, <1>4, <1>5
     DEF MemoryOK, AwaitOK, ServerOK, PairsOK, HistoryOK, TokensTypeOK

(***************************************************************************)
(* Calls.                                                                  *)
(***************************************************************************)
LEMMA StepOfCall ==
    ASSUME calls \in Seq(CallRecord), NEW c \in 1..Len(calls), NEW step \in CallSteps,
           Step(c, step)
    PROVE  /\ calls' \in Seq(CallRecord) /\ Len(calls') = Len(calls)
           /\ calls'[c].step = step
           /\ calls'[c].token = calls[c].token /\ calls'[c].pair = calls[c].pair
           /\ \A d \in 1..Len(calls) : d # c => calls'[d] = calls[d]
<1>1. calls[c] \in CallRecord
  OBVIOUS
<1> DEFINE call == [calls[c] EXCEPT !.step = step]
<1>2. /\ call \in CallRecord /\ call.step = step
      /\ call.token = calls[c].token /\ call.pair = calls[c].pair
  BY <1>1 DEF CallRecord
<1>3. calls' = [calls EXCEPT ![c] = call]
  BY DEF Step
<1> HIDE DEF call
<1> QED BY <1>2, <1>3

LEMMA IssuedByCall ==
    ASSUME TypeInv, NEW c \in 1..Len(calls), IssueTokens(c)
    PROVE  /\ calls' \in Seq(CallRecord) /\ Len(calls') = Len(calls)
           /\ calls'[c].step = "issued" /\ calls'[c].token = calls[c].token
           /\ calls'[c].pair = Len(pairs) + 1
           /\ \A d \in 1..Len(calls) : d # c => calls'[d] = calls[d]
<1>1. calls \in Seq(CallRecord) /\ calls[c] \in CallRecord /\ Len(pairs) + 1 \in Nat
  BY DEF TypeInv, ServerOK, PairsOK, CallsOK
<1> DEFINE call == [calls[c] EXCEPT !.step = "issued", !.pair = Len(pairs) + 1]
<1>2. /\ call \in CallRecord /\ call.step = "issued"
      /\ call.token = calls[c].token /\ call.pair = Len(pairs) + 1
  BY <1>1 DEF CallRecord
<1>3. calls' = [calls EXCEPT ![c] = call]
  BY DEF IssueTokens
<1> HIDE DEF call
<1> QED BY <1>1, <1>2, <1>3

\* A pair is appended, by a sign-in or a call.
LEMMA PairAdded ==
    ASSUME TypeInv, NEW owner \in Nat, NEW from \in Known,
           pairs' = Append(pairs, [owner |-> owner, from |-> from]),
           live' = live \cup {Len(pairs) + 1}, UNCHANGED stale
    PROVE  /\ PairsOK' /\ Len(pairs') = Len(pairs) + 1
           /\ pairs'[Len(pairs) + 1].owner = owner /\ pairs'[Len(pairs) + 1].from = from
           /\ \A n \in 1..Len(pairs) : pairs'[n] = pairs[n]
<1> DEFINE new == [owner |-> owner, from |-> from]
<1>1. pairs \in Seq(PairRecord) /\ new \in PairRecord
  BY DEF TypeInv, ServerOK, PairsOK, PairRecord, Known
<1>2. new.owner = owner /\ new.from = from
  OBVIOUS
<1> HIDE DEF new
<1>3. /\ pairs' \in Seq(PairRecord) /\ Len(pairs') = Len(pairs) + 1
      /\ pairs'[Len(pairs) + 1] = new
      /\ \A n \in 1..Len(pairs) : pairs'[n] = pairs[n]
  BY <1>1, AppendProperties DEF new
<1>4. PairsOK'
  <2>1. /\ Len(pairs) \in Nat /\ live \subseteq 1..Len(pairs) /\ stale \in 0..Len(pairs)
        /\ from \in 0..Len(pairs)
        /\ \A n \in 1..Len(pairs) : pairs[n].from \in 0..Len(pairs)
    BY <1>1 DEF TypeInv, ServerOK, PairsOK, Known
  <2>2. \A n \in 1..Len(pairs') : n \in 1..Len(pairs) \/ n = Len(pairs) + 1
    BY <1>3, <2>1
  <2>3. \A n \in 1..Len(pairs') : pairs'[n].from \in 0..Len(pairs')
    BY <1>2, <1>3, <2>1, <2>2
  <2>4. live' \subseteq 1..Len(pairs') /\ stale' \in 0..Len(pairs')
    <3>1. /\ live' = live \cup {Len(pairs) + 1} /\ stale' = stale
          /\ Len(pairs') = Len(pairs) + 1
      BY <1>3
    <3>2. \A n \in live : n \in 1..Len(pairs')
      BY <2>1, <3>1
    <3>3. Len(pairs) + 1 \in 1..Len(pairs') /\ stale \in 0..Len(pairs')
      BY <2>1, <3>1
    <3> QED BY <3>1, <3>2, <3>3
  <2> QED BY <1>3, <2>3, <2>4 DEF PairsOK, Known
<1> QED BY <1>2, <1>3, <1>4

LEMMA ServerTypes ==
    ASSUME TypeInv, NEW c \in 1..Len(calls), Serving(c)
    PROVE  TypeInv'
<1> USE DEF TypeInv
<1>1. /\ calls \in Seq(CallRecord) /\ Len(pairs) \in Nat /\ calls[c].token \in 1..Len(pairs)
      /\ pairs[calls[c].token] \in PairRecord
  BY DEF ServerOK, CallsOK, PairsOK
<1>2. UNCHANGED <<clientVars, stale, wanted>>
  BY DEF Serving, SelectToken, RevokeToken, IssueTokens, CallFails, Calling
<1>3. HistoryOK' \/ IssueTokens(c)
  <2>1. SelectToken(c) \/ RevokeToken(c) => UNCHANGED <<marks, faults, pairs>>
    BY DEF SelectToken, RevokeToken
  <2>2. CallFails(c) => marks' = marks \cup {"failed"} /\ faults' = faults + 1 /\ pairs' = pairs
    BY DEF CallFails, Fault, Mark
  <2>3. CASE UNCHANGED <<marks, faults, pairs>>
    BY <1>2, <2>3 DEF HistoryOK, Known
  <2>4. CASE marks' = marks \cup {"failed"} /\ faults' = faults + 1 /\ pairs' = pairs
    BY <1>2, <2>4 DEF HistoryOK, Known, Marks
  <2> QED BY <2>1, <2>2, <2>3, <2>4 DEF Serving
<1>4. ASSUME UNCHANGED pairs, live' \subseteq live, NEW step \in CallSteps \ {"issued"}, Step(c, step)
      PROVE  TypeInv'
  <2>1. /\ calls' \in Seq(CallRecord) /\ Len(calls') = Len(calls)
        /\ calls'[c].step = step
        /\ calls'[c].token = calls[c].token /\ calls'[c].pair = calls[c].pair
        /\ \A d \in 1..Len(calls) : d # c => calls'[d] = calls[d]
    BY <1>1, <1>4, StepOfCall
  <2>2. PairsOK' /\ CallsOK'
    BY <1>2, <1>4, <2>1 DEF ServerOK, PairsOK, CallsOK, Known
  <2>3. ~IssueTokens(c)
    BY <2>1, <1>4 DEF IssueTokens
  <2>4. MemoryOK' /\ WritesOK' /\ RequestsOK' /\ RefreshOK' /\ AwaitOK' /\ LaunchOK'
    BY <1>2, <1>4, <2>1 DEF clientVars, MemoryOK, WritesOK, RequestsOK, RefreshOK, AwaitOK,
         LaunchOK, Known, Waiting, RefreshWrites
  <2> QED BY <1>3, <2>2, <2>3, <2>4 DEF ServerOK
<1>5. CASE SelectToken(c) \/ RevokeToken(c) \/ CallFails(c)
  BY <1>4, <1>5 DEF SelectToken, RevokeToken, CallFails
<1>6. CASE IssueTokens(c)
  <2>1. pairs[calls[c].token].owner \in Nat /\ calls[c].token \in Known
    BY <1>1 DEF PairRecord, Known
  <2>2. /\ PairsOK' /\ Len(pairs') = Len(pairs) + 1
    <3>1. PICK owner \in Nat, from \in Known :
            owner = pairs[calls[c].token].owner /\ from = calls[c].token
      BY <2>1
    <3>2. /\ pairs' = Append(pairs, [owner |-> owner, from |-> from])
          /\ live' = live \cup {Len(pairs) + 1} /\ UNCHANGED stale
      BY <1>2, <1>6, <3>1 DEF IssueTokens
    <3> HIDE DEF TypeInv
    <3> QED BY <3>2, PairAdded
  <2>3. CallsOK'
    <3>1. /\ calls' \in Seq(CallRecord) /\ Len(calls') = Len(calls)
          /\ calls'[c].token = calls[c].token /\ calls'[c].pair = Len(pairs) + 1
          /\ \A d \in 1..Len(calls) : d # c => calls'[d] = calls[d]
      BY <1>6, IssuedByCall
    <3>2. \A d \in 1..Len(calls) :
            /\ calls[d].token \in 1..Len(pairs)
            /\ calls[d].step = "issued" => calls[d].pair \in 1..Len(pairs)
      BY DEF ServerOK, CallsOK
    <3>3. 1..Len(pairs) \subseteq 1..Len(pairs') /\ Len(pairs) + 1 \in 1..Len(pairs')
      BY <1>1, <2>2
    <3> HIDE DEF TypeInv
    <3> QED BY <3>1, <3>2, <3>3 DEF CallsOK
  <2>4. Known \subseteq Known' /\ Len(calls') = Len(calls)
    BY <1>1, <1>6, <2>2, IssuedByCall DEF Known
  <2>5. MemoryOK' /\ WritesOK' /\ RequestsOK' /\ RefreshOK' /\ AwaitOK' /\ LaunchOK' /\ HistoryOK'
    BY <1>2, <1>6, <2>4 DEF IssueTokens, clientVars, MemoryOK, WritesOK, RequestsOK, RefreshOK,
         AwaitOK, LaunchOK, HistoryOK, Waiting, RefreshWrites
  <2> QED BY <2>2, <2>3, <2>5 DEF ServerOK
<1> QED BY <1>5, <1>6 DEF Serving

(***************************************************************************)
(* The client.                                                             *)
(***************************************************************************)
\* One request goes to another step.
LEMMA RequestSet ==
    ASSUME RequestsOK, NEW q \in Requests, NEW step \in RequestSteps, NEW access \in Known,
           requests' = [requests EXCEPT ![q] = [step |-> step, access |-> access]],
           UNCHANGED pairs, Len(pairs) \in Nat
    PROVE  /\ RequestsOK' /\ requests'[q].step = step
           /\ \A r \in Requests : r # q => requests'[r] = requests[r]
<1> DEFINE new == [step |-> step, access |-> access]
<1>1. /\ new \in [step: RequestSteps, access: Nat]
      /\ new.step = step /\ new.access = access
  BY DEF Known
<1>2. requests' = [requests EXCEPT ![q] = new]
  OBVIOUS
<1> HIDE DEF new
<1> QED BY <1>1, <1>2 DEF RequestsOK, Known

\* A refresh ends: nothing waits any more.
LEMMA RefreshEnded ==
    ASSUME TypeInv, NEW refreshed \in BOOLEAN, EndRefresh(refreshed), tokens \in Known,
           UNCHANGED <<pairs, calls>>
    PROVE  RequestsOK' /\ RefreshOK' /\ Waiting' = {} /\ refresh'.step = "idle"
<1>1. /\ requests \in [Requests -> [step: RequestSteps, access: Nat]]
      /\ \A q \in Requests : requests[q].access \in Known
      /\ Len(calls) \in Nat /\ Len(pairs) \in Nat
  BY DEF TypeInv, RequestsOK, ServerOK, PairsOK, CallsOK
<1>2. ASSUME NEW q \in Requests
      PROVE  /\ requests'[q] \in [step: RequestSteps, access: Nat]
             /\ requests'[q].access \in Known /\ requests'[q].step # "waiting"
  <2>1. CASE q \notin Waiting
    BY <1>1, <2>1 DEF EndRefresh, Waiting
  <2>2. CASE q \in Waiting
    BY <1>1, <2>2 DEF EndRefresh, Done, Known
  <2> QED BY <2>1, <2>2
<1>3. RequestsOK' /\ Waiting' = {}
  BY <1>2 DEF EndRefresh, RequestsOK, Waiting, Known
<1>4. RefreshOK' /\ refresh'.step = "idle"
  BY <1>1 DEF EndRefresh, NoRefresh, RefreshOK
<1> QED BY <1>3, <1>4

\* A write is asked for.
LEMMA WriteAsked ==
    ASSUME TypeInv, NEW pair \in Nat, NEW byRefresh \in BOOLEAN,
           SetTokens(pair, byRefresh), pair \in Known', Known \subseteq Known'
    PROVE  /\ WritesOK' /\ Len(writes') = Len(writes) + 1 /\ tokens' = pair
           /\ \A i \in 1..Len(writes) : writes'[i] = writes[i]
           /\ writes'[Len(writes) + 1].pair = pair
           /\ RefreshWrites' = RefreshWrites \cup (IF byRefresh THEN {Len(writes) + 1} ELSE {})
<1> DEFINE new == [pair |-> pair, byRefresh |-> byRefresh]
<1>1. /\ new \in WriteRecord /\ new.pair = pair /\ new.byRefresh = byRefresh
      /\ writes \in Seq(WriteRecord)
  BY DEF WriteRecord, TypeInv, WritesOK
<1>2. writes' = Append(writes, new) /\ tokens' = pair
  BY DEF SetTokens
<1> HIDE DEF new
<1>3. /\ writes' \in Seq(WriteRecord) /\ Len(writes') = Len(writes) + 1
      /\ \A i \in 1..Len(writes) : writes'[i] = writes[i]
      /\ writes'[Len(writes) + 1] = new
  BY <1>1, <1>2, AppendProperties
<1>4. /\ Len(writes) \in Nat /\ DOMAIN writes = 1..Len(writes) /\ DOMAIN writes' = 1..Len(writes')
      /\ 1..Len(writes') = (1..Len(writes)) \cup {Len(writes) + 1}
  BY <1>1, <1>3
<1>5. WritesOK'
  BY <1>1, <1>3, <1>4 DEF TypeInv, WritesOK
<1>6. RefreshWrites' = RefreshWrites \cup (IF byRefresh THEN {Len(writes) + 1} ELSE {})
  BY <1>1, <1>3, <1>4 DEF RefreshWrites
<1> QED BY <1>1, <1>2, <1>3, <1>5, <1>6

\* The oldest write ends.
LEMMA WriteDone ==
    ASSUME TypeInv, writes # <<>>, writes' = Tail(writes), UNCHANGED pairs
    PROVE  /\ WritesOK' /\ Len(writes') = Len(writes) - 1 /\ Len(writes) \in Nat \ {0}
           /\ \A i \in 1..Len(writes') : writes'[i] = writes[i + 1]
           /\ Head(writes) = writes[1] /\ Head(writes).pair \in Known
           /\ \A i \in RefreshWrites' : i + 1 \in RefreshWrites /\ i # 0
           /\ Head(writes).byRefresh <=> 1 \in RefreshWrites
           /\ \A i \in RefreshWrites : i # 1 => i - 1 \in RefreshWrites'
<1>1. writes \in Seq(WriteRecord) /\ \A i \in 1..Len(writes) : writes[i].pair \in Known
  BY DEF TypeInv, WritesOK
<1>2. /\ writes' \in Seq(WriteRecord) /\ Len(writes') = Len(writes) - 1
      /\ Len(writes) \in Nat \ {0}
      /\ \A i \in 1..Len(writes') : writes'[i] = writes[i + 1]
      /\ Head(writes) = writes[1]
  BY <1>1, HeadTailProperties
<1>3. DOMAIN writes = 1..Len(writes) /\ DOMAIN writes' = 1..Len(writes')
  BY <1>1, <1>2
<1>4. WritesOK' /\ Head(writes).pair \in Known
  BY <1>1, <1>2 DEF WritesOK, Known
<1>5. \A i \in RefreshWrites' : i + 1 \in RefreshWrites /\ i # 0
  BY <1>2, <1>3 DEF RefreshWrites
<1>6. Head(writes).byRefresh <=> 1 \in RefreshWrites
  BY <1>2, <1>3 DEF RefreshWrites
<1>7. \A i \in RefreshWrites : i # 1 => i - 1 \in RefreshWrites'
  <2>1. ASSUME NEW i \in RefreshWrites, i # 1 PROVE i - 1 \in RefreshWrites'
    <3>1. i \in 1..Len(writes) /\ writes[i].byRefresh
      BY <1>3 DEF RefreshWrites
    <3>2. i - 1 \in 1..Len(writes') /\ writes'[i - 1] = writes[(i - 1) + 1] /\ (i - 1) + 1 = i
      BY <1>2, <2>1, <3>1
    <3> QED BY <1>3, <3>1, <3>2 DEF RefreshWrites
  <2> QED BY <2>1
<1> QED BY <1>2, <1>4, <1>5, <1>6, <1>7

LEMMA RequestingTypes ==
    ASSUME TypeInv, NEW q \in Requests, Requesting(q)
    PROVE  TypeInv'
<1> USE DEF TypeInv
<1>1. /\ tokens \in Known /\ 0 \in Known /\ Len(pairs) \in Nat
      /\ calls \in Seq(CallRecord) /\ Len(calls) \in Nat
      /\ requests \in [Requests -> [step: RequestSteps, access: Nat]]
  BY DEF MemoryOK, ServerOK, PairsOK, CallsOK, RequestsOK, Known
<1>2. /\ UNCHANGED <<tokens, disk, writes, loaded, pairs, live, stale, wanted, marks>>
      /\ faults' \in Nat
  BY DEF Requesting, Send, Answer, RequestFails, Fault, serverVars, HistoryOK
<1>3. MemoryOK' /\ WritesOK' /\ HistoryOK' /\ PairsOK'
  BY <1>2 DEF MemoryOK, WritesOK, HistoryOK, ServerOK, PairsOK, Known
<1>4. ASSUME UNCHANGED <<refresh, calls>>, NEW step \in RequestSteps \ {"waiting"},
             NEW access \in Known,
             requests' = [requests EXCEPT ![q] = [step |-> step, access |-> access]]
      PROVE  TypeInv'
  <2>1. /\ RequestsOK' /\ requests'[q].step = step
        /\ \A r \in Requests : r # q => requests'[r] = requests[r]
    BY <1>1, <1>2, <1>4, RequestSet
  <2>2. CallsOK' /\ RefreshOK' /\ LaunchOK'
    BY <1>2, <1>4 DEF ServerOK, CallsOK, RefreshOK, LaunchOK
  <2>3. AwaitOK'
    BY <1>2, <1>4, <2>1 DEF AwaitOK, Waiting, RefreshWrites
  <2> QED BY <1>3, <2>1, <2>2, <2>3 DEF ServerOK
<1>5. CASE Send(q)
  BY <1>1, <1>4, <1>5 DEF Send, serverVars
<1>6. CASE RequestFails(q)
  BY <1>1, <1>4, <1>6 DEF RequestFails, serverVars, Done
<1>7. CASE Answer(q) /\ requests' = [requests EXCEPT ![q] = Done] /\ UNCHANGED <<refresh, calls>>
  BY <1>1, <1>4, <1>7 DEF Done
<1>8. CASE EnsureFreshTokens(q) /\ tokens # 0
  <2>1. RequestsOK' /\ requests' = [requests EXCEPT ![q] = [step |-> "waiting", access |-> 0]]
    BY <1>1, <1>2, <1>8, RequestSet DEF EnsureFreshTokens
  <2>2. loaded
    BY <1>8 DEF LaunchOK
  <2>3. CASE refresh.step # "idle" /\ UNCHANGED <<refresh, calls>>
    BY <1>2, <1>3, <2>1, <2>2, <2>3
       DEF ServerOK, CallsOK, RefreshOK, LaunchOK, AwaitOK, RefreshWrites
  <2>4. CASE /\ refresh.step = "idle"
             /\ calls' = Append(calls, [token |-> tokens, step |-> "select", pair |-> 0])
             /\ refresh' = [step |-> "sent", call |-> Len(calls) + 1]
    <3> DEFINE new == [token |-> tokens, step |-> "select", pair |-> 0]
    <3>1. /\ new \in CallRecord /\ new.token = tokens /\ new.step = "select"
          /\ tokens \in 1..Len(pairs)
      BY <1>1, <1>8 DEF CallRecord, Known
    <3>2. calls' = Append(calls, new)
      BY <2>4
    <3> HIDE DEF new
    <3>3. /\ calls' \in Seq(CallRecord) /\ Len(calls') = Len(calls) + 1
          /\ calls'[Len(calls) + 1] = new
          /\ \A c \in 1..Len(calls) : calls'[c] = calls[c]
      BY <1>1, <3>1, <3>2, AppendProperties
    <3>4. \A c \in 1..Len(calls') : c \in 1..Len(calls) \/ c = Len(calls) + 1
      BY <1>1, <3>3
    <3>5. CallsOK'
      BY <1>1, <1>2, <3>1, <3>3, <3>4 DEF ServerOK, CallsOK
    <3>6. RefreshOK' /\ LaunchOK'
      BY <1>1, <1>2, <2>2, <2>4, <3>3 DEF RefreshOK, LaunchOK
    <3>7. AwaitOK'
      BY <1>2, <2>4 DEF AwaitOK, RefreshWrites
    <3> QED BY <1>3, <2>1, <3>5, <3>6, <3>7 DEF ServerOK
  <2> QED BY <1>8, <2>3, <2>4 DEF EnsureFreshTokens
<1> QED BY <1>5, <1>6, <1>7, <1>8 DEF Requesting, Answer

LEMMA RefreshingTypes ==
    ASSUME TypeInv, Refreshing
    PROVE  TypeInv'
<1> USE DEF TypeInv
<1>1. /\ tokens \in Known /\ Len(pairs) \in Nat /\ Len(calls) \in Nat
      /\ refresh \in [step: RefreshSteps, call: Nat]
      /\ refresh.step = "sent" /\ refresh.call \in 1..Len(calls)
  <2>1. refresh.step = "sent"
    BY DEF Refreshing, RefreshAnswered, RefreshAborted
  <2>2. pairs \in Seq(PairRecord) /\ calls \in Seq(CallRecord)
    BY DEF ServerOK, PairsOK, CallsOK
  <2> QED BY <2>1, <2>2 DEF MemoryOK, RefreshOK
<1>2. /\ UNCHANGED <<disk, loaded, pairs, live, stale, calls, wanted>>
      /\ marks' \subseteq Marks /\ faults' \in Nat /\ loaded
  <2>1. loaded
    BY <1>1 DEF LaunchOK
  <2>2. CASE RefreshAnswered
    BY <2>1, <2>2 DEF RefreshAnswered, serverVars, HistoryOK
  <2>3. CASE RefreshAborted
    BY <2>1, <2>3 DEF RefreshAborted, serverVars, HistoryOK, Fault, Mark, Marks
  <2> QED BY <2>2, <2>3 DEF Refreshing
<1>3. ServerOK' /\ HistoryOK' /\ Known' = Known /\ RefreshWrites = {} /\ LaunchOK'
  BY <1>1, <1>2 DEF ServerOK, PairsOK, CallsOK, HistoryOK, Known, AwaitOK, LaunchOK
<1>4. CASE EndRefresh(FALSE) /\ UNCHANGED <<tokens, writes>>
  <2>1. RequestsOK' /\ RefreshOK' /\ Waiting' = {} /\ refresh'.step = "idle"
    BY <1>1, <1>2, <1>4, RefreshEnded
  <2>2. MemoryOK' /\ WritesOK'
    BY <1>2, <1>3, <1>4 DEF MemoryOK, WritesOK
  <2>3. AwaitOK'
    BY <1>3, <1>4, <2>1 DEF AwaitOK, RefreshWrites
  <2> QED BY <1>3, <2>1, <2>2, <2>3
<1>5. ASSUME NEW pair \in Known, SetTokens(pair, TRUE), NEW step \in {"saving", "clearing"},
             refresh' = [refresh EXCEPT !.step = step], UNCHANGED requests
      PROVE  TypeInv'
  <2>1. pair \in Nat
    BY DEF Known
  <2>2. /\ WritesOK' /\ tokens' = pair
        /\ RefreshWrites' = RefreshWrites \cup {Len(writes) + 1}
    BY <1>3, <1>5, <2>1, WriteAsked
  <2>3. RequestsOK' /\ MemoryOK'
    BY <1>2, <1>3, <1>5, <2>2 DEF RequestsOK, MemoryOK
  <2>4. RefreshOK' /\ refresh'.step = step
    BY <1>1, <1>2, <1>5 DEF RefreshOK
  <2>5. AwaitOK'
    BY <1>3, <1>5, <2>2, <2>4 DEF AwaitOK, Waiting
  <2> QED BY <1>3, <2>2, <2>3, <2>4, <2>5
<1>6. CASE RefreshAborted
  BY <1>4, <1>6 DEF RefreshAborted
<1>7. CASE RefreshAnswered
  <2>1. CASE Call.step = "failed" /\ EndRefresh(FALSE) /\ UNCHANGED <<tokens, writes>>
    BY <1>4, <2>1
  <2>2. CASE /\ Call.step = "issued" /\ SaveTokens(Call.pair, TRUE)
             /\ refresh' = [refresh EXCEPT !.step = "saving"] /\ UNCHANGED requests
    <3>1. PICK pair \in Known : pair = Call.pair
      BY <1>1, <2>2 DEF ServerOK, CallsOK, Call, Known
    <3> QED BY <1>5, <2>2, <3>1 DEF SaveTokens
  <2>3. CASE /\ Call.step = "refused" /\ ClearTokens(TRUE)
             /\ refresh' = [refresh EXCEPT !.step = "clearing"] /\ UNCHANGED requests
    <3>1. 0 \in Known
      BY <1>1 DEF Known
    <3> QED BY <1>5, <2>3, <3>1 DEF ClearTokens
  <2> QED BY <1>7, <2>1, <2>2, <2>3 DEF RefreshAnswered
<1> QED BY <1>6, <1>7 DEF Refreshing

LEMMA WritingTypes ==
    ASSUME TypeInv, Writing
    PROVE  TypeInv'
<1> USE DEF TypeInv
<1>1. /\ writes # <<>> /\ writes' = Tail(writes)
      /\ UNCHANGED <<tokens, loaded, pairs, live, stale, calls, wanted>>
      /\ disk' \in {disk, Head(writes).pair} /\ marks' \subseteq Marks /\ faults' \in Nat
  <2>1. WriteEnds
    BY DEF Writing, Write, WriteFails
  <2>2. Losing \subseteq Marks
    BY DEF Losing, Marks
  <2>3. marks \subseteq Marks /\ faults \in Nat
    BY DEF HistoryOK
  <2>4. CASE Write
    BY <2>1, <2>2, <2>3, <2>4 DEF Write, WriteEnds, serverVars
  <2>5. CASE WriteFails
    <3>1. marks' \subseteq Marks /\ faults' \in Nat
      BY <2>2, <2>3, <2>5 DEF WriteFails, Fault, Marks
    <3> QED BY <2>1, <2>5, <3>1 DEF WriteFails, WriteEnds, serverVars
  <2> QED BY <2>4, <2>5 DEF Writing
<1>2. /\ WritesOK' /\ Head(writes).pair \in Known
      /\ \A i \in RefreshWrites' : i + 1 \in RefreshWrites /\ i # 0
      /\ Head(writes).byRefresh <=> 1 \in RefreshWrites
      /\ \A i \in RefreshWrites : i # 1 => i - 1 \in RefreshWrites'
  BY <1>1, WriteDone
<1>3. RefreshWrites \subseteq Int /\ RefreshWrites' \subseteq Int
  BY <1>2 DEF WritesOK, RefreshWrites
<1>4. /\ ServerOK' /\ MemoryOK' /\ HistoryOK' /\ tokens \in Known
      /\ loaded
  BY <1>1, <1>2 DEF ServerOK, PairsOK, CallsOK, MemoryOK, HistoryOK, LaunchOK, Known
<1>5. CASE Head(writes).byRefresh
  <2>1. RefreshWrites' = {}
    <3>1. \A i \in RefreshWrites' : i + 1 = 1
      BY <1>2, <1>5 DEF AwaitOK
    <3> QED BY <1>2, <1>3, <3>1
  <2>2. EndRefresh(refresh.step = "saving")
    BY <1>5 DEF Writing, Write, WriteFails, WriteEnds
  <2>3. RequestsOK' /\ RefreshOK' /\ Waiting' = {} /\ refresh'.step = "idle"
    <3>1. PICK refreshed \in BOOLEAN : refreshed = (refresh.step = "saving")
      OBVIOUS
    <3>2. EndRefresh(refreshed)
      BY <2>2, <3>1
    <3> QED BY <1>1, <1>4, <3>2, RefreshEnded
  <2> QED BY <1>1, <1>2, <1>4, <2>1, <2>3 DEF AwaitOK, LaunchOK
<1>6. CASE ~Head(writes).byRefresh
  <2>1. UNCHANGED <<refresh, requests>>
    BY <1>6 DEF Writing, Write, WriteFails, WriteEnds
  <2>2. RequestsOK' /\ RefreshOK' /\ LaunchOK'
    BY <1>1, <1>4, <2>1 DEF RequestsOK, RefreshOK, LaunchOK, Known
  <2>3. \A i, j \in RefreshWrites' : i = j
    <3>1. ASSUME NEW i \in RefreshWrites', NEW j \in RefreshWrites' PROVE i = j
      <4>1. i + 1 = j + 1 /\ i \in Int /\ j \in Int
        BY <1>2, <1>3 DEF AwaitOK
      <4> QED BY <4>1
    <3> QED BY <3>1
  <2>4. RefreshWrites' # {} <=> RefreshWrites # {}
    BY <1>2, <1>6
  <2>5. AwaitOK'
    BY <2>1, <2>3, <2>4 DEF AwaitOK, Waiting
  <2> QED BY <1>2, <1>4, <2>2, <2>5
<1> QED BY <1>5, <1>6

(***************************************************************************)
(* The parent, time, and launches.                                         *)
(***************************************************************************)
LEMMA SignTypes ==
    ASSUME TypeInv, SignIn \/ SignOut
    PROVE  TypeInv'
<1> USE DEF TypeInv
<1>1. /\ UNCHANGED <<disk, requests, refresh, loaded, stale, calls>>
      /\ loaded /\ marks' \subseteq Marks /\ faults' \in Nat
  BY DEF SignIn, SignOut, serverVars, Races, Marks, HistoryOK
<1>2. /\ Len(pairs) \in Nat /\ pairs \in Seq(PairRecord) /\ 0 \in Known
  BY DEF ServerOK, PairsOK, Known
<1>3. ASSUME NEW pair \in Nat, SetTokens(pair, FALSE), pair \in Known', Known \subseteq Known',
             wanted' \in Known', PairsOK', Len(pairs') \in Nat, Len(pairs) <= Len(pairs')
      PROVE  TypeInv'
  <2>1. WritesOK' /\ tokens' = pair /\ RefreshWrites' = RefreshWrites
    BY <1>3, WriteAsked
  <2>2. CallsOK'
    <3>1. 1..Len(pairs) \subseteq 1..Len(pairs')
      BY <1>2, <1>3
    <3> QED BY <1>1, <3>1 DEF ServerOK, CallsOK
  <2>3. MemoryOK' /\ RequestsOK' /\ RefreshOK' /\ HistoryOK'
    BY <1>1, <1>3, <2>1 DEF MemoryOK, RequestsOK, RefreshOK, HistoryOK
  <2>4. AwaitOK' /\ LaunchOK'
    BY <1>1, <2>1 DEF AwaitOK, LaunchOK, Waiting
  <2> QED BY <1>3, <2>1, <2>2, <2>3, <2>4 DEF ServerOK
<1>4. CASE SignIn
  <2>1. PICK pair \in Nat : pair = Len(pairs) + 1
    BY <1>2
  <2>2. /\ pairs' = Append(pairs, [owner |-> pair, from |-> 0])
        /\ live' = live \cup {Len(pairs) + 1} /\ UNCHANGED stale
        /\ SetTokens(pair, FALSE) /\ wanted' = pair
    BY <1>4, <2>1 DEF SignIn, SaveTokens
  <2>3. PICK from \in Known : from = 0
    BY <1>2
  <2>4. PairsOK' /\ Len(pairs') = pair
    <3>1. pairs' = Append(pairs, [owner |-> pair, from |-> from])
      BY <2>2, <2>3
    <3> HIDE DEF TypeInv
    <3> QED BY <2>1, <2>2, <3>1, PairAdded
  <2>5. Known \subseteq Known' /\ pair \in Known'
    BY <1>2, <2>1, <2>4 DEF Known
  <2>6. Len(pairs') \in Nat /\ Len(pairs) <= Len(pairs')
    BY <1>2, <2>1, <2>4
  <2> HIDE DEF TypeInv
  <2> QED BY <1>3, <2>2, <2>4, <2>5, <2>6
<1>5. CASE SignOut
  <2>1. SetTokens(0, FALSE) /\ wanted' = 0 /\ UNCHANGED <<pairs, live>>
    BY <1>5 DEF SignOut, ClearTokens, serverVars
  <2>2. PairsOK' /\ Known' = Known
    BY <1>1, <2>1 DEF ServerOK, PairsOK, Known
  <2>3. Len(pairs') \in Nat /\ Len(pairs) <= Len(pairs')
    BY <1>2, <2>1
  <2> HIDE DEF TypeInv
  <2> QED BY <1>2, <1>3, <2>1, <2>2, <2>3
<1> QED BY <1>4, <1>5

LEMMA LaunchTypes ==
    ASSUME TypeInv, LoadTokens \/ LoadFails \/ Relaunch
    PROVE  TypeInv'
<1> USE DEF TypeInv
<1>1. /\ UNCHANGED <<disk, pairs, live, stale, calls, wanted>> /\ tokens' \in {0, tokens, disk}
      /\ loaded' \in BOOLEAN
  BY DEF LoadTokens, LoadFails, Relaunch, serverVars
<1>2. marks' \subseteq Marks /\ faults' \in Nat
  <2>1. marks \subseteq Marks /\ faults \in Nat
    BY DEF HistoryOK
  <2>2. CASE LoadTokens
    BY <2>1, <2>2 DEF LoadTokens
  <2>3. CASE LoadFails
    BY <2>1, <2>3 DEF LoadFails, Fault, Mark, Marks
  <2>4. CASE Relaunch
    BY <2>1, <2>4 DEF Relaunch, Fault, Marks
  <2> QED BY <2>2, <2>3, <2>4
<1>3. 0 \in Known /\ Known' = Known
  BY <1>1 DEF ServerOK, PairsOK, Known
<1>4. ServerOK' /\ MemoryOK' /\ HistoryOK'
  BY <1>1, <1>2, <1>3 DEF ServerOK, PairsOK, CallsOK, MemoryOK, HistoryOK
<1>5. CASE UNCHANGED <<writes, requests, refresh>> /\ loaded'
  BY <1>1, <1>3, <1>4, <1>5
     DEF WritesOK, RequestsOK, RefreshOK, AwaitOK, LaunchOK, Waiting, RefreshWrites
<1>6. CASE Relaunch
  <2>1. /\ writes' = <<>> /\ requests' = [q \in Requests |-> Done] /\ refresh' = NoRefresh
        /\ tokens' = 0
    BY <1>6 DEF Relaunch
  <2>2. /\ writes' \in Seq(WriteRecord) /\ Len(writes') = 0 /\ DOMAIN writes' = {}
        /\ Len(calls) \in Nat
    BY <2>1, EmptySeq DEF ServerOK, CallsOK
  <2>3. WritesOK' /\ RefreshWrites' = {}
    BY <2>2 DEF WritesOK, RefreshWrites
  <2>4. RequestsOK' /\ Waiting' = {}
    BY <1>3, <2>1 DEF RequestsOK, Waiting, Done
  <2>5. RefreshOK' /\ AwaitOK' /\ LaunchOK'
    BY <1>1, <2>1, <2>2, <2>3, <2>4 DEF RefreshOK, NoRefresh, AwaitOK, LaunchOK
  <2> QED BY <1>4, <2>3, <2>4, <2>5
<1> QED BY <1>5, <1>6 DEF LoadTokens, LoadFails

LEMMA ExpiryTypes ==
    ASSUME TypeInv, AccessExpires \/ RefreshTokenExpires
    PROVE  TypeInv'
<1> USE DEF TypeInv
<1>1. UNCHANGED <<clientVars, pairs, calls, wanted>> /\ live' \subseteq live
  BY DEF AccessExpires, RefreshTokenExpires
<1>2. marks' \subseteq Marks /\ faults' \in Nat
  <2>1. marks \subseteq Marks /\ faults \in Nat
    BY DEF HistoryOK
  <2>2. CASE AccessExpires
    BY <2>1, <2>2 DEF AccessExpires
  <2>3. CASE RefreshTokenExpires
    BY <2>1, <2>3 DEF RefreshTokenExpires, Fault, Mark, Marks
  <2> QED BY <2>2, <2>3
<1>3. stale' \in Known /\ Known' = Known
  BY <1>1 DEF AccessExpires, RefreshTokenExpires, ServerOK, PairsOK, Known
<1> QED
  BY <1>1, <1>2, <1>3
     DEF clientVars, ServerOK, PairsOK, CallsOK, MemoryOK, WritesOK, RequestsOK, RefreshOK, AwaitOK,
         LaunchOK, HistoryOK, Waiting, RefreshWrites

LEMMA TypeStep == TypeInv /\ [Next]_vars => TypeInv'
<1> SUFFICES ASSUME TypeInv, [Next]_vars PROVE TypeInv'
  OBVIOUS
<1>1. CASE UNCHANGED vars
  BY <1>1
     DEF vars, clientVars, serverVars, TypeInv, ServerOK, PairsOK, CallsOK, MemoryOK, WritesOK,
         RequestsOK, RefreshOK, AwaitOK, LaunchOK, HistoryOK, Known, Waiting, RefreshWrites
<1>2. DOMAIN calls = 1..Len(calls)
  BY DEF TypeInv, ServerOK, CallsOK
<1> QED
  BY <1>1, <1>2, ServerTypes, RequestingTypes, RefreshingTypes, WritingTypes, SignTypes,
     LaunchTypes, ExpiryTypes DEF Next

\* The client and the server keep their types; requests wait for a refresh,
\* and a refresh for its own write and no other: client.ts 123.
THEOREM TokensTypeCorrect == Spec => []TokensTypeOK
BY TypeInit, TypeStep, TypeMeans, PTL DEF Spec

(***************************************************************************)
(* Spent tokens.  Unless the client gave up on a call or crashed under     *)
(* one, at most the call it waits for is running on the server; a token    *)
(* that was exchanged is not live, so no later call gets past the query.   *)
(***************************************************************************)
Running(c) == calls[c].step \in {"select", "revoke", "issue"}

\* No call was left alone.
Attended == marks \cap {"aborted", "crashed"} = {}

SpentAreDead ==
    /\ \A n \in 1..Len(pairs) : pairs[n].from \notin live
    /\ \A c \in 1..Len(calls) : calls[c].step = "issue" => calls[c].token \notin live

OneRuns ==
    Attended => \A c \in 1..Len(calls) : Running(c) => refresh.step = "sent" /\ refresh.call = c

SpentInv ==
    /\ SpentAreDead /\ OneRuns
    /\ Attended =>
        /\ \A m, n \in 1..Len(pairs) : pairs[m].from = pairs[n].from /\ pairs[m].from # 0 => m = n
        /\ \A c \in 1..Len(calls) : calls[c].step \in {"revoke", "issue"} =>
                \A n \in 1..Len(pairs) : pairs[n].from # calls[c].token

(***************************************************************************)
(* The sign-in the client works in.  A refresh passes on the sign-in of    *)
(* the pair it presents.                                                   *)
(***************************************************************************)
\* What the storage will hold once the writes are done.
Stored == IF writes = <<>> THEN disk ELSE writes[Len(writes)].pair

Owns(n) == n # 0 => pairs[n].owner = wanted

PassedOn == \A c \in 1..Len(calls) :
    calls[c].step = "issued" => pairs[calls[c].pair].owner = pairs[calls[c].token].owner

StorageInv == marks \cap {"crashed", "failed"} = {} /\ loaded => Stored = tokens

Settled == marks \cap {"race", "crashed", "failed"} = {}

WantedInv ==
    Settled =>
        /\ Owns(tokens)
        /\ ~loaded => Owns(disk)
        /\ refresh.step = "sent" => Owns(calls[refresh.call].token)

(***************************************************************************)
(* The session survives.  A live token is presented, so its call is not    *)
(* refused, and what the call issues is live when the answer arrives.      *)
(***************************************************************************)
Undisturbed == marks \cap {"aborted", "failed", "crashed", "expired"} = {}

Works(n) == n # 0 => n \in live

SurvivalInv ==
    /\ SessionKept
    /\ Undisturbed =>
        /\ refresh.step # "sent" => Works(tokens)
        /\ ~loaded => Works(disk)
        /\ refresh.step # "clearing"
        /\ refresh.step = "sent" =>
            LET call == calls[refresh.call]
            IN  /\ call.step \notin {"refused", "failed"}
                /\ call.step = "select" => call.token \in live
                /\ call.step = "issued" => call.pair \in live

(***************************************************************************)
(* The steps, as far as tokens and calls are concerned.                    *)
(***************************************************************************)
Idle == UNCHANGED <<tokens, disk, writes, loaded, refresh, pairs, live, calls, wanted, marks>>

\* A request starts a refresh, with the tokens of this moment.
Starts ==
    /\ refresh.step = "idle" /\ tokens # 0 /\ loaded
    /\ refresh'.step = "sent" /\ refresh'.call = Len(calls) + 1
    /\ Len(calls') = Len(calls) + 1
    /\ calls'[Len(calls) + 1].token = tokens /\ calls'[Len(calls) + 1].step = "select"
    /\ \A c \in 1..Len(calls) : calls'[c] = calls[c]
    /\ UNCHANGED <<tokens, disk, writes, loaded, pairs, live, wanted, marks>>

LEMMA RequestingEvents ==
    ASSUME TypeInv, NEW q \in Requests, Requesting(q)
    PROVE  Idle \/ Starts
<1>1. CASE Send(q) \/ RequestFails(q)
  BY <1>1 DEF Send, RequestFails, Idle, serverVars
<1>2. CASE Answer(q)
  <2>1. CASE UNCHANGED <<refresh, calls>>
    BY <1>2, <2>1 DEF Answer, Idle
  <2>2. CASE /\ tokens # 0 /\ refresh.step = "idle"
             /\ calls' = Append(calls, [token |-> tokens, step |-> "select", pair |-> 0])
             /\ refresh' = [step |-> "sent", call |-> Len(calls) + 1]
    <3> DEFINE new == [token |-> tokens, step |-> "select", pair |-> 0]
    <3>1. calls \in Seq(CallRecord) /\ tokens \in Nat
      BY DEF TypeInv, ServerOK, CallsOK, MemoryOK, Known
    <3>2. new \in CallRecord /\ new.token = tokens /\ new.step = "select" /\ calls' = Append(calls, new)
      BY <2>2, <3>1 DEF CallRecord
    <3> HIDE DEF new
    <3>3. /\ Len(calls') = Len(calls) + 1 /\ calls'[Len(calls) + 1] = new
          /\ \A c \in 1..Len(calls) : calls'[c] = calls[c]
      BY <3>1, <3>2, AppendProperties
    <3>4. loaded /\ UNCHANGED <<tokens, disk, writes, loaded, pairs, live, wanted, marks>>
      BY <1>2, <2>2 DEF Answer, TypeInv, LaunchOK
    <3> QED BY <2>2, <3>2, <3>3, <3>4 DEF Starts
  <2> QED BY <1>2, <2>1, <2>2 DEF Answer, EnsureFreshTokens
<1> QED BY <1>1, <1>2 DEF Requesting

\* A call goes on to its next query.
Goes(c, step) ==
    /\ Len(calls') = Len(calls)
    /\ calls'[c].step = step /\ calls'[c].token = calls[c].token
    /\ \A d \in 1..Len(calls) : d # c => calls'[d] = calls[d]
    /\ UNCHANGED <<tokens, disk, writes, loaded, refresh, wanted>>

Selects(c) ==
    /\ calls[c].step = "select"
    /\ Goes(c, IF calls[c].token \in live THEN "revoke" ELSE "refused")
    /\ UNCHANGED <<pairs, live, marks>>

Revokes(c) ==
    /\ calls[c].step = "revoke"
    /\ Goes(c, "issue")
    /\ live' = live \ {calls[c].token}
    /\ UNCHANGED <<pairs, marks>>

Issues(c) ==
    /\ calls[c].step = "issue"
    /\ Goes(c, "issued")
    /\ calls'[c].pair = Len(pairs) + 1
    /\ Len(pairs') = Len(pairs) + 1 /\ live' = live \cup {Len(pairs) + 1}
    /\ pairs'[Len(pairs) + 1].owner = pairs[calls[c].token].owner
    /\ pairs'[Len(pairs) + 1].from = calls[c].token
    /\ \A n \in 1..Len(pairs) : pairs'[n] = pairs[n]
    /\ UNCHANGED marks

Errs(c) ==
    /\ Running(c)
    /\ \E step \in {"refused", "failed"} : Goes(c, step)
    /\ UNCHANGED <<pairs, live>> /\ marks' = marks \cup {"failed"}

LEMMA ServingEvents ==
    ASSUME TypeInv, NEW c \in 1..Len(calls), Serving(c)
    PROVE  Selects(c) \/ Revokes(c) \/ Issues(c) \/ Errs(c)
<1>1. calls \in Seq(CallRecord) /\ calls[c].token \in 1..Len(pairs) /\ pairs \in Seq(PairRecord)
  BY DEF TypeInv, ServerOK, CallsOK, PairsOK
<1>2. UNCHANGED <<tokens, disk, writes, loaded, refresh, wanted, stale>>
  BY DEF Serving, SelectToken, RevokeToken, IssueTokens, CallFails, Calling, clientVars
<1>3. ASSUME NEW step \in CallSteps, Step(c, step) PROVE Goes(c, step)
  BY <1>1, <1>2, <1>3, StepOfCall DEF Goes
<1>4. CASE SelectToken(c)
  BY <1>3, <1>4 DEF SelectToken, Selects
<1>5. CASE RevokeToken(c)
  BY <1>3, <1>5 DEF RevokeToken, Revokes
<1>6. CASE CallFails(c)
  BY <1>3, <1>6 DEF CallFails, Errs, Running, Mark
<1>7. CASE IssueTokens(c)
  <2>1. Goes(c, "issued") /\ calls'[c].pair = Len(pairs) + 1
    BY <1>2, <1>7, IssuedByCall DEF Goes
  <2>2. PICK owner \in Nat, from \in Known :
            owner = pairs[calls[c].token].owner /\ from = calls[c].token
    <3>1. pairs[calls[c].token] \in PairRecord /\ Len(pairs) \in Nat
      BY <1>1
    <3>2. pairs[calls[c].token].owner \in Nat /\ calls[c].token \in Known
      BY <1>1, <3>1 DEF PairRecord, Known
    <3> QED BY <3>2
  <2>3. /\ pairs' = Append(pairs, [owner |-> owner, from |-> from])
        /\ live' = live \cup {Len(pairs) + 1} /\ UNCHANGED <<stale, marks>>
        /\ calls[c].step = "issue"
    BY <1>2, <1>7, <2>2 DEF IssueTokens
  <2>4. /\ Len(pairs') = Len(pairs) + 1
        /\ pairs'[Len(pairs) + 1].owner = owner /\ pairs'[Len(pairs) + 1].from = from
        /\ \A n \in 1..Len(pairs) : pairs'[n] = pairs[n]
    BY <2>3, PairAdded
  <2> QED BY <2>1, <2>2, <2>3, <2>4 DEF Issues
<1> QED BY <1>4, <1>5, <1>6, <1>7 DEF Serving

\* The parent signs in.
Joins ==
    /\ loaded /\ tokens' = Len(pairs) + 1 /\ wanted' = Len(pairs) + 1
    /\ Len(pairs') = Len(pairs) + 1 /\ live' = live \cup {Len(pairs) + 1}
    /\ pairs'[Len(pairs) + 1].owner = Len(pairs) + 1 /\ pairs'[Len(pairs) + 1].from = 0
    /\ \A n \in 1..Len(pairs) : pairs'[n] = pairs[n]
    /\ marks' = marks \cup (IF refresh.step # "idle" THEN {"race"} ELSE {})
    /\ UNCHANGED <<disk, loaded, refresh, calls>>

LEMMA SignInEvent ==
    ASSUME TypeInv, SignIn
    PROVE  Joins /\ Stored' = tokens'
<1>1. PICK pair \in Nat, from \in Known : pair = Len(pairs) + 1 /\ from = 0
  BY DEF TypeInv, ServerOK, PairsOK, Known
<1>2. /\ pairs' = Append(pairs, [owner |-> pair, from |-> from])
      /\ live' = live \cup {Len(pairs) + 1} /\ UNCHANGED stale
      /\ SetTokens(pair, FALSE)
  BY <1>1 DEF SignIn, SaveTokens
<1>3. /\ Len(pairs') = Len(pairs) + 1
      /\ pairs'[Len(pairs) + 1].owner = pair /\ pairs'[Len(pairs) + 1].from = from
      /\ \A n \in 1..Len(pairs) : pairs'[n] = pairs[n]
  BY <1>2, PairAdded
<1>4. pair \in Known' /\ Known \subseteq Known'
  BY <1>1, <1>3 DEF Known
<1>5. /\ tokens' = pair /\ Len(writes') = Len(writes) + 1 /\ WritesOK'
      /\ writes'[Len(writes) + 1].pair = pair
  BY <1>2, <1>4, WriteAsked
<1>6. Stored' = pair
  <2>1. Len(writes) \in Nat
    BY DEF TypeInv, WritesOK
  <2> QED BY <1>5, <2>1 DEF Stored, WritesOK
<1>7. Joins
  BY <1>1, <1>2, <1>3, <1>5 DEF SignIn, Races, Joins
<1> QED BY <1>1, <1>5, <1>6, <1>7

\* An answer, or the parent's sign-out, sets the tokens to a pair.
LEMMA SetTokensEvent ==
    ASSUME TypeInv, NEW pair \in Known, NEW byRefresh \in BOOLEAN, SetTokens(pair, byRefresh),
           UNCHANGED pairs
    PROVE  tokens' = pair /\ Stored' = pair
<1>1. pair \in Nat /\ pair \in Known' /\ Known \subseteq Known'
  BY DEF Known
<1>2. /\ tokens' = pair /\ Len(writes') = Len(writes) + 1 /\ WritesOK'
      /\ writes'[Len(writes) + 1].pair = pair
  BY <1>1, WriteAsked
<1>3. Len(writes) \in Nat
  BY DEF TypeInv, WritesOK
<1> QED BY <1>2, <1>3 DEF Stored, WritesOK

\* The refresh ends with a write, or goes on.
LEMMA WriteEvent ==
    ASSUME TypeInv, Writing
    PROVE  /\ UNCHANGED <<tokens, loaded, pairs, live, calls, wanted>> /\ loaded
           /\ refresh.step = "sent" => refresh' = refresh
           /\ refresh'.step # refresh.step => refresh'.step = "idle"
           /\ Write => Stored' = Stored /\ marks' = marks \cup Losing
           /\ WriteFails => "failed" \in marks'
           /\ marks \subseteq marks'
<1>1. WriteEnds
  BY DEF Writing, Write, WriteFails
<1>2. /\ UNCHANGED <<tokens, loaded, pairs, live, calls, wanted>> /\ writes # <<>>
      /\ writes' = Tail(writes)
  BY <1>1 DEF WriteEnds, serverVars
<1>3. loaded
  BY <1>2 DEF TypeInv, LaunchOK
<1>4. /\ WritesOK' /\ Len(writes') = Len(writes) - 1 /\ Len(writes) \in Nat \ {0}
      /\ \A i \in 1..Len(writes') : writes'[i] = writes[i + 1]
      /\ Head(writes) = writes[1]
      /\ Head(writes).byRefresh <=> 1 \in RefreshWrites
  BY <1>2, WriteDone
<1>5. refresh' = refresh \/ refresh' = NoRefresh
  BY <1>1 DEF WriteEnds, EndRefresh
<1>6. refresh.step = "sent" => refresh' = refresh
  BY <1>1, <1>4 DEF WriteEnds, TypeInv, AwaitOK
<1>7. ASSUME Write PROVE Stored' = Stored
  <2>1. disk' = writes[1].pair
    BY <1>4, <1>7 DEF Write
  <2>2. CASE Len(writes) = 1
    <3>1. Len(writes') = 0 /\ writes' \in Seq(WriteRecord)
      BY <1>4, <2>2 DEF WritesOK
    <3>2. writes' = <<>>
      BY <3>1
    <3> QED BY <1>2, <2>1, <2>2, <3>2 DEF Stored
  <2>3. CASE Len(writes) # 1
    <3>1. Len(writes') \in 1..Len(writes') /\ Len(writes') + 1 = Len(writes)
      BY <1>4, <2>3
    <3>2. writes'[Len(writes')] = writes[Len(writes)] /\ writes' # <<>>
      BY <1>4, <3>1
    <3> QED BY <1>2, <3>2 DEF Stored
  <2> QED BY <2>2, <2>3
<1>8. refresh'.step # refresh.step => refresh'.step = "idle"
  BY <1>5 DEF NoRefresh
<1>9. Write => marks' = marks \cup Losing
  BY DEF Write
<1>10. WriteFails => marks' = marks \cup Losing \cup {"failed"}
  BY DEF WriteFails
<1>11. marks \subseteq marks' /\ (WriteFails => "failed" \in marks')
  BY <1>9, <1>10 DEF Writing
<1> QED BY <1>2, <1>3, <1>6, <1>7, <1>8, <1>9, <1>11


(***************************************************************************)
(* A refresh token is exchanged once.                                      *)
(***************************************************************************)
LEMMA SpentInit == Init => SpentInv
<1> SUFFICES ASSUME Init PROVE SpentInv
  OBVIOUS
<1>1. 1..Len(pairs) = {} /\ 1..Len(calls) = {}
  BY EmptySeq DEF Init
<1> QED BY <1>1 DEF SpentInv, SpentAreDead, OneRuns

LEMMA SpentMeans == TypeInv /\ SpentInv => SpentOnce
<1>1. TypeInv => Pairs = 1..Len(pairs)
  BY DEF TypeInv, ServerOK, PairsOK, Pairs
<1> QED BY <1>1 DEF SpentInv, SpentOnce, Attended

\* A step of the client leaves it so, unless it turns from a running call.
LEMMA SpentKept ==
    ASSUME TypeInv, SpentInv, UNCHANGED <<pairs, calls>>, live' \subseteq live, marks \subseteq marks',
           Attended' /\ refresh.step = "sent" /\ Running(refresh.call) => refresh' = refresh
    PROVE  SpentInv'
<1>1. SpentAreDead'
  BY DEF SpentInv, SpentAreDead
<1>2. Attended' => Attended
  BY DEF Attended
<1>3. OneRuns'
  BY <1>2 DEF SpentInv, OneRuns, Running
<1> QED BY <1>1, <1>2, <1>3 DEF SpentInv

LEMMA SpentStarts ==
    ASSUME TypeInv, SpentInv, Starts
    PROVE  SpentInv'
<1>1. /\ Len(calls) \in Nat /\ Len(calls') = Len(calls) + 1 /\ refresh.step = "idle"
      /\ refresh'.step = "sent" /\ refresh'.call = Len(calls) + 1
      /\ calls'[Len(calls) + 1].step = "select"
      /\ \A c \in 1..Len(calls) : calls'[c] = calls[c]
      /\ UNCHANGED <<pairs, live, marks>>
  BY DEF TypeInv, ServerOK, CallsOK, Starts
<1>2. \A c \in 1..Len(calls') : c \in 1..Len(calls) \/ c = Len(calls) + 1
  BY <1>1
<1>3. SpentAreDead'
  BY <1>1, <1>2 DEF SpentInv, SpentAreDead
<1>4. OneRuns'
  BY <1>1, <1>2 DEF SpentInv, OneRuns, Running, Attended
<1>5. Attended' => \A c \in 1..Len(calls') : calls'[c].step \in {"revoke", "issue"} =>
                        \A n \in 1..Len(pairs) : pairs[n].from # calls'[c].token
  BY <1>1, <1>2 DEF SpentInv, Attended
<1> QED BY <1>1, <1>3, <1>4, <1>5 DEF SpentInv, Attended

LEMMA SpentJoins ==
    ASSUME TypeInv, SpentInv, Joins
    PROVE  SpentInv'
<1>1. /\ Len(pairs) \in Nat /\ Len(pairs') = Len(pairs) + 1
      /\ live \subseteq 1..Len(pairs) /\ live' = live \cup {Len(pairs) + 1}
      /\ pairs'[Len(pairs) + 1].from = 0
      /\ \A n \in 1..Len(pairs) : pairs'[n] = pairs[n] /\ pairs[n].from \in Known
      /\ UNCHANGED <<calls, refresh>> /\ marks \subseteq marks'
      /\ \A c \in 1..Len(calls) : calls[c].token \in 1..Len(pairs)
  BY DEF TypeInv, ServerOK, PairsOK, CallsOK, Joins
<1>2. \A n \in 1..Len(pairs') : n \in 1..Len(pairs) \/ n = Len(pairs) + 1
  BY <1>1
<1>3. SpentAreDead'
  BY <1>1, <1>2 DEF SpentInv, SpentAreDead, Known
<1>4. Attended' => Attended
  BY <1>1 DEF Attended
<1>5. OneRuns'
  BY <1>1, <1>4 DEF SpentInv, OneRuns, Running
<1>6. ASSUME Attended' PROVE (\A m, n \in 1..Len(pairs) :
                                pairs[m].from = pairs[n].from /\ pairs[m].from # 0 => m = n)'
  BY <1>1, <1>2, <1>4, <1>6 DEF SpentInv
<1>7. ASSUME Attended' PROVE (\A c \in 1..Len(calls) : calls[c].step \in {"revoke", "issue"} =>
                                \A n \in 1..Len(pairs) : pairs[n].from # calls[c].token)'
  BY <1>1, <1>2, <1>4, <1>7 DEF SpentInv
<1> QED BY <1>3, <1>5, <1>6, <1>7 DEF SpentInv

LEMMA SpentServes ==
    ASSUME TypeInv, SpentInv, NEW c \in 1..Len(calls), Serving(c)
    PROVE  SpentInv'
<1> USE DEF Running
<1>1. /\ Len(pairs) \in Nat /\ live \subseteq 1..Len(pairs)
      /\ \A n \in 1..Len(pairs) : pairs[n].from \in 0..Len(pairs)
      /\ \A d \in 1..Len(calls) : calls[d].token \in 1..Len(pairs)
  BY DEF TypeInv, ServerOK, PairsOK, CallsOK, Known
<1>2. SpentAreDead /\ OneRuns
  BY DEF SpentInv
<1>3. CASE Selects(c)
  <2>1. /\ 1..Len(calls') = 1..Len(calls) /\ UNCHANGED <<pairs, live, marks, refresh>>
        /\ calls[c].step = "select" /\ calls'[c].token = calls[c].token
        /\ calls'[c].step \in {"revoke", "refused"}
        /\ calls'[c].step = "revoke" => calls[c].token \in live
        /\ \A d \in 1..Len(calls) : d # c => calls'[d] = calls[d]
    BY <1>3 DEF Selects, Goes
  <2>2. SpentAreDead'
    BY <1>2, <2>1 DEF SpentAreDead
  <2>3. OneRuns'
    BY <1>2, <2>1 DEF OneRuns, Attended
  <2>4. \A n \in 1..Len(pairs) : calls'[c].step = "revoke" => pairs[n].from # calls[c].token
    BY <1>2, <2>1 DEF SpentAreDead
  <2> QED BY <2>1, <2>2, <2>3, <2>4 DEF SpentInv, Attended
<1>4. CASE Revokes(c)
  <2>1. /\ 1..Len(calls') = 1..Len(calls) /\ UNCHANGED <<pairs, marks, refresh>>
        /\ calls[c].step = "revoke" /\ calls'[c].token = calls[c].token
        /\ calls'[c].step = "issue" /\ live' = live \ {calls[c].token}
        /\ \A d \in 1..Len(calls) : d # c => calls'[d] = calls[d]
    BY <1>4 DEF Revokes, Goes
  <2>2. SpentAreDead'
    BY <1>2, <2>1 DEF SpentAreDead
  <2>3. OneRuns'
    BY <1>2, <2>1 DEF OneRuns, Attended
  <2> QED BY <2>1, <2>2, <2>3 DEF SpentInv, Attended
<1>5. CASE Errs(c)
  <2>1. /\ 1..Len(calls') = 1..Len(calls) /\ UNCHANGED <<pairs, live, refresh>>
        /\ calls[c].step \in {"select", "revoke", "issue"} /\ calls'[c].token = calls[c].token
        /\ calls'[c].step \in {"refused", "failed"} /\ marks \subseteq marks'
        /\ \A d \in 1..Len(calls) : d # c => calls'[d] = calls[d]
    BY <1>5 DEF Errs, Goes
  <2>2. SpentAreDead'
    BY <1>2, <2>1 DEF SpentAreDead
  <2>3. Attended' => Attended
    BY <2>1 DEF Attended
  <2>4. OneRuns'
    BY <1>2, <2>1, <2>3 DEF OneRuns
  <2> QED BY <2>1, <2>2, <2>3, <2>4 DEF SpentInv
<1>6. CASE Issues(c)
  <2>1. /\ 1..Len(calls') = 1..Len(calls) /\ UNCHANGED <<marks, refresh>>
        /\ calls[c].step = "issue" /\ calls'[c].token = calls[c].token
        /\ calls'[c].step = "issued" /\ live' = live \cup {Len(pairs) + 1}
        /\ \A d \in 1..Len(calls) : d # c => calls'[d] = calls[d]
    BY <1>6 DEF Issues, Goes
  <2>2. /\ Len(pairs') = Len(pairs) + 1 /\ pairs'[Len(pairs) + 1].from = calls[c].token
        /\ \A n \in 1..Len(pairs) : pairs'[n] = pairs[n]
        /\ \A n \in 1..Len(pairs') : n \in 1..Len(pairs) \/ n = Len(pairs) + 1
    BY <1>1, <1>6 DEF Issues
  <2>3. calls[c].token \in 1..Len(pairs) /\ calls[c].token \notin live
    BY <1>1, <1>2, <2>1 DEF SpentAreDead
  <2>4. SpentAreDead'
    <3>1. ASSUME NEW n \in 1..Len(pairs') PROVE pairs'[n].from \notin live'
      <4>1. CASE n \in 1..Len(pairs)
        <5>1. pairs[n].from \in 0..Len(pairs) /\ pairs[n].from \notin live
          BY <1>1, <1>2, <4>1 DEF SpentAreDead
        <5> QED BY <1>1, <2>1, <2>2, <4>1, <5>1
      <4>2. CASE n = Len(pairs) + 1
        BY <1>1, <2>1, <2>2, <2>3, <4>2
      <4> QED BY <2>2, <3>1, <4>1, <4>2
    <3>2. ASSUME NEW d \in 1..Len(calls'), calls'[d].step = "issue" PROVE calls'[d].token \notin live'
      <4>1. d \in 1..Len(calls) /\ calls'[d] = calls[d]
        BY <2>1, <3>2
      <4>2. calls[d].token \in 1..Len(pairs) /\ calls[d].token \notin live
        BY <1>1, <1>2, <3>2, <4>1 DEF SpentAreDead
      <4> QED BY <1>1, <2>1, <4>1, <4>2
    <3> QED BY <3>1, <3>2 DEF SpentAreDead
  <2>5. OneRuns'
    BY <1>2, <2>1 DEF OneRuns, Attended
  <2>6. ASSUME Attended PROVE \A d \in 1..Len(calls) : calls'[d].step \notin {"revoke", "issue"}
    BY <1>2, <2>1, <2>6 DEF OneRuns
  <2>7. ASSUME Attended PROVE \A n \in 1..Len(pairs) : pairs[n].from # calls[c].token
    BY <2>1, <2>7 DEF SpentInv
  <2>8. ASSUME Attended' PROVE (\A m, n \in 1..Len(pairs) :
                                  pairs[m].from = pairs[n].from /\ pairs[m].from # 0 => m = n)'
    BY <1>1, <2>1, <2>2, <2>7, <2>8 DEF SpentInv, Attended
  <2> QED BY <2>1, <2>4, <2>5, <2>6, <2>8 DEF SpentInv, Attended
<1> QED BY <1>3, <1>4, <1>5, <1>6, ServingEvents

LEMMA SpentStep == TypeInv /\ SpentInv /\ [Next]_vars => SpentInv'
<1> SUFFICES ASSUME TypeInv, SpentInv, [Next]_vars PROVE SpentInv'
  OBVIOUS
<1>1. CASE UNCHANGED vars
  BY <1>1, SpentKept DEF vars, clientVars, serverVars
<1>2. CASE LoadTokens \/ LoadFails
  BY <1>2, SpentKept DEF LoadTokens, LoadFails, Mark, serverVars
<1>3. ASSUME NEW q \in Requests, Requesting(q) PROVE SpentInv'
  <2>1. CASE Idle
    BY <2>1, SpentKept DEF Idle
  <2> QED BY <1>3, <2>1, RequestingEvents, SpentStarts
<1>4. CASE RefreshAnswered
  <2>1. refresh.step = "sent" => ~Running(refresh.call)
    BY <1>4 DEF RefreshAnswered, Running, Call
  <2>2. UNCHANGED <<pairs, live, calls, marks>>
    BY <1>4 DEF RefreshAnswered, serverVars
  <2> QED BY <2>1, <2>2, SpentKept
<1>5. CASE RefreshAborted
  <2>1. UNCHANGED <<pairs, live, calls>> /\ marks \subseteq marks' /\ ~Attended'
    BY <1>5 DEF RefreshAborted, serverVars, Mark, Attended
  <2> QED BY <2>1, SpentKept
<1>6. CASE Writing
  <2>1. /\ UNCHANGED <<pairs, live, calls>> /\ marks \subseteq marks'
        /\ refresh.step = "sent" => refresh' = refresh
    BY <1>6, WriteEvent
  <2> QED BY <2>1, SpentKept
<1>7. ASSUME NEW c \in DOMAIN calls, Serving(c) PROVE SpentInv'
  <2>1. c \in 1..Len(calls)
    BY DEF TypeInv, ServerOK, CallsOK
  <2> QED BY <1>7, <2>1, SpentServes
<1>8. CASE SignIn
  BY <1>8, SignInEvent, SpentJoins
<1>9. CASE SignOut
  BY <1>9, SpentKept DEF SignOut, serverVars, Races
<1>10. CASE AccessExpires
  BY <1>10, SpentKept DEF AccessExpires, clientVars
<1>11. CASE RefreshTokenExpires
  BY <1>11, SpentKept DEF RefreshTokenExpires, clientVars, Mark
<1>12. CASE Relaunch
  <2>1. UNCHANGED <<pairs, live, calls>> /\ marks \subseteq marks'
    BY <1>12 DEF Relaunch, serverVars
  <2>2. Attended' => refresh.step # "sent"
    BY <1>12 DEF Relaunch, Attended
  <2> QED BY <2>1, <2>2, SpentKept
<1> QED
  BY <1>1, <1>2, <1>3, <1>4, <1>5, <1>6, <1>7, <1>8, <1>9, <1>10, <1>11, <1>12
     DEF Next, Refreshing

\* Unless the client gave up on a call or crashed under one, the server never
\* issues two pairs for one refresh token, however many requests meet the
\* expiry together: refreshInFlight at client.ts 130, Service.Refresh.
THEOREM TokensSpentOnce == Spec => []SpentOnce
BY TypeInit, TypeStep, SpentInit, SpentStep, SpentMeans, PTL DEF Spec

(***************************************************************************)
(* What is stored, and whose session it is.                                *)
(***************************************************************************)
\* The refresh that was waited for brings a pair, ends the session or fails.
LEMMA AnswerEvent ==
    ASSUME TypeInv, RefreshAnswered
    PROVE  /\ refresh.step = "sent" /\ refresh.call \in 1..Len(calls)
           /\ UNCHANGED <<disk, loaded, pairs, live, calls, wanted, marks>>
           /\ \/ /\ Call.step = "issued" /\ refresh'.step = "saving"
                 /\ tokens' = Call.pair /\ Stored' = tokens'
              \/ /\ Call.step = "refused" /\ refresh'.step = "clearing"
                 /\ tokens' = 0 /\ Stored' = tokens'
              \/ /\ Call.step = "failed" /\ refresh'.step = "idle"
                 /\ tokens' = tokens /\ Stored' = Stored
<1>1. /\ refresh.step = "sent" /\ UNCHANGED <<disk, loaded, pairs, live, calls, wanted, marks>>
  BY DEF RefreshAnswered, serverVars
<1>2. refresh.call \in 1..Len(calls) /\ refresh \in [step: RefreshSteps, call: Nat]
  BY <1>1 DEF TypeInv, RefreshOK, ServerOK, CallsOK
<1>3. CASE Call.step = "issued"
  <2>1. Call.pair \in Known
    BY <1>2, <1>3 DEF TypeInv, ServerOK, CallsOK, Call, Known
  <2>2. SetTokens(Call.pair, TRUE) /\ refresh' = [refresh EXCEPT !.step = "saving"]
    BY <1>3 DEF RefreshAnswered, SaveTokens
  <2>3. refresh'.step = "saving"
    BY <1>2, <2>2
  <2>4. PICK pair \in Known : pair = Call.pair
    BY <2>1
  <2>5. tokens' = pair /\ Stored' = pair
    BY <1>1, <2>2, <2>4, SetTokensEvent
  <2> QED BY <1>1, <1>2, <1>3, <2>3, <2>4, <2>5
<1>4. CASE Call.step = "refused"
  <2>1. 0 \in Known
    BY DEF TypeInv, ServerOK, PairsOK, Known
  <2>2. SetTokens(0, TRUE) /\ refresh' = [refresh EXCEPT !.step = "clearing"]
    BY <1>4 DEF RefreshAnswered, ClearTokens
  <2>3. refresh'.step = "clearing"
    BY <1>2, <2>2
  <2>4. tokens' = 0 /\ Stored' = 0
    BY <1>1, <2>1, <2>2, SetTokensEvent
  <2> QED BY <1>1, <1>2, <1>4, <2>3, <2>4
<1>5. CASE Call.step = "failed"
  BY <1>1, <1>2, <1>5 DEF RefreshAnswered, EndRefresh, NoRefresh, Stored
<1> QED BY <1>3, <1>4, <1>5 DEF RefreshAnswered

LEMMA RelaunchEvent ==
    ASSUME TypeInv, Relaunch
    PROVE  /\ UNCHANGED <<disk, pairs, live, calls, wanted>> /\ marks \subseteq marks'
           /\ loaded /\ ~loaded' /\ tokens' = 0 /\ refresh'.step = "idle"
           /\ marks' \subseteq marks \cup {"crashed"}
           /\ "crashed" \notin marks' => Stored = disk /\ refresh.step # "sent"
BY DEF Relaunch, NoRefresh, Stored, serverVars

StorageKept == Stored' = Stored /\ UNCHANGED <<tokens, loaded>> /\ marks \subseteq marks'

LEMMA StorageStep == TypeInv /\ StorageInv /\ [Next]_vars => StorageInv'
<1> SUFFICES ASSUME TypeInv, StorageInv, [Next]_vars PROVE StorageInv'
  OBVIOUS
<1>1. ASSUME StorageKept PROVE StorageInv'
  BY <1>1 DEF StorageKept, StorageInv
<1>2. ASSUME Stored' = tokens' PROVE StorageInv'
  BY <1>2 DEF StorageInv
<1>3. ASSUME UNCHANGED <<tokens, disk, writes, loaded>>, marks \subseteq marks' PROVE StorageInv'
  BY <1>1, <1>3 DEF StorageKept, Stored
<1>4. CASE UNCHANGED vars
  BY <1>3, <1>4 DEF vars, clientVars
<1>5. CASE LoadTokens
  BY <1>2, <1>5 DEF LoadTokens, TypeInv, LaunchOK, Stored
<1>6. CASE LoadFails
  BY <1>6 DEF LoadFails, Mark, StorageInv
<1>7. ASSUME NEW q \in Requests, Requesting(q) PROVE StorageInv'
  BY <1>3, <1>7, RequestingEvents DEF Idle, Starts
<1>8. CASE RefreshAnswered
  BY <1>1, <1>2, <1>8, AnswerEvent DEF StorageKept
<1>9. CASE RefreshAborted
  BY <1>3, <1>9 DEF RefreshAborted, Mark
<1>10. CASE Write
  <2>1. Stored' = Stored /\ UNCHANGED <<tokens, loaded>> /\ marks \subseteq marks'
    BY <1>10, WriteEvent DEF Writing
  <2> QED BY <1>1, <2>1 DEF StorageKept
<1>11. CASE WriteFails
  BY <1>11, WriteEvent DEF Writing, StorageInv
<1>12. ASSUME NEW c \in DOMAIN calls, Serving(c) PROVE StorageInv'
  <2>1. c \in 1..Len(calls)
    BY DEF TypeInv, ServerOK, CallsOK
  <2>2. Selects(c) \/ Revokes(c) \/ Issues(c) \/ Errs(c)
    BY <1>12, <2>1, ServingEvents
  <2>3. UNCHANGED <<tokens, disk, writes, loaded>> /\ marks \subseteq marks'
    BY <2>2 DEF Selects, Revokes, Issues, Errs, Goes
  <2> QED BY <1>3, <2>3
<1>13. CASE SignIn
  BY <1>2, <1>13, SignInEvent
<1>14. CASE SignOut
  <2>1. 0 \in Known
    BY DEF TypeInv, ServerOK, PairsOK, Known
  <2>2. SetTokens(0, FALSE) /\ UNCHANGED pairs
    BY <1>14 DEF SignOut, ClearTokens, serverVars
  <2> QED BY <1>2, <2>1, <2>2, SetTokensEvent
<1>15. CASE AccessExpires \/ RefreshTokenExpires
  BY <1>3, <1>15 DEF AccessExpires, RefreshTokenExpires, clientVars, Mark
<1>16. CASE Relaunch
  BY <1>16, RelaunchEvent DEF StorageInv
<1> QED
  BY <1>4, <1>5, <1>6, <1>7, <1>8, <1>9, <1>10, <1>11, <1>12, <1>13, <1>14, <1>15, <1>16
     DEF Next, Refreshing, Writing

LEMMA PassedOnStep == TypeInv /\ PassedOn /\ [Next]_vars => PassedOn'
<1> SUFFICES ASSUME TypeInv, PassedOn, [Next]_vars PROVE PassedOn'
  OBVIOUS
<1>1. /\ Len(pairs) \in Nat /\ Len(calls) \in Nat
      /\ \A c \in 1..Len(calls) :
            /\ calls[c].token \in 1..Len(pairs)
            /\ calls[c].step = "issued" => calls[c].pair \in 1..Len(pairs)
  BY DEF TypeInv, ServerOK, PairsOK, CallsOK
<1>2. ASSUME UNCHANGED <<pairs, calls>> PROVE PassedOn'
  BY <1>2 DEF PassedOn
<1>3. ASSUME NEW q \in Requests, Requesting(q) PROVE PassedOn'
  <2>1. CASE Idle
    BY <1>2, <2>1 DEF Idle
  <2>2. CASE Starts
    <3>1. \A c \in 1..Len(calls') : c \in 1..Len(calls) \/ c = Len(calls) + 1
      BY <1>1, <2>2 DEF Starts
    <3> QED BY <2>2, <3>1 DEF Starts, PassedOn
  <2> QED BY <1>3, <2>1, <2>2, RequestingEvents
<1>4. ASSUME NEW c \in 1..Len(calls), Serving(c) PROVE PassedOn'
  <2>1. CASE Selects(c) \/ Revokes(c) \/ Errs(c)
    <3>1. /\ 1..Len(calls') = 1..Len(calls) /\ UNCHANGED pairs /\ calls'[c].step # "issued"
          /\ \A d \in 1..Len(calls) : d # c => calls'[d] = calls[d]
      BY <2>1 DEF Selects, Revokes, Errs, Goes
    <3> QED BY <3>1 DEF PassedOn
  <2>2. CASE Issues(c)
    <3>1. /\ 1..Len(calls') = 1..Len(calls)
          /\ \A d \in 1..Len(calls) : d # c => calls'[d] = calls[d]
          /\ calls'[c].pair = Len(pairs) + 1 /\ calls'[c].token = calls[c].token
          /\ pairs'[Len(pairs) + 1].owner = pairs[calls[c].token].owner
          /\ \A n \in 1..Len(pairs) : pairs'[n] = pairs[n]
      BY <2>2 DEF Issues, Goes
    <3> QED BY <1>1, <3>1 DEF PassedOn
  <2> QED BY <1>4, <2>1, <2>2, ServingEvents
<1>5. CASE SignIn
  <2>1. UNCHANGED calls /\ \A n \in 1..Len(pairs) : pairs'[n] = pairs[n]
    BY <1>5, SignInEvent DEF Joins
  <2> QED BY <1>1, <2>1 DEF PassedOn
<1>6. DOMAIN calls = 1..Len(calls)
  BY DEF TypeInv, ServerOK, CallsOK
<1>7. CASE UNCHANGED vars
  BY <1>2, <1>7 DEF vars, serverVars
<1>8. CASE LoadTokens \/ LoadFails \/ SignOut \/ AccessExpires \/ RefreshTokenExpires \/ Relaunch
  BY <1>2, <1>8
     DEF LoadTokens, LoadFails, SignOut, AccessExpires, RefreshTokenExpires, Relaunch, serverVars
<1>9. CASE Refreshing \/ Writing
  BY <1>2, <1>9, WriteEvent DEF Refreshing, RefreshAnswered, RefreshAborted, serverVars
<1> QED BY <1>3, <1>4, <1>5, <1>6, <1>7, <1>8, <1>9 DEF Next

LEMMA WantedInit == Init => StorageInv /\ PassedOn /\ WantedInv
<1> SUFFICES ASSUME Init PROVE StorageInv /\ PassedOn /\ WantedInv
  OBVIOUS
<1>1. 1..Len(calls) = {}
  BY EmptySeq DEF Init
<1> QED BY <1>1 DEF Init, StorageInv, PassedOn, WantedInv, Settled, Owns, NoRefresh

LEMMA WantedMeans == TypeInv /\ WantedInv => SessionIsWanted
BY DEF WantedInv, Settled, Owns, SessionIsWanted

\* The same pairs of the same sign-ins are known; nothing new is presented.
LEMMA WantedKept ==
    ASSUME TypeInv, WantedInv, Settled' => Settled,
           UNCHANGED <<disk, wanted, loaded>>,
           \A n \in 1..Len(pairs) : pairs'[n].owner = pairs[n].owner,
           tokens' \in {0, tokens},
           refresh'.step = "sent" =>
                /\ refresh.step = "sent" /\ refresh'.call = refresh.call
                /\ calls'[refresh.call].token = calls[refresh.call].token
    PROVE  WantedInv'
<1>1. /\ tokens \in 0..Len(pairs) /\ disk \in 0..Len(pairs) /\ Len(pairs) \in Nat
      /\ refresh.step = "sent" => calls[refresh.call].token \in 1..Len(pairs)
  BY DEF TypeInv, MemoryOK, Known, ServerOK, PairsOK, RefreshOK, CallsOK
<1>2. Owns(tokens) => (tokens' # 0 => pairs'[tokens'].owner = wanted')
  BY <1>1 DEF Owns
<1>3. Owns(disk) => (disk' # 0 => pairs'[disk'].owner = wanted')
  BY <1>1 DEF Owns
<1>4. ASSUME refresh.step = "sent", Owns(calls[refresh.call].token), refresh'.step = "sent"
      PROVE  pairs'[calls'[refresh'.call].token].owner = wanted'
  BY <1>1, <1>4 DEF Owns
<1>5. Settled' => /\ Owns(tokens)
                  /\ ~loaded => Owns(disk)
                  /\ refresh.step = "sent" => Owns(calls[refresh.call].token)
  BY DEF WantedInv
<1>6. ASSUME Settled' PROVE Owns(tokens)' /\ (refresh'.step = "sent" => Owns(calls[refresh.call].token)')
  BY <1>2, <1>4, <1>5, <1>6 DEF Owns
<1>7. ASSUME Settled', ~loaded' PROVE Owns(disk)'
  <2>1. ~loaded
    BY <1>7
  <2> QED BY <1>3, <1>5, <1>7, <2>1 DEF Owns
<1> QED BY <1>6, <1>7 DEF WantedInv

LEMMA WantedStep ==
    TypeInv /\ StorageInv /\ PassedOn /\ WantedInv /\ [Next]_vars => WantedInv'
<1> SUFFICES ASSUME TypeInv, StorageInv, PassedOn, WantedInv, [Next]_vars PROVE WantedInv'
  OBVIOUS
<1>1. ASSUME marks \subseteq marks' PROVE Settled' => Settled
  BY <1>1 DEF Settled
<1>2. ASSUME UNCHANGED <<tokens, disk, loaded, refresh, calls, pairs, wanted>>, marks \subseteq marks'
      PROVE  WantedInv'
  BY <1>1, <1>2, WantedKept
<1>3. CASE UNCHANGED vars
  BY <1>2, <1>3 DEF vars, clientVars, serverVars
<1>4. CASE LoadTokens
  BY <1>4 DEF LoadTokens, TypeInv, LaunchOK, WantedInv, Settled, Owns, serverVars
<1>5. CASE LoadFails
  BY <1>5 DEF LoadFails, Mark, WantedInv, Settled
<1>6. ASSUME NEW q \in Requests, Requesting(q) PROVE WantedInv'
  <2>1. CASE Idle
    BY <1>2, <2>1 DEF Idle
  <2>2. CASE Starts
    <3>1. calls'[refresh'.call].token = tokens /\ loaded'
          /\ UNCHANGED <<tokens, pairs, wanted, marks>>
      BY <2>2 DEF Starts
    <3> QED BY <3>1 DEF WantedInv, Settled, Owns
  <2> QED BY <1>6, <2>1, <2>2, RequestingEvents
<1>7. CASE RefreshAnswered
  <2>1. /\ refresh.step = "sent" /\ refresh.call \in 1..Len(calls) /\ refresh'.step # "sent"
        /\ UNCHANGED <<disk, loaded, pairs, calls, wanted, marks>>
    BY <1>7, AnswerEvent
  <2>2. CASE tokens' = 0 \/ tokens' = tokens
    BY <1>1, <2>1, <2>2, WantedKept
  <2>3. CASE Call.step = "issued" /\ tokens' = Call.pair
    <3>1. /\ calls[refresh.call].token # 0
          /\ pairs[tokens'].owner = pairs[calls[refresh.call].token].owner
      BY <2>1, <2>3 DEF PassedOn, Call, TypeInv, ServerOK, CallsOK
    <3>2. Settled' => pairs[tokens'].owner = wanted
      BY <2>1, <3>1 DEF WantedInv, Settled, Owns
    <3>3. loaded'
      BY <2>1 DEF TypeInv, LaunchOK
    <3> QED BY <2>1, <3>2, <3>3 DEF WantedInv, Owns
  <2> QED BY <1>7, <2>2, <2>3, AnswerEvent
<1>8. CASE RefreshAborted
  BY <1>1, <1>8, WantedKept DEF RefreshAborted, EndRefresh, NoRefresh, Mark, serverVars
<1>9. CASE Write
  <2>1. /\ UNCHANGED <<tokens, loaded, pairs, calls, wanted>> /\ loaded /\ marks \subseteq marks'
        /\ refresh.step = "sent" => refresh' = refresh
        /\ refresh'.step # refresh.step => refresh'.step = "idle"
    BY <1>9, WriteEvent DEF Writing
  <2> QED BY <1>1, <2>1 DEF WantedInv, Owns
<1>10. CASE WriteFails
  BY <1>10, WriteEvent DEF Writing, WantedInv, Settled
<1>11. ASSUME NEW c \in 1..Len(calls), Serving(c) PROVE WantedInv'
  <2>1. Selects(c) \/ Revokes(c) \/ Issues(c) \/ Errs(c)
    BY <1>11, ServingEvents
  <2>2. /\ UNCHANGED <<tokens, disk, loaded, refresh, wanted>> /\ marks \subseteq marks'
        /\ \A d \in 1..Len(calls) : calls'[d].token = calls[d].token
        /\ \A n \in 1..Len(pairs) : pairs'[n] = pairs[n]
    BY <2>1 DEF Selects, Revokes, Issues, Errs, Goes
  <2>3. refresh.step = "sent" => refresh.call \in 1..Len(calls)
    BY DEF TypeInv, RefreshOK, ServerOK, CallsOK
  <2> QED BY <1>1, <2>2, <2>3, WantedKept
<1>12. CASE SignIn
  <2>1. Joins
    BY <1>12, SignInEvent
  <2>2. loaded' /\ pairs'[tokens'].owner = wanted' /\ refresh' = refresh
    BY <2>1 DEF Joins
  <2>3. refresh.step = "sent" => ~Settled'
    BY <2>1 DEF Joins, Settled
  <2> QED BY <2>2, <2>3 DEF WantedInv, Owns
<1>13. CASE SignOut
  <2>1. tokens' = 0 /\ loaded' /\ refresh' = refresh
    BY <1>13 DEF SignOut, ClearTokens, SetTokens
  <2>2. refresh.step = "sent" => ~Settled'
    BY <1>13 DEF SignOut, Races, Settled
  <2> QED BY <2>1, <2>2 DEF WantedInv, Owns
<1>14. CASE AccessExpires \/ RefreshTokenExpires
  BY <1>2, <1>14 DEF AccessExpires, RefreshTokenExpires, clientVars, Mark
<1>15. CASE Relaunch
  <2>1. /\ UNCHANGED <<disk, pairs, wanted>> /\ marks \subseteq marks' /\ loaded
        /\ tokens' = 0 /\ refresh'.step = "idle"
        /\ "crashed" \notin marks' => Stored = disk
    BY <1>15, RelaunchEvent
  <2>2. Settled' => disk = tokens
    BY <2>1 DEF Settled, StorageInv
  <2>3. Settled' => Owns(tokens)
    BY <1>1, <2>1 DEF WantedInv
  <2> QED BY <2>1, <2>2, <2>3 DEF WantedInv, Owns
<1>16. DOMAIN calls = 1..Len(calls)
  BY DEF TypeInv, ServerOK, CallsOK
<1> QED
  BY <1>3, <1>4, <1>5, <1>6, <1>7, <1>8, <1>9, <1>10, <1>11, <1>12, <1>13, <1>14, <1>15, <1>16
     DEF Next, Refreshing, Writing

\* Without an error, a crash or a refresh under way at that moment, the client
\* works in the sign-in the parent asked for last, or in none: client.ts 147
\* passes on the sign-in of the pair it presented.
THEOREM SessionsAreWanted == Spec => []SessionIsWanted
BY TypeInit, TypeStep, WantedInit, StorageStep, PassedOnStep, WantedStep, WantedMeans, PTL DEF Spec

(***************************************************************************)
(* The session survives.                                                   *)
(***************************************************************************)
LEMMA SurvivalInit == Init => SurvivalInv
BY DEF Init, SurvivalInv, SessionKept, Works, NoRefresh

LEMMA SurvivalMeans == TypeInv /\ StorageInv /\ SurvivalInv => SessionSurvives
<1> SUFFICES ASSUME TypeInv, StorageInv, SurvivalInv PROVE HeldTokenWorks
  BY DEF SurvivalInv, SessionSurvives
<1> SUFFICES ASSUME Quiet, tokens # 0, Undisturbed PROVE tokens \in live /\ disk = tokens
  BY DEF HeldTokenWorks, Undisturbed
<1>1. tokens \in live
  BY DEF SurvivalInv, Works, Quiet
<1>2. Stored = disk /\ loaded
  BY DEF Quiet, Stored
<1>3. marks \cap {"crashed", "failed"} = {}
  BY DEF Undisturbed
<1> QED BY <1>1, <1>2, <1>3 DEF StorageInv

\* What a call that is waited for needs.
CallGoesOn ==
    refresh.step = "sent" =>
        LET call == calls[refresh.call]
        IN  /\ call.step \notin {"refused", "failed"}
            /\ call.step = "select" => call.token \in live
            /\ call.step = "issued" => call.pair \in live

LEMMA SurvivalStep ==
    TypeInv /\ SpentInv /\ StorageInv /\ SurvivalInv /\ [Next]_vars => SurvivalInv'
<1> SUFFICES ASSUME TypeInv, SpentInv, StorageInv, SurvivalInv, [Next]_vars PROVE SurvivalInv'
  OBVIOUS
<1>1. SUFFICES ASSUME Undisturbed'
               PROVE  /\ "lost" \notin marks'
                      /\ refresh'.step # "sent" => (tokens' # 0 => tokens' \in live')
                      /\ ~loaded' => (disk' # 0 => disk' \in live')
                      /\ refresh'.step # "clearing" /\ CallGoesOn'
  BY DEF SurvivalInv, SessionKept, Undisturbed, Works, CallGoesOn
<1> DEFINE Goal == /\ "lost" \notin marks'
                   /\ refresh'.step # "sent" => (tokens' # 0 => tokens' \in live')
                   /\ ~loaded' => (disk' # 0 => disk' \in live')
                   /\ refresh'.step # "clearing" /\ CallGoesOn'
<1> SUFFICES Goal
  OBVIOUS
<1>2. ASSUME marks \subseteq marks'
      PROVE  /\ Undisturbed /\ Attended /\ marks \cap {"crashed", "failed"} = {} /\ "lost" \notin marks
             /\ refresh.step # "sent" => Works(tokens)
             /\ ~loaded => Works(disk)
             /\ refresh.step # "clearing" /\ CallGoesOn
  <2>1. Undisturbed
    BY <1>1, <1>2 DEF Undisturbed
  <2>2. Attended /\ marks \cap {"crashed", "failed"} = {}
    BY <2>1 DEF Undisturbed, Attended
  <2>3. "lost" \notin marks
    BY <2>1 DEF SurvivalInv, SessionKept, Undisturbed
  <2> QED BY <2>1, <2>2, <2>3 DEF SurvivalInv, CallGoesOn
<1>3. ASSUME UNCHANGED <<tokens, disk, loaded, refresh, calls, live>>, marks \subseteq marks',
             "lost" \in marks' => "lost" \in marks
      PROVE  Goal
  BY <1>2, <1>3 DEF Works, CallGoesOn
<1>4. CASE UNCHANGED vars
  BY <1>3, <1>4 DEF vars, clientVars, serverVars
<1>5. CASE LoadTokens
  BY <1>2, <1>5 DEF LoadTokens, TypeInv, LaunchOK, Works, CallGoesOn, serverVars
<1>6. CASE LoadFails \/ RefreshAborted \/ RefreshTokenExpires
  BY <1>1, <1>6 DEF LoadFails, RefreshAborted, RefreshTokenExpires, Mark, Undisturbed
<1>7. ASSUME NEW q \in Requests, Requesting(q) PROVE Goal
  <2>1. CASE Idle
    BY <1>3, <2>1 DEF Idle
  <2>2. CASE Starts
    <3>1. /\ UNCHANGED <<disk, loaded, live, marks>> /\ refresh'.step = "sent" /\ loaded
          /\ calls'[refresh'.call].token = tokens /\ calls'[refresh'.call].step = "select"
          /\ refresh.step # "sent" /\ tokens # 0
      BY <2>2 DEF Starts
    <3> QED BY <1>2, <3>1 DEF Works, CallGoesOn
  <2> QED BY <1>7, <2>1, <2>2, RequestingEvents
<1>8. CASE RefreshAnswered
  <2>1. /\ refresh.step = "sent" /\ refresh'.step # "sent"
        /\ UNCHANGED <<disk, loaded, live, marks>>
    BY <1>8, AnswerEvent
  <2>2. /\ Call.step \notin {"refused", "failed"} /\ "lost" \notin marks
        /\ Call.step = "issued" => Call.pair \in live
    BY <1>2, <2>1 DEF CallGoesOn, Call
  <2>3. tokens' = Call.pair /\ Call.step = "issued" /\ refresh'.step = "saving"
    BY <1>8, <2>2, AnswerEvent
  <2>4. loaded
    BY <2>1 DEF TypeInv, LaunchOK
  <2> QED BY <2>1, <2>2, <2>3, <2>4 DEF CallGoesOn
<1>9. CASE Write
  <2>1. /\ UNCHANGED <<tokens, loaded, live, calls>> /\ loaded /\ marks' = marks \cup Losing
        /\ refresh.step = "sent" => refresh' = refresh
        /\ refresh'.step # refresh.step => refresh'.step = "idle"
    BY <1>9, WriteEvent DEF Writing
  <2>2. refresh.step # "clearing" /\ "lost" \notin marks /\ CallGoesOn
    BY <1>2, <2>1
  <2>3. Losing = {}
    BY <2>2 DEF Losing
  <2> QED BY <1>2, <2>1, <2>2, <2>3 DEF Works, CallGoesOn
<1>10. CASE WriteFails
  BY <1>1, <1>10, WriteEvent DEF Writing, Undisturbed
<1>11. ASSUME NEW c \in 1..Len(calls), Serving(c) PROVE Goal
  <2>1. Selects(c) \/ Revokes(c) \/ Issues(c) \/ Errs(c)
    BY <1>11, ServingEvents
  <2>2. /\ marks \subseteq marks' /\ marks' \subseteq marks \cup {"failed"}
        /\ UNCHANGED <<tokens, disk, loaded, refresh>>
        /\ Running(c)
    BY <2>1 DEF Selects, Revokes, Issues, Errs, Goes, Running
  <2>3. refresh.step = "sent" /\ refresh.call = c /\ loaded
    BY <1>2, <2>2 DEF SpentInv, OneRuns, TypeInv, LaunchOK
  <2>4. /\ "lost" \notin marks
        /\ calls[c].step = "select" => calls[c].token \in live
    BY <1>2, <2>2, <2>3 DEF CallGoesOn
  <2>5. /\ calls'[c].step \notin {"refused", "failed", "select"}
        /\ calls'[c].step = "issued" => calls'[c].pair \in live'
    <3>1. CASE Errs(c)
      BY <1>1, <3>1 DEF Errs, Undisturbed
    <3>2. CASE Selects(c)
      BY <2>4, <3>2 DEF Selects, Goes
    <3>3. CASE Revokes(c)
      BY <3>3 DEF Revokes, Goes
    <3>4. CASE Issues(c)
      BY <3>4 DEF Issues, Goes
    <3> QED BY <2>1, <3>1, <3>2, <3>3, <3>4
  <2> QED BY <2>2, <2>3, <2>4, <2>5 DEF CallGoesOn
<1>12. CASE SignIn
  <2>1. /\ tokens' = Len(pairs) + 1 /\ live' = live \cup {Len(pairs) + 1} /\ loaded'
        /\ marks \subseteq marks' /\ marks' \subseteq marks \cup {"race"}
        /\ UNCHANGED <<refresh, calls>>
    BY <1>12, SignInEvent DEF Joins
  <2> QED BY <1>2, <2>1 DEF CallGoesOn
<1>13. CASE SignOut
  <2>1. /\ tokens' = 0 /\ loaded' /\ marks \subseteq marks' /\ marks' \subseteq marks \cup {"race"}
        /\ UNCHANGED <<refresh, calls, live>>
    BY <1>13 DEF SignOut, ClearTokens, SetTokens, Races, serverVars
  <2> QED BY <1>2, <2>1 DEF CallGoesOn
<1>14. CASE AccessExpires
  BY <1>3, <1>14 DEF AccessExpires, clientVars
<1>15. CASE Relaunch
  <2>1. /\ UNCHANGED <<disk, live>> /\ marks \subseteq marks' /\ loaded
        /\ tokens' = 0 /\ refresh'.step = "idle" /\ marks' \subseteq marks \cup {"crashed"}
        /\ "crashed" \notin marks' => Stored = disk /\ refresh.step # "sent"
    BY <1>15, RelaunchEvent
  <2>2. "crashed" \notin marks'
    BY <1>1 DEF Undisturbed
  <2>3. disk = tokens /\ Works(tokens)
    BY <1>2, <2>1, <2>2 DEF StorageInv
  <2> QED BY <1>2, <2>1, <2>3 DEF Works, CallGoesOn
<1>16. DOMAIN calls = 1..Len(calls)
  BY DEF TypeInv, ServerOK, CallsOK
<1> QED
  BY <1>4, <1>5, <1>6, <1>7, <1>8, <1>9, <1>10, <1>11, <1>12, <1>13, <1>14, <1>15, <1>16
     DEF Next, Refreshing, Writing

\* Without a lost answer, an error, a crash or an expired token, the session
\* goes on in memory, in storage and on the server: the token the client holds
\* between refreshes is one the server accepts, and no refused refresh signs
\* the parent out (ensureFreshTokens, Service.Refresh).
THEOREM SessionsSurvive == Spec => []SessionSurvives
BY TypeInit, TypeStep, SpentInit, SpentStep, WantedInit, StorageStep, SurvivalInit, SurvivalStep,
   SurvivalMeans, PTL DEF Spec

=============================================================================
