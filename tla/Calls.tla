-------------------------------- MODULE Calls --------------------------------
(***************************************************************************)
(* Unary calls of in-process capabilities: ContractSession and the         *)
(* idempotency ledger of ContractProvider in                               *)
(* packages/acap-contracts/src/runtime.ts, with the pending table of       *)
(* Host.bind in packages/kernel/src/index.ts.                              *)
(*                                                                         *)
(* One provider serves the sessions of several callers.  An attempt is one *)
(* invoke(); its requestId may be used again once it is not outstanding,   *)
(* and an idempotency key any time.  Everything before the first await of  *)
(* invoke() is one step, the handler of the provider included; then the    *)
(* attempt waits for the first of its handler and its failure promise, and *)
(* the rest of invoke() is another step.  A handler may call again: the    *)
(* attempt it runs for is the parent.  Streams.tla adds the attempts of    *)
(* stream(), which share prepare(), the tables and the deadlines.          *)
(***************************************************************************)
EXTENDS Integers, Sequences, FiniteSets

CONSTANTS
  Sessions,     \* one for each calling instance
  Ids,          \* request ids
  Keys, NoKey,  \* idempotency keys, and none
  Bodies,       \* request payloads
  Inputs,       \* pairs of key and payload callers use
  MaxAttempts,  \* bound: invoke() calls
  MaxTime,      \* bound: now() is at most this
  MaxLosses,    \* bound: sessions closed, grants revoked, provider withdrawn
  Deadlines,    \* deadlines callers ask for
  MaxCall,      \* binding.maxCallMs
  Retention,    \* idempotencyPolicy.retentionMs
  MaxPending,   \* binding.maxPending
  MaxCalls,     \* config.maxCalls
  MaxRecords    \* ContractProvider.maxRecords

Attempts == 1 .. MaxAttempts
Times == 0 .. MaxTime

ASSUME CallsAssumption ==
  /\ NoKey \notin Keys /\ Deadlines \subseteq Nat
  /\ Inputs \subseteq (Keys \union {NoKey}) \X Bodies
  /\ {MaxAttempts, MaxTime, MaxLosses, MaxCall, Retention, MaxPending,
      MaxCalls, MaxRecords} \subseteq Nat

VARIABLES
  clock,      \* now()
  request,    \* per attempt: CallEnvelope, caller, deadline and parent
  pc,         \* where invoke() is
  done,       \* attempts with done set
  aborted,    \* attempts whose controller is aborted
  outcome,    \* how Promise.race ended; then what invoke() returned
  handler,    \* the handler of the provider
  pending,    \* ContractSession.#pending of each session
  admitted,   \* Host.#pending
  ledger,     \* ContractProvider.#ledger
  closed,     \* sessions with #closed
  withdrawn,  \* ContractProvider.#closed
  denied,     \* sessions whose grant is revoked
  ended       \* ghost: when the handler ended

table == <<pending, admitted>>
outside == <<closed, withdrawn, denied>>
vars == <<clock, request, pc, done, aborted, outcome, handler, table,
          ledger, outside, ended>>

Requests == [session : Sessions, id : Ids, key : Keys \union {NoKey},
             body : Bodies, deadline : Nat, parent : Attempts \union {0}]
\* value is the attempt whose handler computed the result, 0 for an error.
Records == [by : Attempts, body : Bodies, pending : BOOLEAN, expires : Nat,
            value : Attempts \union {0}]
NoRecord == [by |-> 0]

TypeOK ==
  /\ clock \in Times
  /\ request \in Seq(Requests) /\ Len(request) <= MaxAttempts
  /\ pc \in [Attempts -> {"unused", "racing", "settled", "over",
                       "streaming"}]
  /\ done \subseteq Attempts /\ aborted \subseteq Attempts
  /\ outcome \in [Attempts -> -1 .. MaxAttempts]
  /\ handler \in [Attempts -> {"none", "running", "iterating", "ended"}]
  /\ pending \in [Sessions \X Ids -> Attempts \union {0}]
  /\ \A s \in Sessions :
       Cardinality({n \in Ids : pending[<<s, n>>] # 0}) <= MaxPending
  /\ admitted \subseteq Attempts /\ Cardinality(admitted) <= MaxCalls
  /\ ledger \in [Sessions \X Keys -> Records \union {NoRecord}]
  /\ Cardinality({x \in Sessions \X Keys : ledger[x] # NoRecord}) <= MaxRecords
  /\ closed \subseteq Sessions /\ denied \subseteq Sessions
  /\ withdrawn \in BOOLEAN

\* The attempts made.
Made == DOMAIN request

\* In outcome: -1 for nothing yet, 0 for an error, else the value.
Init ==
  /\ clock = 0 /\ request = <<>>
  /\ pc = [a \in Attempts |-> "unused"] /\ done = {} /\ aborted = {}
  /\ outcome = [a \in Attempts |-> -1]
  /\ handler = [a \in Attempts |-> "none"]
  /\ pending = [x \in Sessions \X Ids |-> 0] /\ admitted = {}
  /\ ledger = [x \in Sessions \X Keys |-> NoRecord]
  /\ closed = {} /\ withdrawn = FALSE /\ denied = {}
  /\ ended = [a \in Attempts |-> 0]

-----------------------------------------------------------------------------
(* stop() and cancel().                                                    *)

\* Mutant: stop() has no guard and acts again on an id that was given away.
TableWithoutAgain(S) ==
  /\ pending' = [x \in Sessions \X Ids |->
       IF \E a \in S : x = <<request[a].session, request[a].id>>
       THEN 0 ELSE pending[x]]
  /\ admitted' = admitted \ S

\* stop() of the attempts in S: only the first one for an attempt has an
\* effect.
TableWithout(S) ==
  /\ pending' = [x \in Sessions \X Ids |->
                   IF pending[x] \in S \ done THEN 0 ELSE pending[x]]
  /\ admitted' = admitted \ (S \ done)

\* The attempts that cancel() of S reaches: the abort signal of a parent
\* cancels the attempts below it, as long as they are not done.
Reached(S) ==
  LET hit[a \in Attempts] ==
        /\ a \in Made /\ a \notin done
        /\ a \in S \/ (request[a].parent # 0 /\ hit[request[a].parent])
  IN  {a \in Attempts : hit[a]}

\* cancel() of the attempts in S.  The code it is given is left out.
Cancel(S) ==
  LET H == Reached(S)
      raced == {a \in H : pc[a] = "racing"}
  IN  /\ done' = done \union H /\ aborted' = aborted \union H
      /\ TableWithout(H)
      /\ outcome' = [a \in Attempts |-> IF a \in raced THEN 0 ELSE outcome[a]]
      /\ pc' = [a \in Attempts |-> IF a \in raced THEN "settled" ELSE pc[a]]
      /\ UNCHANGED <<clock, request, ended>>

\* The caller's signal, or ContractSession.cancel().
CallerCancels(a) ==
  /\ a \in Made /\ a \notin done
  /\ Cancel({a}) /\ UNCHANGED <<handler, ledger, outside>>

\* The timer of prepare().
DeadlineTimer(a) ==
  /\ a \in Made /\ a \notin done /\ clock >= request[a].deadline
  /\ Cancel({a}) /\ UNCHANGED <<handler, ledger, outside>>

\* How often authority or the provider has been lost.
Losses == Cardinality(closed) + Cardinality(denied)
            + IF withdrawn THEN 1 ELSE 0

\* ContractSession.close().
CloseSession(s) ==
  /\ Losses < MaxLosses /\ s \notin closed /\ closed' = closed \union {s}
  /\ Cancel({a \in Made : request[a].session = s})
  /\ UNCHANGED <<handler, ledger, withdrawn, denied>>

\* The cleanup of provide(): ContractProvider.close() and Host.remove().
Withdraw ==
  /\ Losses < MaxLosses /\ ~withdrawn /\ withdrawn' = TRUE
  /\ ledger' = [x \in Sessions \X Keys |-> NoRecord]
  /\ Cancel(Made)
  /\ UNCHANGED <<handler, closed, denied>>

\* Host.revokeGrant(): pending calls go on until they are about to deliver.
Deny(s) ==
  /\ Losses < MaxLosses /\ s \notin denied /\ denied' = denied \union {s}
  /\ UNCHANGED <<clock, request, pc, done, aborted, outcome, handler, table,
                 ledger, closed, withdrawn, ended>>

-----------------------------------------------------------------------------
(* invoke().                                                               *)

Least(x, y) == IF x <= y THEN x ELSE y

\* The effective deadline: a nested call cannot outlive its parent.
Deadline(d, p) ==
  LET own == Least(d, clock + MaxCall)
  IN  IF p = 0 THEN own ELSE Least(own, request[p].deadline)

\* Mutant: the signal of the parent is not looked at.
AdmissibleOrphan(q) ==
  /\ q.session \notin closed /\ ~withdrawn /\ q.session \notin denied
  /\ pending[<<q.session, q.id>>] = 0 /\ q.deadline > clock
  /\ Cardinality({n \in Ids : pending[<<q.session, n>>] # 0}) < MaxPending
  /\ Cardinality(admitted) < MaxCalls

\* The checks of prepare() and of binding.admit; a call that fails one leaves
\* no trace.
Admissible(q) ==
  /\ q.session \notin closed /\ ~withdrawn /\ q.session \notin denied
  /\ pending[<<q.session, q.id>>] = 0 /\ q.deadline > clock
  /\ q.parent \notin aborted
  /\ Cardinality({n \in Ids : pending[<<q.session, n>>] # 0}) < MaxPending
  /\ Cardinality(admitted) < MaxCalls

\* Mutant: records of calls in flight expire too.
PurgedAll ==
  [x \in Sessions \X Keys |->
     IF ledger[x] # NoRecord /\ (ledger[x].pending \/ ledger[x].expires <= clock)
     THEN NoRecord ELSE ledger[x]]

\* The ledger without the records whose retention is over.
Purged ==
  [x \in Sessions \X Keys |->
     IF ledger[x] # NoRecord /\ ~ledger[x].pending /\ ledger[x].expires <= clock
     THEN NoRecord ELSE ledger[x]]

\* What a recorded outcome makes of a call with the same key.
Replay(r, q) == IF r.pending \/ r.body # q.body THEN 0 ELSE r.value

\* unary() up to the call of the handler, for attempt a.
Dispatch(a, q) ==
  LET x == <<q.session, q.key>>
      full == Cardinality({y \in Sessions \X Keys : Purged[y] # NoRecord})
                >= MaxRecords
      known == q.key # NoKey /\ Purged[x] # NoRecord
      refused == q.key # NoKey /\ ~known /\ full
      settled == known \/ refused
  IN  /\ handler' = [handler EXCEPT ![a] = IF settled THEN @ ELSE "running"]
      /\ pc' = [pc EXCEPT ![a] = IF settled THEN "settled" ELSE "racing"]
      /\ outcome' = [outcome EXCEPT ![a] =
                    IF known THEN Replay(Purged[x], q)
                    ELSE IF refused THEN 0 ELSE @]
      /\ ledger' = IF q.key = NoKey THEN ledger
                   ELSE IF settled THEN Purged
                   ELSE [Purged EXCEPT ![x] =
                           [by |-> a, body |-> q.body, pending |-> TRUE,
                            expires |-> 0, value |-> 0]]

\* invoke() up to its await.
Invoke(q) ==
  LET a == Len(request) + 1
  IN  /\ a \in Attempts /\ Admissible(q)
      /\ q.parent # 0 => handler[q.parent] \in {"running", "iterating"}
      /\ request' = Append(request, q)
      /\ pending' = [pending EXCEPT ![<<q.session, q.id>>] = a]
      /\ admitted' = admitted \union {a}
      /\ Dispatch(a, q)
      /\ UNCHANGED <<clock, done, aborted, outside, ended>>

\* The handler of a settles and unary() records the outcome, whatever has
\* become of the call.
HandlerEnds(a, value) ==
  LET q == request[a]
      x == <<q.session, q.key>>
      recorded == q.key # NoKey /\ ledger[x] # NoRecord /\ ledger[x].by = a
  IN  /\ handler[a] = "running"
      /\ handler' = [handler EXCEPT ![a] = "ended"]
      /\ ended' = [ended EXCEPT ![a] = clock]
      /\ ledger' = IF ~recorded THEN ledger
                   ELSE [ledger EXCEPT ![x] =
                           [@ EXCEPT !.pending = FALSE, !.value = value,
                                     !.expires = clock + Retention]]
      /\ outcome' = [outcome EXCEPT ![a] = IF pc[a] = "racing" THEN value ELSE @]
      /\ pc' = [pc EXCEPT ![a] = IF @ = "racing" THEN "settled" ELSE @]
      /\ UNCHANGED <<clock, request, done, aborted, table, outside>>

\* Mutant: only the authority of the caller is checked again.
DeliverableStale(a) ==
  /\ outcome[a] > 0
  /\ request[a].session \notin closed /\ ~withdrawn
  /\ clock < request[a].deadline /\ request[a].session \notin denied

\* assertLive() after the await.
Deliverable(a) ==
  /\ outcome[a] > 0 /\ a \notin done
  /\ request[a].session \notin closed /\ ~withdrawn
  /\ clock < request[a].deadline /\ request[a].session \notin denied

\* invoke() after its await: commit() and the response.
Deliver(a) ==
  /\ pc[a] = "settled"
  /\ pc' = [pc EXCEPT ![a] = "over"]
  /\ outcome' = [outcome EXCEPT ![a] = IF Deliverable(a) THEN @ ELSE 0]
  /\ done' = done \union {a}
  /\ TableWithout({a})
  /\ UNCHANGED <<clock, request, aborted, handler, ledger, outside, ended>>

Tick ==
  /\ clock < MaxTime /\ clock' = clock + 1
  /\ UNCHANGED <<request, pc, done, aborted, outcome, handler, table,
                 ledger, outside, ended>>

Next ==
  \/ \E s \in Sessions, n \in Ids, i \in Inputs, d \in Deadlines,
        p \in Made \union {0} :
       Invoke([session |-> s, id |-> n, key |-> i[1], body |-> i[2],
               deadline |-> Deadline(d, p), parent |-> p])
  \/ \E a \in Attempts :
       \/ HandlerEnds(a, a) \/ HandlerEnds(a, 0) \/ Deliver(a)
       \/ CallerCancels(a) \/ DeadlineTimer(a)
  \/ \E s \in Sessions : CloseSession(s) \/ Deny(s)
  \/ Withdraw \/ Tick

Spec == Init /\ [][Next]_vars

-----------------------------------------------------------------------------

\* Types and limits are kept, and a call occupies a place in the tables of its session and of the host
\* exactly while it is outstanding, also when its request id is used again by
\* a later call before the first one returns (prepare, stop).
TablesAreExact ==
  /\ TypeOK
  /\ \A a \in Made :
       LET outstanding == a \notin done
           entry == pending[<<request[a].session, request[a].id>>] = a
       IN  entry = outstanding /\ (a \in admitted) = outstanding

\* No call outlives its parent: below a cancelled call nothing is outstanding
\* (prepare, cancel).
NoOrphans ==
  \A a \in Made :
    LET p == request[a].parent
    IN  p \in aborted => a \in done

\* What a call returns is its own: cancellation that comes first wins, so a call
\* that was cancelled, timed out or lost its provider never returns a value
\* (cancel, commit, assertLive), and a value replayed for an idempotency key
\* was computed for a call of the same caller, key and payload (unary).
AnswersAreOwn ==
  /\ \A a \in aborted : pc[a] = "over" => outcome[a] = 0
  /\ \A a \in Attempts : pc[a] = "over" /\ outcome[a] > 0 =>
       LET q == request[a] o == request[outcome[a]]
       IN  outcome[a] = a \/ (/\ q.key # NoKey /\ q.session = o.session
                               /\ q.key = o.key /\ q.body = o.body)

\* No second side effect: while the provider is in place a handler is started
\* for a key only when every earlier handler for this key and caller has ended
\* and its retention is over, also after cancelled and timed-out attempts
\* (unary).
NoSecondEffect ==
  [][\A b \in Attempts : handler[b] = "none" /\ handler'[b] = "running" =>
       \A a \in Made :
         /\ request[a].session = request'[b].session
         /\ request[a].key = request'[b].key /\ request[a].key # NoKey
         /\ handler[a] # "none"
         => handler[a] = "ended" /\ ended[a] + Retention <= clock]_vars

=============================================================================
