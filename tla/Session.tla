------------------------------- MODULE Session -------------------------------
(***************************************************************************)
(* A broker's physical sessions and their worker processes:                *)
(* packages/kernel/src/g6/session.ts (PhysicalSession) and                 *)
(* packages/kernel/src/g6/worker-transport.ts (WorkerTransport), composed  *)
(* with the schedulers of module Scheduler.                                *)
(*                                                                         *)
(* The broker and each worker are separate single-threaded processes.      *)
(* They share three channels: the carrier (packets with a descriptor), the *)
(* control stream and one stream per context.  A broker step is one        *)
(* callback, or one iteration of the loops in pump().  open() is a         *)
(* coroutine: opening[c] says where it is suspended.                       *)
(* #failed and #dead of a session are set together with #failed and        *)
(* #reaped of its scheduler, so failed and reaped stand for both.          *)
(***************************************************************************)
EXTENDS Scheduler, Sequences, SequencesExt

CONSTANTS
  LiveCap,    \* 4 in the code: PhysicalSession.#live
  WorkerCap,  \* 9 in the code: contexts of a WorkerTransport
  MayExpire,  \* bound: contexts whose deadline may pass
  MayRevoke   \* bound: contexts whose authority may be withdrawn

ASSUME SessionAssumption ==
  /\ LiveCap \in Nat /\ WorkerCap \in Nat
  /\ MayExpire \subseteq Contexts /\ MayRevoke \subseteq Contexts

\* The codes the transport itself finishes contexts with.
ASSUME TransportCodesAssumption ==
  Lapses \union {"complete", "UNAVAILABLE"} \subseteq FinishCodes

VARIABLES
  live,       \* PhysicalSession.#live
  active,     \* sessions whose #active is set
  pidfd,      \* sessions that own a pidfd of their child
  process,    \* "none", "up", "closed" (transport closed) or "down" (exited)
  opening,    \* where open() is for the context
  endpoint,   \* #endpoints: "none", "pending" or "ready"
  wire,       \* the number in the endpoint id 'c<n>', 0 before bindEndpoint
  carrier,    \* packets sent by the broker, not yet received
  acks,       \* context-ready frames on the control stream
  unread,     \* contexts whose stream holds a frame for the broker
  held,       \* WorkerTransport.contexts
  watermark,  \* WorkerTransport.#lastContext
  midturn,    \* sessions a running catch block is about to fail
  faulty      \* ghost: sessions that were shut down or broke by themselves

supervisor == <<live, pidfd, process>>
worker == <<held, watermark>>
sessionVars ==
  <<supervisor, active, opening, endpoint, wire, carrier, acks, unread,
    worker, midturn, faulty>>
allVars == <<vars, sessionVars>>

OpenStates ==
  {"none", "queued", "granted", "waiting", "answered", "opened", "rejected",
   "over"}

SessionTypeOK ==
  /\ live \subseteq Sessions /\ active \subseteq Sessions
  /\ pidfd \subseteq Sessions /\ midturn \subseteq Sessions
  /\ faulty \subseteq Sessions
  /\ process \in [Sessions -> {"none", "up", "closed", "down"}]
  /\ opening \in [Contexts -> OpenStates]
  /\ endpoint \in [Contexts -> {"none", "pending", "ready"}]
  /\ wire \in [Contexts -> 0 .. MaxContexts]
  /\ carrier \in [Sessions -> Seq(Contexts)]
  /\ acks \in [Sessions -> Seq(Contexts)]
  /\ unread \subseteq Contexts
  /\ held \in [Sessions -> SUBSET Contexts]
  /\ watermark \in [Sessions -> 0 .. MaxContexts]

SessionInit ==
  /\ Init
  /\ live = {} /\ active = {} /\ pidfd = {} /\ midturn = {} /\ faulty = {}
  /\ process = [s \in Sessions |-> "none"]
  /\ opening = [c \in Contexts |-> "none"]
  /\ endpoint = [c \in Contexts |-> "none"]
  /\ wire = [c \in Contexts |-> 0]
  /\ carrier = [s \in Sessions |-> <<>>]
  /\ acks = [s \in Sessions |-> <<>>]
  /\ unread = {}
  /\ held = [s \in Sessions |-> {}]
  /\ watermark = [s \in Sessions |-> 0]

-----------------------------------------------------------------------------
(* What every scheduler step triggers in the sessions.                     *)

\* The promises and abort listeners that a scheduler step fires: admit()
\* resolves or rejects, a terminal context rejects its open() and loses its
\* endpoint, and a failed session is no longer active.  The promise of an
\* acknowledged offer is resolved: rejecting it changes nothing.
OpeningAfter(c) ==
  CASE opening[c] = "queued" /\ slot'[c] # "none" -> "granted"
    [] opening[c] = "queued" /\ terminal'[c] # "none" -> "over"
    [] opening[c] = "waiting" /\ terminal'[c] # "none" -> "rejected"
    [] OTHER -> opening[c]

\* Mutant: the abort listener leaves the endpoint in the map.
EndpointAfterKept(c) ==
  IF owner[c] \in failed' THEN "none" ELSE endpoint[c]

EndpointAfter(c) == IF terminal'[c] # "none" THEN "none" ELSE endpoint[c]

Notify ==
  /\ opening' = [c \in Contexts |-> OpeningAfter(c)]
  /\ endpoint' = [c \in Contexts |-> EndpointAfter(c)]
  /\ unread' = {c \in unread : terminal'[c] = "none"}
  /\ active' = active \ failed'

\* Mutant: fail() forgets the calls that wait for a slot.
FailSessionStarted(s) ==
  /\ s \notin failed
  /\ failed' = failed \union {s}
  /\ Settle([d \in {e \in Unfinished(Owned(Created, s)) : slot[e] # "none"}
               |-> "UNAVAILABLE"], {}, failed \union {s})
  /\ Notify
  /\ UNCHANGED <<identity, offer, reaped>>

\* PhysicalSession.fail on a session that is not failed yet.
FailSession(s) == Fail(s) /\ Notify

-----------------------------------------------------------------------------
(* The supervisor: construction, handshake, failure and reap.              *)

RoomForSession == Cardinality(live) < LiveCap

\* The constructor: launch() spawns the child and opens its pidfd.
Launch(s) ==
  /\ process[s] = "none" /\ s \notin failed
  /\ RoomForSession
  /\ live' = live \union {s} /\ pidfd' = pidfd \union {s}
  /\ process' = [process EXCEPT ![s] = "up"]
  /\ UNCHANGED <<vars, active, opening, endpoint, wire, carrier, acks, unread,
                 worker, midturn, faulty>>

\* Mutant: a launch that threw is not counted.
LaunchUncounted(s) ==
  /\ process[s] = "none" /\ s \notin failed
  /\ RoomForSession
  /\ FailSession(s)
  /\ process' = [process EXCEPT ![s] = "up"]
  /\ faulty' = faulty \union {s}
  /\ UNCHANGED <<live, pidfd, wire, carrier, acks, worker, midturn>>

\* launch() throws after the spawn (no pidfd): quarantined until the child
\* exits by itself, and never signalled.
LaunchUnowned(s) ==
  /\ process[s] = "none" /\ s \notin failed
  /\ RoomForSession
  /\ FailSession(s)
  /\ live' = live \union {s}
  /\ process' = [process EXCEPT ![s] = "up"]
  /\ faulty' = faulty \union {s}
  /\ UNCHANGED <<pidfd, wire, carrier, acks, worker, midturn>>

\* launch() throws without a child: the session is dead at once.
LaunchFails(s) ==
  /\ process[s] = "none" /\ s \notin failed
  /\ RoomForSession
  /\ Reaped(s) /\ Notify
  /\ faulty' = faulty \union {s}
  /\ UNCHANGED <<supervisor, wire, carrier, acks, worker, midturn>>

\* The hello frame matches: accepted is sent and ready resolves.
Handshake(s) ==
  /\ process[s] = "up" /\ s \notin failed \union active
  /\ active' = active \union {s}
  /\ UNCHANGED <<vars, supervisor, opening, endpoint, wire, carrier, acks,
                 unread, worker, midturn, faulty>>

\* Everything else that makes pump() throw (handshake deadline, control EOF
\* or garbage, missed heartbeats, fresh(), a dispatcher) and shutdown().
Fault(s) ==
  /\ process[s] # "none"
  /\ FailSession(s)
  /\ faulty' = faulty \union {s}
  /\ UNCHANGED <<supervisor, wire, carrier, acks, worker, midturn>>

\* The control stream is at its end because the worker closed it.
ControlEOF(s) ==
  /\ process[s] \in {"closed", "down"} /\ acks[s] = <<>>
  /\ FailSession(s)
  /\ UNCHANGED <<supervisor, wire, carrier, acks, worker, midturn,
                 faulty>>

\* Mutant: KILL never follows TERM, which a busy worker ignores.
KillCooperative(s) ==
  /\ s \in failed \ reaped /\ s \in pidfd
  /\ process[s] = "closed"
  /\ process' = [process EXCEPT ![s] = "down"]
  /\ UNCHANGED <<vars, live, pidfd, active, opening, endpoint, wire, carrier,
                 acks, unread, worker, midturn, faulty>>

\* TERM and, 500 ms later, KILL through the pidfd.
Kill(s) ==
  /\ s \in failed \ reaped /\ s \in pidfd
  /\ process[s] \in {"up", "closed"}
  /\ process' = [process EXCEPT ![s] = "down"]
  /\ UNCHANGED <<vars, live, pidfd, active, opening, endpoint, wire, carrier,
                 acks, unread, worker, midturn, faulty>>

\* The exit callback: dead().
Dead(s) ==
  /\ process[s] = "down" /\ s \notin reaped
  /\ Reaped(s) /\ Notify
  /\ live' = live \ {s} /\ pidfd' = pidfd \ {s}
  /\ carrier' = [carrier EXCEPT ![s] = <<>>]
  /\ acks' = [acks EXCEPT ![s] = <<>>]
  /\ held' = [held EXCEPT ![s] = {}]
  /\ UNCHANGED <<process, wire, watermark, midturn, faulty>>

-----------------------------------------------------------------------------
(* PhysicalSession.open, from its call to its end.                         *)

\* The call, up to the await of admit().  A parent is a context that an
\* earlier open() returned.
Open(s, lifecycle, par) ==
  /\ s \in active \ failed
  /\ par # NoContext => opening[par] = "opened"
  /\ Admit(s, lifecycle, par)
  /\ opening' = [opening EXCEPT ![counter + 1] =
                   IF slot'[counter + 1] = "none" THEN "queued" ELSE "granted"]
  /\ UNCHANGED <<supervisor, active, endpoint, wire, carrier, acks, unread,
                 worker, midturn, faulty>>

\* 'c' + ++#offerCounter
NextWire(s) == 1 + Cardinality({c \in Contexts : owner[c] = s /\ wire[c] # 0})

\* Mutant: the endpoint id is the admission number of the session.
BoundAtAdmission(c) ==
  wire' = [wire EXCEPT ![c] = Cardinality({d \in 1 .. c : owner[d] = owner[c]})]

\* WorkContext.bindEndpoint: ids follow the order of the carrier.
Bound(c) == wire' = [wire EXCEPT ![c] = NextWire(owner[c])]

\* admit() has resolved and the context is live: its descriptor is sent.
SendOffer(c) ==
  /\ opening[c] = "granted"
  /\ Offer(c) /\ Bound(c)
  /\ opening' = [opening EXCEPT ![c] = "waiting"]
  /\ endpoint' = [endpoint EXCEPT ![c] = "pending"]
  /\ carrier' = [carrier EXCEPT ![owner[c]] = Append(@, c)]
  /\ UNCHANGED <<supervisor, active, acks, unread, worker, midturn, faulty>>

\* The packet cannot be sent: finish, then fail() in the same turn.
SendFails(c) ==
  /\ opening[c] = "granted"
  /\ Offer(c) /\ Bound(c)
  /\ opening' = [opening EXCEPT ![c] = "over"]
  /\ endpoint' = [endpoint EXCEPT ![c] = "pending"]
  /\ midturn' = {owner[c]} /\ faulty' = faulty \union {owner[c]}
  /\ UNCHANGED <<supervisor, active, carrier, acks, unread, worker>>

\* The context lapsed between admit() and offer(): assertLive throws and the
\* catch block finishes it as UNAVAILABLE, then fails the session.
OpenLapsed(c) ==
  /\ opening[c] = "granted" /\ terminal[c] = "none" /\ ~Live(c)
  /\ FinishContext(c, "UNAVAILABLE")
  /\ opening' = [d \in Contexts |-> IF d = c THEN "over" ELSE OpeningAfter(d)]
  /\ endpoint' = [d \in Contexts |-> EndpointAfter(d)]
  /\ unread' = {d \in unread : terminal'[d] = "none"}
  /\ midturn' = {owner[c]}
  /\ UNCHANGED <<supervisor, active, wire, carrier, acks, worker, faulty>>

\* The catch block of open() for a context that is already terminal, because
\* assertLive threw or the abort listener rejected.
OpenThrows(c) ==
  /\ \/ opening[c] = "rejected"
     \/ opening[c] = "granted" /\ terminal[c] # "none"
  /\ opening' = [opening EXCEPT ![c] = "over"]
  /\ midturn' = IF terminal[c] = "UNAVAILABLE" THEN {owner[c]} \ failed ELSE {}
  /\ UNCHANGED <<vars, supervisor, active, endpoint, wire, carrier, acks,
                 unread, worker, faulty>>

\* The await of ready resumes: open() returns the context and its stream,
\* whatever became of them since the acknowledgement.
OpenReturns(c) ==
  /\ opening[c] = "answered"
  /\ opening' = [opening EXCEPT ![c] = "opened"]
  /\ UNCHANGED <<vars, supervisor, active, endpoint, wire, carrier, acks,
                 unread, worker, midturn, faulty>>

\* The rest of the catch block: this.fail().
FailMidturn(s) ==
  /\ s \in midturn
  /\ FailSession(s)
  /\ midturn' = {}
  /\ UNCHANGED <<supervisor, wire, carrier, acks, worker, faulty>>

-----------------------------------------------------------------------------
(* The broker's pump and timers.                                           *)

\* controlFrame with the context-ready of an offer: endpoint.resolve for a live
\* context, the endpoint of a retired one is removed.
PumpReady(s) ==
  LET c == Head(acks[s])
  IN  /\ s \in active /\ acks[s] # <<>>
      /\ Acknowledge(c)
      /\ opening' = [d \in Contexts |->
                       IF d = c /\ Live(c) THEN "answered" ELSE OpeningAfter(d)]
      /\ endpoint' = [d \in Contexts |->
                        IF d = c /\ Live(c) THEN "ready" ELSE EndpointAfter(d)]
      /\ unread' = {d \in unread : terminal'[d] = "none"}
      /\ acks' = [acks EXCEPT ![s] = Tail(@)]
      /\ UNCHANGED <<supervisor, active, wire, carrier, worker, midturn, faulty>>

\* A frame on the stream of a context that is no longer live ends this
\* context and its descendants.
PumpStaleFrame(c) ==
  /\ c \in unread /\ owner[c] \in active /\ ~Live(c)
  /\ FinishContext(c, LapseCode(c)) /\ Notify
  /\ UNCHANGED <<supervisor, wire, carrier, acks, worker, midturn, faulty>>

\* A frame of a live context goes to the dispatcher, external here: it may
\* be the reply that completes the context.
PumpFrame(c, reply) ==
  /\ c \in unread /\ owner[c] \in active /\ Live(c)
  /\ IF reply
     THEN Finish(c, "complete") /\ Notify
     ELSE /\ unread' = unread \ {c}
          /\ UNCHANGED <<vars, opening, endpoint, active>>
  /\ UNCHANGED <<supervisor, wire, carrier, acks, worker, midturn, faulty>>

\* The worker received the endpoint and closed it.
HungUp(c) ==
  /\ wire[c] # 0 /\ wire[c] <= watermark[owner[c]]
  /\ c \notin held[owner[c]]

\* The stream of an endpoint is at its end: receive() throws out of pump().
PumpEOF(c) ==
  /\ endpoint[c] # "none" /\ owner[c] \in active
  /\ c \notin unread /\ HungUp(c)
  /\ FailSession(owner[c])
  /\ UNCHANGED <<supervisor, wire, carrier, acks, worker, midturn, faulty>>

\* Mutant: the timer is that of the queue, cleared when a context starts.
DeadlineFiresQueued(c) ==
  /\ opening[c] = "queued" /\ DeadlineTimer(c) /\ Notify
  /\ UNCHANGED <<supervisor, wire, carrier, acks, worker, midturn, faulty>>

\* The deadline timer of the context's record.
DeadlineFires(c) ==
  /\ DeadlineTimer(c) /\ Notify
  /\ UNCHANGED <<supervisor, wire, carrier, acks, worker, midturn, faulty>>

\* The abort signal of the consumer, who need not give one.
Cancelled(c) ==
  /\ opening[c] # "none" /\ Abort(c) /\ Notify
  /\ UNCHANGED <<supervisor, wire, carrier, acks, worker, midturn, faulty>>

\* The 1 s timer of an unacknowledged offer.
OfferExpires(c) ==
  /\ OfferTimeout(c) /\ Notify
  /\ faulty' = faulty \union {owner[c]}
  /\ UNCHANGED <<supervisor, wire, carrier, acks, worker, midturn>>

-----------------------------------------------------------------------------
(* The worker process.  What it does after its session failed reaches      *)
(* nobody, except its exit.                                                *)

\* The checks on a received offer.
Acceptable(s, c) ==
  wire[c] > watermark[s] /\ Cardinality(held[s]) < WorkerCap

\* Contexts the scan at the end of pump() closes: the broker hung up, or the
\* worker's copy of the deadline has passed.
Scanned(s, H) == {d \in H : endpoint[d] = "none"}
Overdue(s, H) == {d \in H : lapsed[d] = "DEADLINE_EXCEEDED"}

\* WorkerTransport.pump: at most one offer, then the scan.
WorkerPump(s) ==
  /\ process[s] = "up" /\ s \in active
  /\ LET take == carrier[s] # <<>> /\ Acceptable(s, Head(carrier[s]))
         H == IF take THEN held[s] \union {Head(carrier[s])} ELSE held[s]
     IN  /\ carrier[s] # <<>> => take
         /\ \E late \in SUBSET Overdue(s, H) :
              held' = [held EXCEPT ![s] = H \ (Scanned(s, H) \union late)]
         /\ IF take
            THEN /\ carrier' = [carrier EXCEPT ![s] = Tail(@)]
                 /\ watermark' = [watermark EXCEPT ![s] = wire[Head(carrier[s])]]
                 /\ acks' = [acks EXCEPT ![s] = Append(@, Head(carrier[s]))]
            ELSE UNCHANGED <<carrier, watermark, acks>>
  /\ UNCHANGED <<vars, supervisor, active, opening, endpoint, wire, unread,
                 midturn, faulty>>

\* pump() throws on an offer it does not accept: fail() closes the transport.
WorkerRefuses(s) ==
  /\ process[s] = "up" /\ s \in active
  /\ carrier[s] # <<>> /\ ~Acceptable(s, Head(carrier[s]))
  /\ process' = [process EXCEPT ![s] = "closed"]
  /\ held' = [held EXCEPT ![s] = {}]
  /\ UNCHANGED <<vars, live, pidfd, active, opening, endpoint, wire, carrier,
                 acks, unread, watermark, midturn, faulty>>

\* The provider answers on a context the broker has dispatched.
WorkerSends(c) ==
  /\ opening[c] = "opened" /\ endpoint[c] = "ready"
  /\ process[owner[c]] = "up" /\ c \in held[owner[c]]
  /\ unread' = unread \union {c}
  /\ UNCHANGED <<vars, supervisor, active, opening, endpoint, wire, carrier,
                 acks, worker, midturn, faulty>>

\* The process exits by itself.
WorkerExits(s) ==
  /\ process[s] \in {"up", "closed"}
  /\ process' = [process EXCEPT ![s] = "down"]
  /\ held' = [held EXCEPT ![s] = {}]
  /\ faulty' = faulty \union {s}
  /\ UNCHANGED <<vars, live, pidfd, active, opening, endpoint, wire, carrier,
                 acks, unread, watermark, midturn>>

\* The deadline of a context passes.  Every context has one, 30 s away at most.
DeadlinePasses(c) ==
  /\ c \in MayExpire /\ opening[c] # "none"
  /\ Expire(c)
  /\ UNCHANGED sessionVars

\* The authority behind authorize() is withdrawn.
AuthorityLost(c) ==
  /\ c \in MayRevoke /\ opening[c] # "none"
  /\ Revoke(c)
  /\ UNCHANGED sessionVars

-----------------------------------------------------------------------------

OpenResumes(c) ==
  \/ SendOffer(c) \/ SendFails(c) \/ OpenLapsed(c) \/ OpenThrows(c)
  \/ OpenReturns(c)

BrokerStep ==
  \/ \E s \in Sessions :
       \/ Launch(s) \/ LaunchUnowned(s) \/ LaunchFails(s) \/ Handshake(s)
       \/ Fault(s) \/ ControlEOF(s) \/ Dead(s) \/ PumpReady(s)
       \/ \E lifecycle \in BOOLEAN, par \in Contexts \union {NoContext} :
            Open(s, lifecycle, par)
  \/ \E c \in Contexts :
       \/ OpenResumes(c) \/ PumpStaleFrame(c) \/ PumpEOF(c)
       \/ \E reply \in BOOLEAN : PumpFrame(c, reply)
       \/ DeadlineFires(c) \/ Cancelled(c) \/ OfferExpires(c)

WorkerStep ==
  \/ \E s \in Sessions :
       WorkerPump(s) \/ WorkerRefuses(s) \/ WorkerExits(s) \/ Kill(s)
  \/ \E c \in Contexts : WorkerSends(c) \/ DeadlinePasses(c) \/ AuthorityLost(c)

SessionNext ==
  \/ midturn = {} /\ BrokerStep
  \/ \E s \in Sessions : FailMidturn(s)
  \/ WorkerStep

SessionSpec == SessionInit /\ [][SessionNext]_allVars

\* Continuations run, time passes, timers fire, signals reach a child whose
\* pidfd is owned and its exit is observed.  Nothing is assumed of the worker
\* and of the consumer: it need not abort, and no authority need be lost.
SessionFairness ==
  /\ \A c \in Contexts :
       /\ WF_allVars(midturn = {} /\ OpenResumes(c))
       /\ WF_allVars(DeadlinePasses(c))
       /\ WF_allVars(midturn = {} /\ DeadlineFires(c))
       /\ WF_allVars(midturn = {} /\ OfferExpires(c))
  /\ \A s \in Sessions :
       /\ WF_allVars(FailMidturn(s)) /\ WF_allVars(Kill(s))
       /\ WF_allVars(midturn = {} /\ Dead(s))

FairSessionSpec == SessionSpec /\ SessionFairness

-----------------------------------------------------------------------------
(* Safety.                                                                 *)

Packets(s) == Range(carrier[s]) \union Range(acks[s])

\* A descriptor that is still in the carrier, or whose acknowledgement is
\* still in the control stream, keeps its record, slot and nonce, even when
\* the call was cancelled long ago: acknowledge() finds every ready frame of
\* an honest worker (scheduler.ts terminal(), session.ts controlFrame()).
InFlightIsCharged ==
  \A s \in Sessions : \A c \in Packets(s) :
    owner[c] = s /\ c \in records /\ offer[c] = "sent" /\ slot[c] # "none"

\* The ids in the carrier rise, above the worker's watermark, although
\* contexts are not offered in the order of their admission: an honest
\* broker never trips "id > lastContext" (bindEndpoint, worker pump()).
CarrierIsMonotone ==
  \A s \in Sessions :
    /\ \A i \in DOMAIN carrier[s] : wire[carrier[s][i]] > watermark[s]
    /\ \A i, j \in DOMAIN carrier[s] :
         i < j => wire[carrier[s][i]] < wire[carrier[s][j]]

\* And nothing else is charged for a call that is over: on a healthy session
\* its record and slot are kept only while its packet is in flight, however
\* its end, the acknowledgement and the return of open() raced; "A late valid
\* acknowledgement retires the expired offer" (acknowledge(), terminal()).
OnlyPacketsAreCharged ==
  \A c \in records :
    terminal[c] # "none" /\ owner[c] \notin failed \union midturn
      => c \in Packets(owner[c])

\* The variables have their types; #endpoints holds exactly the offered
\* contexts that are not terminal, and the ready ones are those whose open()
\* was answered or has returned (open(), abort listener, fail()).
EndpointsAreOpen ==
  /\ SessionTypeOK
  /\ \A c \in Created :
     /\ endpoint[c] # "none" <=> wire[c] # 0 /\ terminal[c] = "none"
     /\ endpoint[c] = "ready" =>
          offer[c] = "ready" /\ c \notin Packets(owner[c])
     /\ terminal[c] = "none" =>
          (endpoint[c] = "ready" <=> opening[c] \in {"answered", "opened"})

\* A child that was spawned and is not known to be dead counts against the
\* limit of processes, also when its launch threw or its session was reaped
\* of everything else (#live; the constructor, dead()).
ChildrenAreCounted ==
  /\ Cardinality(live) <= LiveCap
  /\ \A s \in Sessions : process[s] # "none" /\ s \notin reaped => s \in live

\* Every step of the sessions is a step of the schedulers or leaves them alone.
ImplementsScheduler == Spec

\* "Failure from one instance must never ... cancel its unrelated context", and
\* the expiry of a context "invalidates this context and descendants, not
\* unrelated sibling work": a context ends as UNAVAILABLE only when a session
\* of its own line was shut down or broke by itself.
UnrelatedContextsSurvive ==
  [][\A c \in Contexts :
       Live(c) /\ terminal'[c] = "UNAVAILABLE"
         => \E a \in line[c] \union {c} : owner[a] \in faulty']_allVars

-----------------------------------------------------------------------------
(* Liveness.                                                               *)

\* Every call of open() settles and its record, with slot and frame, is given
\* back in the end, also when the worker never acknowledges, reads or exits
\* (open(), the offer timer, fail(), reaped()).
EveryOpenSettles ==
  \A c \in Contexts :
    (opening[c] # "none")
      ~> (opening[c] \in {"opened", "over"} /\ c \notin records)

\* A failed session with a pidfd is reaped and leaves #live.
FailedSessionsAreReaped ==
  \A s \in Sessions : (s \in failed /\ s \in pidfd) ~> (s \notin live)

=============================================================================
