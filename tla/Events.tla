------------------------------- MODULE Events -------------------------------
(***************************************************************************)
(* Event delivery in the host (packages/kernel/src/index.ts): subscribe(), *)
(* emit() and the pump of a subscription, over the grants of Grants.       *)
(*                                                                         *)
(* emit() is one step: it queues the event for every subscription that     *)
(* sees it and wakes the pumps that are idle.  A pump runs from one await  *)
(* to the next in one step: it takes the first event that passes its       *)
(* checks, checks again in the microtask that calls the handler, and waits *)
(* for the handler, the disposal of the subscription or maxCallMs.  A      *)
(* handler that was given up goes on running.                              *)
(***************************************************************************)
EXTENDS Grants

CONSTANTS
  Subs,        \* subscriptions, each made at most once
  Context,     \* per subscription: its instance and scope
  EventQueue,  \* config.eventQueue
  MaxEvents    \* bound: events emitted

ASSUME EventsAssumption ==
  /\ IsFiniteSet(Subs) /\ Context \in [Subs -> Contexts]
  /\ EventQueue \in Nat \ {0} /\ MaxEvents \in Nat

VARIABLES
  subs,      \* the subscriptions
  events,    \* the events emitted: source, its scope and generation, grant,
             \* and the source's sequence number
  sequence,  \* per instance: Instance.sequence
  overdue    \* instances whose report has restartRequired

eventVars == <<subs, events, sequence, overdue>>
allVars == <<grantVars, eventVars>>

\* generation, grant: bound by subscribe(); pump: "idle" when working is
\* false; current: the event the pump has taken; running: the handlers that
\* have not settled; admitted, settled: ghosts, the events queued so far and
\* those handled or refused.
Subscriptions ==
  [made : BOOLEAN, live : BOOLEAN, generation : Nat, grant : Nat,
   queue : Seq(1 .. MaxEvents),
   pump : {"idle", "turning", "starting", "handling"},
   current : Seq(1 .. MaxEvents), running : SUBSET (1 .. MaxEvents),
   admitted : Seq(1 .. MaxEvents), settled : Seq(1 .. MaxEvents)]

EventsTypeOK ==
  /\ GrantsTypeOK /\ subs \in [Subs -> Subscriptions]
  /\ Len(events) <= MaxEvents /\ sequence \in [Instances -> 0 .. MaxEvents]
  /\ \A b \in Subs : Len(subs[b].queue) <= EventQueue

EventsInit ==
  /\ GrantsInit
  /\ subs = [b \in Subs |->
       [made |-> FALSE, live |-> FALSE, generation |-> 0, grant |-> 0,
        queue |-> <<>>, pump |-> "idle", current |-> <<>>, running |-> {},
        admitted |-> <<>>, settled |-> <<>>]]
  /\ events = <<>> /\ sequence = [i \in Instances |-> 0] /\ overdue = {}

-----------------------------------------------------------------------------
(* subscribe() and emit().                                                 *)

Subscriber(b) == Context[b][1]
ScopeOf(b) == Context[b][2]

Subscribe(b) ==
  LET may == Allowing(Subscriber(b), ScopeOf(b), "subscribe")
  IN  /\ ~subs[b].made /\ Subscriber(b) \in active /\ ScopeOf(b) \in open
      /\ may # {} /\ Look
      /\ subs' = [subs EXCEPT ![b].made = TRUE, ![b].live = TRUE,
                              ![b].generation = generation[ScopeOf(b)],
                              ![b].grant = Min(may)]
      /\ UNCHANGED <<clock, active, generation, open, grants, auditVars, reads,
                     events, sequence, overdue>>

\* The disposer of subscribe(), called by the plugin or by the disposal of
\* the instance or of the scope.  sub.cancel settles the race of the pump.
Unsubscribe(b) ==
  /\ subs[b].live
  /\ subs' = [subs EXCEPT ![b].live = FALSE, ![b].queue = <<>>,
       ![b].pump = IF @ = "handling" THEN "turning" ELSE @]
  /\ UNCHANGED <<grantVars, events, sequence, overdue>>

\* visible(): the scope of the source is that of the subscription or above.
Visible(s, b) ==
  IF s = ScopeOf(b) THEN generation[s] = subs[b].generation
  ELSE s \in Above(ScopeOf(b))

\* The subscriptions an event from scope s reaches, and those among them whose
\* queue is full.
Reached(s) ==
  {b \in Subs : subs[b].live /\ Subscriber(b) \in active /\ Visible(s, b)}
Full(b) == Len(subs[b].queue) >= EventQueue

\* The subscription after event e: overflow ends it.
Offered(b, e) ==
  IF Full(b)
  THEN [subs[b] EXCEPT !.live = FALSE, !.queue = <<>>,
                       !.pump = IF @ = "handling" THEN "turning" ELSE @]
  ELSE [subs[b] EXCEPT
          !.queue = Append(@, e), !.admitted = Append(@, e),
          !.pump = IF @ = "idle" THEN "turning" ELSE @]

Emit(i, s) ==
  LET e == Len(events) + 1
      may == Allowing(i, s, "publish")
  IN  /\ e <= MaxEvents /\ i \in active /\ s \in open /\ may # {}
      /\ Look
      /\ sequence' = [sequence EXCEPT ![i] = @ + 1]
      /\ events' = Append(events, [source |-> i, scope |-> s,
                                   generation |-> generation[s],
                                   grant |-> Min(may),
                                   number |-> sequence[i] + 1])
      /\ subs' = [b \in Subs |-> IF b \in Reached(s) THEN Offered(b, e)
                                 ELSE subs[b]]
      /\ Note(Cardinality({b \in Reached(s) : Full(b)}))
      /\ UNCHANGED <<clock, active, generation, open, grants, reads, overdue>>

-----------------------------------------------------------------------------
(* pump().                                                                 *)

\* The subscriber passes what live() asks before fresh(); so does the source of
\* event e.  Its scope is looked up by name: it is the matching of the grant
\* that notices a later one.
SubscriberLives(b) == Lives(Subscriber(b), ScopeOf(b), subs[b].generation)
SourceLives(e) == LET x == events[e]
                  IN  Lives(x.source, x.scope, generation[x.scope])

\* live() and authorize() of both sides.
Deliverable(b, e) ==
  LET x == events[e]
  IN  /\ SubscriberLives(b) /\ SourceLives(e) /\ Fresh
      /\ Authorized(Subscriber(b), ScopeOf(b), subs[b].generation,
                    "subscribe", subs[b].grant)
      /\ Authorized(x.source, x.scope, generation[x.scope], "publish", x.grant)

\* A refused delivery leaves a record of pump()'s, and one of authorize() when
\* live() had nothing to object to.
Refusals(b, e) ==
  IF SubscriberLives(b) /\ SourceLives(e) /\ Fresh THEN 2 ELSE 1

\* Mutant: the pump handles one event where it should loop.
TurnOnce(b) ==
  LET s == subs[b]
      good == s.queue # <<>> /\ Deliverable(b, Head(s.queue))
  IN  IF s.current # <<>> \/ ~s.live \/ s.queue = <<>>
      THEN [s EXCEPT !.pump = "idle", !.current = <<>>,
                     !.settled = @ \o s.current]
      ELSE [s EXCEPT !.pump = IF good THEN "starting" ELSE "idle",
                     !.current = IF good THEN <<Head(s.queue)>> ELSE <<>>,
                     !.queue = Tail(@),
                     !.settled = IF good THEN @ ELSE Append(@, Head(s.queue))]

\* The loop of pump() up to its next await: events that fail the checks are
\* refused, the first that passes is taken.
Turn(b) ==
  LET s == subs[b]
      good == {k \in DOMAIN s.queue : Deliverable(b, s.queue[k])}
      k == Min(good)
  IN  IF ~s.live \/ good = {}
      THEN [s EXCEPT !.pump = "idle", !.queue = <<>>, !.current = <<>>,
                     !.settled = @ \o s.current \o s.queue]
      ELSE [s EXCEPT !.pump = "starting", !.current = <<s.queue[k]>>,
                     !.queue = SubSeq(@, k + 1, Len(@)),
                     !.settled = @ \o s.current \o SubSeq(s.queue, 1, k - 1)]

\* The queued events that this turn of the pump refuses.
Refused(b) ==
  IF ~subs[b].live THEN {}
  ELSE {k \in DOMAIN subs[b].queue :
          \A j \in 1 .. k : ~Deliverable(b, subs[b].queue[j])}

PumpTurns(b) ==
  /\ subs[b].pump = "turning"
  /\ subs' = [subs EXCEPT ![b] = Turn(b)]
  /\ Looks(subs[b].live /\ subs[b].queue # <<>> /\ SubscriberLives(b),
           Cardinality(Refused(b))
             + Cardinality({k \in Refused(b) : Refusals(b, subs[b].queue[k]) = 2}))
  /\ UNCHANGED <<clock, generation, open, reads, events, sequence, overdue>>

\* Mutant: the microtask calls the handler without another look.
StartsUnchecked(b) == subs[b].live

\* The checks of the microtask that calls the handler.
Starts(b) == subs[b].live /\ Deliverable(b, subs[b].current[1])

\* Mutant: the pump does not wait for the handler.
HandlerStartsUnawaited(b) ==
  /\ subs[b].pump = "starting"
  /\ subs' = [subs EXCEPT ![b].pump = "turning",
       ![b].running = IF Starts(b) THEN @ \union {subs[b].current[1]} ELSE @]
  /\ UNCHANGED <<grantVars, events, sequence, overdue>>

HandlerStarts(b) ==
  /\ subs[b].pump = "starting"
  /\ subs' = [subs EXCEPT
       ![b].pump = IF Starts(b) THEN "handling" ELSE "turning",
       ![b].running = IF Starts(b) THEN @ \union {subs[b].current[1]} ELSE @]
  /\ Looks(subs[b].live /\ SubscriberLives(b),
           IF Starts(b) \/ ~subs[b].live THEN 0
           ELSE Refusals(b, subs[b].current[1]))
  /\ UNCHANGED <<clock, generation, open, reads, events, sequence, overdue>>

\* A handler settles; the pump goes on if it still waits for this one, and
\* takes an error of the code DEADLINE_EXCEEDED for its own.
HandlerEnds(b, e, outcome) ==
  LET waited == subs[b].pump = "handling" /\ subs[b].current = <<e>>
      failed == waited /\ outcome # "OK"
  IN  /\ e \in subs[b].running
      /\ subs' = [subs EXCEPT ![b].running = @ \ {e},
                              ![b].pump = IF waited THEN "turning" ELSE @]
      /\ overdue' = IF failed /\ outcome = "DEADLINE_EXCEEDED"
                    THEN overdue \union {Subscriber(b)} ELSE overdue
      /\ Note(IF failed THEN 1 ELSE 0)
      /\ UNCHANGED <<authority, reads, events, sequence>>

\* Mutant: the pump keeps waiting for a handler that is overdue.
HandlerTimesOutSilently(b) ==
  /\ subs[b].pump = "handling" /\ Subscriber(b) \notin overdue
  /\ overdue' = overdue \union {Subscriber(b)} /\ Note(1)
  /\ UNCHANGED <<authority, reads, events, sequence, subs>>

\* maxCallMs have passed.
HandlerTimesOut(b) ==
  /\ subs[b].pump = "handling"
  /\ subs' = [subs EXCEPT ![b].pump = "turning"]
  /\ overdue' = overdue \union {Subscriber(b)} /\ Note(1)
  /\ UNCHANGED <<authority, reads, events, sequence>>

EventsNext ==
  \/ GrantsNext /\ UNCHANGED eventVars
  \/ \E c \in Contexts : Emit(c[1], c[2])
  \/ \E b \in Subs :
       \/ Subscribe(b) \/ Unsubscribe(b) \/ PumpTurns(b)
       \/ HandlerStarts(b) \/ HandlerTimesOut(b)
       \/ \E e \in 1 .. MaxEvents :
            \E outcome \in {"OK", "INTERNAL", "DEADLINE_EXCEEDED"} :
              HandlerEnds(b, e, outcome)

EventsSpec == EventsInit /\ [][EventsNext]_allVars

\* Microtasks run and timers fire; of handlers nothing is assumed.
EventsFairness ==
  \A b \in Subs : /\ WF_allVars(PumpTurns(b)) /\ WF_allVars(HandlerStarts(b))
                  /\ WF_allVars(HandlerTimesOut(b))

FairEventsSpec == EventsSpec /\ EventsFairness

-----------------------------------------------------------------------------

\* The types are kept, and a live subscription loses nothing silently and
\* misses no wake-up: what emit() queued for it was handled or refused for
\* lack of authority, is in the pump or is still queued, in the order of
\* emission, and whenever something is queued the pump is at work (emit,
\* pump).
NothingIsLost ==
  /\ EventsTypeOK
  /\ \A b \in Subs : subs[b].live =>
       /\ subs[b].admitted = subs[b].settled \o subs[b].current \o subs[b].queue
       /\ subs[b].queue # <<>> => subs[b].pump # "idle"

\* Authority is looked at when it is used: a handler starts only while the
\* grants of both sides are unbroken to the root and both instances ACTIVE,
\* and a secret is handed out only under the grant it was asked under, to an
\* instance still ACTIVE, also when authority was lost between emit(), the
\* checks of the pump and the microtask, or across the await (pump, secret).
UsesAreAuthorized ==
  [][/\ \A b \in Subs : \A e \in subs'[b].running \ subs[b].running :
          /\ subs[b].live
          /\ Unbroken(subs[b].grant) /\ Unbroken(events[e].grant)
          /\ {Subscriber(b), events[e].source} \subseteq active
     /\ \A n \in DOMAIN reads :
          reads[n].at = "asked" /\ reads'[n].at = "given"
            => Unbroken(reads[n].grant) /\ reads[n].instance \in active]_allVars

\* Two handlers of a subscription overlap only when one was overdue and the
\* instance is marked for restart (pump, bounded).
HandlersAreSerial ==
  \A b \in Subs :
    Cardinality(subs[b].running) > 1 => Subscriber(b) \in overdue

\* A handler that never settles cannot hold up the events behind it.
QueuesDrain ==
  \A b \in Subs : subs[b].queue # <<>> ~> subs[b].queue = <<>>

=============================================================================
