----------------------------- MODULE Lifecycle -----------------------------
(***************************************************************************)
(* Plugin instances and scopes of one cell: the lifecycle part of Host in  *)
(* packages/kernel/src/index.ts (discover, activate, provide, effect,      *)
(* createScope, dispose, destroyScope, shutdown).                          *)
(*                                                                         *)
(* The host is one JavaScript thread, but activateTree, dispose and        *)
(* destroyScope are coroutines that suspend at every await, so any number  *)
(* of them interleave.  act[r] is the call stack of the coroutine that     *)
(* activate(r) started, disp[i] the disposal of i, tear[t] a destroyScope. *)
(* A coroutine runs without interruption from one await to the next: turn  *)
(* holds those that have not come to an await yet.  A scope is an object;  *)
(* its id may be used again, so objects are pairs <<id, generation>>.      *)
(* Instances are numbered in the order in which they are discovered.       *)
(***************************************************************************)
EXTENDS Integers, Sequences, FiniteSets, SequencesExt

CONSTANTS
  MaxInstances,    \* config.maxInstances
  Requires,        \* per instance, the providers its requirements select
  ScopeIds, Root,  \* scope ids and config.rootScope
  Homes,           \* bound: scope ids in which packages are discovered
  MaxGeneration,   \* bound: how often a scope id is used
  MaxEffects,      \* config.maxEffects
  Operators,       \* bound: destroyScope calls an operator has under way
  Roots,           \* instances an operator activates
  Unloads,         \* instances an operator disposes
  Revocable,       \* instances whose package may be revoked
  Faults           \* what may go wrong: a subset of FaultKinds

Instances == 1 .. MaxInstances
Scopes == ScopeIds \X (1 .. MaxGeneration)
Tears == 0 .. MaxInstances + Operators   \* 0: shutdown; i: dispose(i)
FaultKinds == {"link", "code", "timeout", "cleanup", "trust", "audit"}

ASSUME LifecycleAssumption ==
  /\ MaxInstances \in Nat /\ MaxGeneration \in Nat \ {0}
  /\ MaxEffects \in Nat /\ Operators \in Nat
  /\ Requires \in [Instances -> Seq(Instances)]
  /\ Root \in ScopeIds /\ "none" \notin ScopeIds /\ Homes \subseteq ScopeIds
  /\ Roots \subseteq Instances /\ Unloads \subseteq Instances
  /\ Revocable \subseteq Instances /\ Faults \subseteq FaultKinds

VARIABLES
  state,       \* Instance.state, "absent" before discover
  home,        \* Instance.scope
  deps,        \* Instance.dependencies
  effects,     \* Instance.effects
  reg,         \* the registration of the instance's capability
  work,        \* instances with unsettled tracked work (#work)
  calls,       \* #pending: pairs of caller and provider
  revoked,     \* instances whose grants are revoked
  table,       \* #scopes, in insertion order
  scope,       \* Scope.state, "none" before newScope
  parent,      \* Scope.parent, an id
  owner,       \* Scope.owner, 0 for none
  generation,  \* #generations
  act,         \* activateTree frames per activate(r)
  outcome,     \* the promise Instance.activation
  disp,        \* Instance.disposal: where the coroutine is
  tear,        \* destroyScope coroutines
  trusted,     \* the trust store is fresh
  distrusted,  \* instances whose package is revoked
  closed,      \* #closed
  turn         \* coroutines called but not yet suspended

instances == <<state, disp, reg, calls, revoked>>
tree == <<table, scope, parent, owner, generation>>
vars == <<instances, home, deps, effects, work, tree, act, outcome, tear,
          trusted, distrusted, closed, turn>>

States == {"DISCOVERED", "VERIFIED", "RESOLVED", "ACTIVATING", "ACTIVE",
           "QUIESCING", "DISPOSED", "FAILED"}
Frames == [i : Instances, at : Nat,
           pc : {"deps", "link", "code", "failing", "ok", "error"}]
Effects == [scope : Scopes, kind : {"provide", "plain"},
            task : {"held", "cleaning", "cleaned", "failed"},
            by : {"nobody", "host", "plugin"}]
Disposals == [pc : {"none", "dependents", "scopes", "effects", "work", "done"},
              at : 0 .. MaxInstances, list : Seq(Scopes)]
Coroutines == ({"act", "disp"} \X Instances) \union ({"tear"} \X Tears)
Teardowns == [todo : Seq(Scopes), at : 0 .. MaxInstances]

TypeOK ==
  /\ state \in [Instances -> States \union {"absent"}]
  /\ home \in [Instances -> Scopes]
  /\ deps \in [Instances -> SUBSET Instances]
  /\ effects \in [Instances -> Seq(Effects)]
  /\ \A i \in Instances : Len(effects[i]) <= MaxEffects
  /\ reg \in [Instances -> {"none", "staged", "live", "dead"}]
  /\ work \subseteq Instances /\ revoked \subseteq Instances
  /\ calls \subseteq Instances \X Instances
  /\ table \in Seq(Scopes)
  /\ scope \in [Scopes -> {"none", "OPEN", "CLOSING", "CLOSED"}]
  /\ parent \in [Scopes -> ScopeIds \union {"none"}]
  /\ owner \in [Scopes -> Instances \union {0}]
  /\ generation \in [ScopeIds -> 0 .. MaxGeneration]
  /\ act \in [Instances -> Seq(Frames)]
  /\ outcome \in [Instances -> {"none", "pending", "ok", "failed"}]
  /\ disp \in [Instances -> Disposals] /\ tear \in [Tears -> Teardowns]
  /\ trusted \in BOOLEAN /\ distrusted \subseteq Instances
  /\ closed \in BOOLEAN /\ turn \subseteq Coroutines

Idle == [pc |-> "none", at |-> 0, list |-> <<>>]
NoTear == [todo |-> <<>>, at |-> 0]

\* The constructor has created the root scope.
Init ==
  /\ state = [i \in Instances |-> "absent"]
  /\ home = [i \in Instances |-> <<Root, 1>>]
  /\ deps = [i \in Instances |-> {}] /\ effects = [i \in Instances |-> <<>>]
  /\ reg = [i \in Instances |-> "none"]
  /\ work = {} /\ calls = {} /\ revoked = {}
  /\ table = << <<Root, 1>> >>
  /\ scope = [s \in Scopes |-> IF s = <<Root, 1>> THEN "OPEN" ELSE "none"]
  /\ parent = [s \in Scopes |-> "none"] /\ owner = [s \in Scopes |-> 0]
  /\ generation = [id \in ScopeIds |-> IF id = Root THEN 1 ELSE 0]
  /\ act = [r \in Instances |-> <<>>]
  /\ outcome = [r \in Instances |-> "none"]
  /\ disp = [i \in Instances |-> Idle] /\ tear = [t \in Tears |-> NoTear]
  /\ trusted = TRUE /\ distrusted = {} /\ closed = FALSE /\ turn = {}

-----------------------------------------------------------------------------
(* Scopes.                                                                 *)

\* The scope objects in the table, and the one an id stands for.
Registered == {table[n] : n \in DOMAIN table}
Lookup(id) == {s \in Registered : s[1] = id}

\* filter(): the elements of q that are in S, in their order.
Only(q, S) ==
  LET places == {n \in DOMAIN q : q[n] \in S}
      place(k) == CHOOSE n \in places :
                    Cardinality({m \in places : m < n}) = k - 1
  IN  [k \in 1 .. Cardinality(places) |-> q[place(k)]]

\* open(): the object itself is in the table and OPEN.
Open(s) == scope[s] = "OPEN" /\ s \in Registered

\* visible(): the provider's scope is the consumer's or is met on the way from
\* it to the root, by id: no set that is closed on this way can miss it.
Visible(provider, consumer) ==
  \A way \in SUBSET Scopes :
    /\ consumer \in way
    /\ \A s \in way : Lookup(parent[s]) \subseteq way
    => provider \in way

\* fresh(), and fresh(i) for the package of an instance.  Either failure
\* disposes every instance, unless the host is closed.
Fresh == trusted /\ ~closed
Accepted(i) == Fresh /\ i \notin distrusted
Stale(i) == ~closed /\ (~trusted \/ i \in distrusted)
Present(i) == state[i] # "absent"

\* live(): what a context checks before it acts for its instance in s.  The
\* token is deleted when the disposal begins.
Live(i, s) ==
  /\ Open(s) /\ disp[i].pc = "none" /\ state[i] \in {"ACTIVE", "ACTIVATING"}
  /\ Accepted(i)

\* createScope and KernelContext.createScope, through newScope.  o = 0 is the
\* operator.
CreateScope(id, above, o) ==
  LET s == <<id, generation[id] + 1>>
  IN  /\ Fresh /\ Lookup(id) = {} /\ generation[id] < MaxGeneration
      /\ Open(above) /\ (o # 0 => Live(o, above))
      /\ table' = Append(table, s)
      /\ scope' = [scope EXCEPT ![s] = "OPEN"]
      /\ parent' = [parent EXCEPT ![s] = above[1]]
      /\ owner' = [owner EXCEPT ![s] = o]
      /\ generation' = [generation EXCEPT ![id] = @ + 1]
      /\ UNCHANGED <<instances, home, deps, effects, work, act, outcome, tear,
                     trusted, distrusted, closed>>

-----------------------------------------------------------------------------
(* Disposal: the synchronous part of dispose() for all members of S.       *)

Disposable(i) ==
  /\ state[i] \notin {"absent", "DISPOSED", "FAILED"} /\ disp[i].pc = "none"

Begun == [pc |-> "dependents", at |-> 0, list |-> <<>>]

\* d, r and c are the disposals, registrations and pending calls that the
\* caller leaves behind.
BeginDispose(S, d, r, c) ==
  LET new == {i \in S : Disposable(i)}
  IN  /\ state' = [i \in Instances |->
                     IF i \notin new THEN state[i]
                     ELSE IF state[i] = "ACTIVE" THEN "QUIESCING"
                     ELSE "FAILED"]
      /\ disp' = [i \in Instances |-> IF i \in new THEN Begun ELSE d[i]]
      /\ reg' = [i \in Instances |->
                   IF i \in new /\ r[i] # "none" THEN "dead" ELSE r[i]]
      /\ calls' = {p \in c : p[1] \notin new /\ p[2] \notin new}
      /\ revoked' = revoked \union new

Dispose(S) == BeginDispose(S, disp, reg, calls)

\* dispose() and quiesce() by the operator.
Unload(i) ==
  /\ i \in Unloads /\ Disposable(i)
  /\ Dispose({i})
  /\ UNCHANGED <<home, deps, effects, work, tree, act, outcome, tear,
                 trusted, distrusted, closed>>

\* The freshness timer, or any call that finds the trust store stale.
TrustTimer ==
  /\ ~trusted /\ ~closed /\ \E i \in Instances : Disposable(i)
  /\ Dispose(Instances)
  /\ UNCHANGED <<home, deps, effects, work, tree, act, outcome, tear,
                 trusted, distrusted, closed>>

\* updateTrust() with a list that revokes the package of i.
Revoke(i) ==
  /\ i \in Revocable \ distrusted /\ Present(i)
  /\ distrusted' = distrusted \union {i}
  /\ Dispose({i})
  /\ UNCHANGED <<home, deps, effects, work, tree, act, outcome, tear,
                 trusted, closed>>

\* discover(): the audit log may have room for one of its two records only.
Discover(i, s) ==
  /\ state[i] = "absent" /\ (i > 1 => Present(i - 1))
  /\ Fresh /\ Open(s) /\ s[1] \in Homes
  /\ \/ state' = [state EXCEPT ![i] = "VERIFIED"]
     \/ "audit" \in Faults /\ state' = [state EXCEPT ![i] = "DISCOVERED"]
  /\ home' = [home EXCEPT ![i] = s]
  /\ UNCHANGED <<disp, reg, calls, revoked, deps, effects, work, tree, act,
                 outcome, tear, trusted, distrusted, closed>>

-----------------------------------------------------------------------------
(* Activation.  The top frame of act[r] is the one that runs; "ok" and     *)
(* "error" are results its caller has not seen yet.                        *)

Frame(i, pc) == [i |-> i, at |-> 1, pc |-> pc]
WithTop(q, f) == [q EXCEPT ![Len(q)] = f]

\* The entry of activateTree.
Enter(i) ==
  Frame(i, CASE state[i] = "ACTIVE" -> "ok"
             [] state[i] = "VERIFIED" -> "deps"
             [] OTHER -> "error")

\* resolve(): the provider is visible and may still become active.
Selects(i, d) ==
  /\ Open(home[i]) /\ Accepted(i) /\ i \notin revoked
  /\ Visible(home[d], home[i]) /\ d \notin distrusted
  /\ state[d] \in {"VERIFIED", "RESOLVED", "ACTIVATING", "ACTIVE"}

\* The catch block: the frame waits for dispose().  If fresh() was what failed
\* every instance is disposed.
FailTop(r, q, stale) ==
  /\ act' = [act EXCEPT ![r] = WithTop(q, [Last(q) EXCEPT !.pc = "failing"])]
  /\ Dispose(IF stale THEN Instances ELSE {Last(q).i})
  /\ UNCHANGED work

\* The loop over manifest.requires, from where the stack q has it to the next
\* await.
Advance(r, q) ==
  LET f == Last(q)
      n == Len(Requires[f.i])
      d == Requires[f.i][f.at]
      checked == Open(home[f.i]) /\ Accepted(f.i)
      stale == Open(home[f.i]) /\ Stale(f.i)
  IN  \/ /\ f.at <= n /\ Selects(f.i, d)
         /\ \A k \in DOMAIN q : q[k].i # d
         /\ act' = [act EXCEPT ![r] = Append(q, Enter(d))]
         /\ UNCHANGED <<instances, work>>
      \/ /\ f.at <= n
         /\ ~Selects(f.i, d) \/ \E k \in DOMAIN q : q[k].i = d
         /\ FailTop(r, q, stale)
      \/ /\ f.at > n /\ state[f.i] = "VERIFIED" /\ (n = 0 => checked)
         /\ state' = [state EXCEPT ![f.i] = "ACTIVATING"]
         /\ act' = [act EXCEPT ![r] = WithTop(q, [f EXCEPT !.pc = "link"])]
         /\ UNCHANGED <<disp, reg, calls, revoked, work>>
      \/ /\ f.at > n
         /\ \/ state[f.i] # "VERIFIED" \/ "audit" \in Faults
            \/ n = 0 /\ ~checked
         /\ FailTop(r, q, n = 0 /\ stale)

Running(r, pc) == act[r] # <<>> /\ Last(act[r]).pc = pc
activation == <<home, effects, tree, tear, trusted, distrusted, closed>>

\* activate(): the promise is kept, so it runs once.
Activate(r) ==
  /\ r \in Roots /\ Present(r) /\ outcome[r] = "none"
  /\ outcome' = [outcome EXCEPT ![r] = "pending"]
  /\ act' = [act EXCEPT ![r] = <<Enter(r)>>]
  /\ UNCHANGED <<instances, deps, work, activation>>

\* The first segment of a frame that passed the entry checks.
Start(r) ==
  /\ Running(r, "deps")
  /\ Advance(r, act[r])
  /\ UNCHANGED <<deps, outcome, activation>>

\* await activateTree(selected): a result reaches the calling frame.
Continue(r) ==
  LET q == Front(act[r])
      f == [Last(q) EXCEPT !.at = @ + 1]
  IN  /\ act[r] # <<>> /\ Len(act[r]) > 1
      /\ \/ /\ Running(r, "ok")
            /\ deps' = [deps EXCEPT ![f.i] = @ \union {Last(act[r]).i}]
            /\ Advance(r, WithTop(q, f))
         \/ Running(r, "error") /\ FailTop(r, q, FALSE) /\ UNCHANGED deps
      /\ UNCHANGED <<outcome, activation>>

\* await module.link(): then the code of the plugin is started, whatever has
\* become of the instance.
Linked(r) ==
  LET i == Last(act[r]).i
  IN  /\ Running(r, "link")
      /\ \/ /\ Accepted(i)
            /\ act' = [act EXCEPT ![r] =
                         WithTop(@, [Last(@) EXCEPT !.pc = "code"])]
            /\ work' = work \union {i}
            /\ UNCHANGED instances
         \/ ~Accepted(i) /\ FailTop(r, act[r], Stale(i))
         \/ "link" \in Faults /\ FailTop(r, act[r], FALSE)
      /\ UNCHANGED <<deps, outcome, activation>>

\* The checks between the plugin's activate() and ACTIVE.
Publishable(i) ==
  /\ Live(i, home[i]) /\ state[i] = "ACTIVATING" /\ reg[i] = "staged"
  /\ \A d \in deps[i] : state[d] = "ACTIVE"

\* The plugin's activate() returned: publish, or fail.
Returned(r) ==
  LET i == Last(act[r]).i
  IN  /\ Running(r, "code")
      /\ \/ /\ Publishable(i)
            /\ state' = [state EXCEPT ![i] = "ACTIVE"]
            /\ reg' = [reg EXCEPT ![i] = "live"]
            /\ act' = [act EXCEPT ![r] =
                         WithTop(@, [Last(@) EXCEPT !.pc = "ok"])]
            /\ UNCHANGED <<disp, calls, revoked>>
         \/ /\ ~Publishable(i) \/ "audit" \in Faults
            /\ act' = [act EXCEPT ![r] =
                         WithTop(@, [Last(@) EXCEPT !.pc = "failing"])]
            /\ Dispose(IF Open(home[i]) /\ disp[i].pc = "none" /\ Stale(i)
                       THEN Instances ELSE {i})
      /\ work' = work \ {i}
      /\ UNCHANGED <<deps, outcome, activation>>

\* It threw, or it did not return within activationMs and goes on.
Threw(r) ==
  /\ Running(r, "code")
  /\ act' = [act EXCEPT ![r] = WithTop(@, [Last(@) EXCEPT !.pc = "failing"])]
  /\ Dispose({Last(act[r]).i})
  /\ \/ "code" \in Faults /\ work' = work \ {Last(act[r]).i}
     \/ "timeout" \in Faults /\ UNCHANGED work
  /\ UNCHANGED <<deps, outcome, activation>>

\* await dispose() in the catch block, then throw.
Disposed(r) ==
  /\ Running(r, "failing") /\ disp[Last(act[r]).i].pc = "done"
  /\ act' = [act EXCEPT ![r] = WithTop(@, [Last(@) EXCEPT !.pc = "error"])]
  /\ UNCHANGED <<instances, deps, work, outcome, activation>>

\* The promise of activate() settles.
Settle(r) ==
  /\ Len(act[r]) = 1 /\ (Running(r, "ok") \/ Running(r, "error"))
  /\ outcome' = [outcome EXCEPT ![r] =
                   IF Running(r, "ok") THEN "ok" ELSE "failed"]
  /\ act' = [act EXCEPT ![r] = <<>>]
  /\ UNCHANGED <<instances, deps, work, activation>>

-----------------------------------------------------------------------------
(* Effects, registrations and calls of a running instance.                 *)

quiet == <<home, deps, tree, act, outcome, tear, trusted, distrusted, closed>>

\* own(), and provide() for the capability.
Acquire(i, s, kind) ==
  /\ Live(i, s) /\ (s = home[i] \/ owner[s] = i)
  /\ state[i] = "ACTIVATING" => i \in work
  /\ Len(effects[i]) < MaxEffects
  /\ kind = "provide" => s = home[i] /\ reg[i] = "none"
  /\ effects' = [effects EXCEPT ![i] =
       Append(@, [scope |-> s, kind |-> kind, task |-> "held",
                  by |-> "nobody"])]
  /\ reg' = [reg EXCEPT ![i] =
       IF kind = "plain" THEN @
       ELSE IF state[i] = "ACTIVATING" THEN "staged" ELSE "live"]
  /\ UNCHANGED <<state, disp, calls, revoked, work, quiet>>

\* clean(): the first caller starts the cleanup.
StartCleaning(i, e, who) ==
  effects' = [effects EXCEPT ![i][e].task = "cleaning", ![i][e].by = who]

\* A plugin calls a disposer it was given, or the catch of effect() does:
\* nothing stops them once the instance is being disposed.
Release(i, e) ==
  /\ effects[i][e].task = "held"
  /\ StartCleaning(i, e, "plugin")
  /\ UNCHANGED <<instances, work, quiet>>

\* The instances whose activation bound them to i.
Dependents(i) == {k \in Instances : i \in deps[k]}

\* A cleanup ends.  The one of provide() removes the registration, cancels
\* the calls it serves and disposes the dependents.
Cleaned(i, e) ==
  /\ effects[i][e].task = "cleaning"
  /\ \/ /\ effects' = [effects EXCEPT ![i][e].task = "cleaned"]
        /\ IF effects[i][e].kind = "plain" THEN UNCHANGED instances
           ELSE BeginDispose(Dependents(i), disp, [reg EXCEPT ![i] = "none"],
                             {p \in calls : p[2] # i})
     \/ /\ "cleanup" \in Faults /\ effects[i][e].kind = "plain"
        /\ effects' = [effects EXCEPT ![i][e].task = "failed"]
        /\ UNCHANGED instances
  /\ UNCHANGED <<work, quiet>>

\* A call through a handle of require() or optional(): authorize, admit,
\* track.
Call(c, p) ==
  /\ c # p /\ Live(c, home[c]) /\ state[c] = "ACTIVE" /\ c \notin revoked
  /\ Visible(home[p], home[c]) /\ reg[p] = "live" /\ state[p] = "ACTIVE"
  /\ Accepted(p)
  /\ <<c, p>> \notin calls
  /\ calls' = calls \union {<<c, p>>} /\ work' = work \union {p}
  /\ UNCHANGED <<state, disp, reg, revoked, effects, quiet>>

Answered(c, p) ==
  /\ <<c, p>> \in calls
  /\ calls' = calls \ {<<c, p>>}
  /\ UNCHANGED <<state, disp, reg, revoked, work, effects, quiet>>

\* Tracked work settles, also after it was given up.
WorkSettles(i) ==
  /\ i \in work
  /\ \A r \in Instances : ~(Running(r, "code") /\ Last(act[r]).i = i)
  /\ \A p \in calls : p[2] # i
  /\ work' = work \ {i}
  /\ UNCHANGED <<instances, effects, quiet>>

-----------------------------------------------------------------------------
(* destroyScope.                                                           *)

\* The scopes from which the one with this id is visible.
Subtree(id) == {s \in Registered : \E o \in Lookup(id) : Visible(o, s)}

\* The synchronous part: the subtree is closed, its grants are revoked (by
\* scope id) and its calls are cancelled.  d is the disposals left behind.
BeginTear(t, id, d) ==
  LET closing == Subtree(id)
  IN  /\ tear' = [tear EXCEPT ![t] =
                    [todo |-> Reverse(Only(table, closing)), at |-> 0]]
      /\ scope' = [s \in Scopes |->
                     IF s \in closing THEN "CLOSING" ELSE scope[s]]
      /\ revoked' = revoked \union
           {i \in Instances : \E s \in closing : home[i][1] = s[1]}
      /\ calls' = {p \in calls :
                     home[p[1]] \notin closing /\ home[p[2]] \notin closing}
      /\ disp' = d
      /\ UNCHANGED <<state, reg, table, parent, owner, generation>>

\* destroyScope() by the operator.
DestroyScope(t, id) ==
  /\ t > MaxInstances /\ tear[t] = NoTear /\ Lookup(id) # {}
  /\ BeginTear(t, id, disp)
  /\ UNCHANGED <<home, deps, effects, work, act, outcome, trusted, distrusted, closed>>

\* shutdown().
Shutdown ==
  /\ ~closed /\ closed' = TRUE
  /\ BeginTear(0, Root, disp)
  /\ UNCHANGED <<home, deps, effects, work, act, outcome, trusted, distrusted>>

\* Effects of i whose cleanup has not ended.
Left(i) ==
  {e \in DOMAIN effects[i] : effects[i][e].task \in {"held", "cleaning"}}

\* Those of k in s.
Unfinished(k, s) ==
  {e \in Left(k) : effects[k][e].scope = s}

\* Mutant: effects that other instances have in the scope are forgotten.
ConcernedAtHome(n, s) ==
  {k \in Instances : k > n /\ Present(k) /\ home[k] = s}

\* Instances after position n that destroyScope has to stop at, for scope s.
Concerned(n, s) ==
  {k \in Instances : k > n /\ Present(k)
                       /\ (home[k] = s \/ Unfinished(k, s) # {})}

\* await dispose() of the instance at position n; in any other scope only its
\* effects are waited for.
Passed(n, s) == n > 0 => home[n] # s \/ disp[n].pc = "done"

\* The loop over the subtree and the instances, to the next await.
Tear(t) ==
  LET s == Head(tear[t].todo)
      k == Min(Concerned(tear[t].at, s))
      e == Max(Unfinished(k, s))
  IN  /\ tear[t].todo # <<>> /\ Passed(tear[t].at, s)
      /\ \/ /\ Concerned(tear[t].at, s) # {} /\ home[k] = s
            /\ Dispose({k})
            /\ tear' = [tear EXCEPT ![t].at = k]
            /\ UNCHANGED <<effects, tree>>
         \/ /\ Concerned(tear[t].at, s) # {} /\ home[k] # s
            /\ effects[k][e].task = "held"
            /\ StartCleaning(k, e, "host")
            /\ UNCHANGED <<instances, tear, tree>>
         \/ /\ Concerned(tear[t].at, s) = {}
            /\ scope' = [scope EXCEPT ![s] = "CLOSED"]
            /\ table' = Only(table, {o \in Registered : o[1] # s[1]})
            /\ tear' = [tear EXCEPT ![t] =
                          [todo |-> Tail(@.todo), at |-> 0]]
            /\ UNCHANGED <<instances, effects, parent, owner, generation>>
      /\ UNCHANGED <<home, deps, work, act, outcome, trusted, distrusted, closed>>

-----------------------------------------------------------------------------
(* dispose(), after its synchronous part.                                  *)

bystanders == <<home, deps, act, outcome, trusted, distrusted, closed>>

\* Owned scopes, the latest first.
Owned(i) == Reverse(Only(table, {s \in Registered : owner[s] = i}))

\* Mutant: dependents are left alone.
DisposeNoDependents(i) ==
  /\ disp[i].pc = "dependents"
  /\ disp' = [disp EXCEPT ![i] =
                [pc |-> "scopes", at |-> 0, list |-> Owned(i)]]
  /\ UNCHANGED <<state, reg, calls, revoked, effects, work, tree, tear,
                 bystanders>>

\* Mutant: waits until the dependent is DISPOSED.
DisposeDependentsCleanly(i) ==
  LET at == disp[i].at
      rest == {k \in Dependents(i) : k > at /\ Present(k)}
  IN  /\ disp[i].pc = "dependents" /\ (at > 0 => state[at] = "DISPOSED")
      /\ IF rest # {}
         THEN BeginDispose({Min(rest)}, [disp EXCEPT ![i].at = Min(rest)],
                           reg, calls)
         ELSE /\ disp' = [disp EXCEPT ![i] =
                            [pc |-> "scopes", at |-> 0, list |-> Owned(i)]]
              /\ UNCHANGED <<state, reg, calls, revoked>>
      /\ UNCHANGED <<effects, work, tree, tear, bystanders>>

\* for (const dependent of instances): dispose and wait.
DisposeDependents(i) ==
  LET at == disp[i].at
      rest == {k \in Dependents(i) : k > at /\ Present(k)}
  IN  /\ disp[i].pc = "dependents" /\ (at > 0 => disp[at].pc = "done")
      /\ IF rest # {}
         THEN BeginDispose({Min(rest)}, [disp EXCEPT ![i].at = Min(rest)],
                           reg, calls)
         ELSE /\ disp' = [disp EXCEPT ![i] =
                            [pc |-> "scopes", at |-> 0, list |-> Owned(i)]]
              /\ UNCHANGED <<state, reg, calls, revoked>>
      /\ UNCHANGED <<effects, work, tree, tear, bystanders>>

\* for (const s of owned scopes): destroyScope(s.id) and wait.
DestroyOwned(i) ==
  /\ disp[i].pc = "scopes" /\ tear[i].todo = <<>>
  /\ IF disp[i].list # <<>>
     THEN BeginTear(i, Head(disp[i].list)[1],
                    [disp EXCEPT ![i].list = Tail(@)])
     ELSE /\ disp' = [disp EXCEPT ![i].pc = "effects"]
          /\ UNCHANGED <<state, reg, calls, revoked, tree, tear>>
  /\ UNCHANGED <<effects, work, bystanders>>

\* Mutant: effects in the order they were acquired.
CleanEffectsForward(i) ==
  /\ disp[i].pc = "effects"
  /\ \/ /\ Left(i) # {} /\ effects[i][Min(Left(i))].task = "held"
        /\ StartCleaning(i, Min(Left(i)), "host")
        /\ UNCHANGED disp
     \/ /\ Left(i) = {}
        /\ disp' = [disp EXCEPT ![i].pc = "work"]
        /\ UNCHANGED effects
  /\ UNCHANGED <<state, reg, calls, revoked, work, tree, tear, bystanders>>

\* Effects in reverse order, one at a time.
CleanEffects(i) ==
  /\ disp[i].pc = "effects"
  /\ \/ /\ Left(i) # {} /\ effects[i][Max(Left(i))].task = "held"
        /\ StartCleaning(i, Max(Left(i)), "host")
        /\ UNCHANGED disp
     \/ /\ Left(i) = {}
        /\ disp' = [disp EXCEPT ![i].pc = "work"]
        /\ UNCHANGED effects
  /\ UNCHANGED <<state, reg, calls, revoked, work, tree, tear, bystanders>>

\* Mutant: work that was given up is not reported.
FinishUnreported(i) ==
  /\ disp[i].pc = "work"
  /\ state' = [state EXCEPT ![i] = IF @ # "QUIESCING" THEN @ ELSE "DISPOSED"]
  /\ disp' = [disp EXCEPT ![i].pc = "done"]
  /\ UNCHANGED <<reg, calls, revoked, effects, work, tree, tear, bystanders>>

\* Tracked work settles or is reported after cleanupMs; a disposal of an
\* ACTIVE instance ends in FAILED if anything was reported.
Finish(i) ==
  /\ disp[i].pc = "work"
  /\ i \in work => "timeout" \in Faults
  /\ state' = [state EXCEPT ![i] =
       IF @ # "QUIESCING" THEN @
       ELSE IF i \in work \/ \E e \in DOMAIN effects[i] :
                               effects[i][e].task = "failed"
            THEN "FAILED" ELSE "DISPOSED"]
  /\ disp' = [disp EXCEPT ![i].pc = "done"]
  /\ UNCHANGED <<reg, calls, revoked, effects, work, tree, tear, bystanders>>

TrustLapses ==
  /\ "trust" \in Faults /\ trusted
  /\ trusted' = FALSE
  /\ UNCHANGED <<instances, home, deps, effects, work, tree, act, outcome,
                 tear, distrusted, closed>>

-----------------------------------------------------------------------------
(* The event loop.                                                         *)

\* The effect that destroyScope waits for next, for scope s after position n.
AwaitsEffect(n, s) ==
  /\ Concerned(n, s) # {}
  /\ LET k == Min(Concerned(n, s))
     IN  home[k] # s /\ effects[k][Max(Unfinished(k, s))].task = "cleaning"

\* The coroutine has come to an await, or to its end.
Suspended(x) ==
  LET i == x[2]
      todo == tear[i].todo
      at == tear[i].at
  IN  CASE x[1] = "act" -> ~Running(i, "deps")
        [] x[1] = "disp" ->
             CASE disp[i].pc = "dependents" -> disp[i].at > 0
               [] disp[i].pc = "scopes" -> todo # <<>>
               [] disp[i].pc = "effects" ->
                    Left(i) # {} /\ effects[i][Max(Left(i))].task = "cleaning"
               [] disp[i].pc = "work" -> i \in work
               [] OTHER -> TRUE
        [] OTHER -> todo # <<>> =>
             (at > 0 /\ home[at] = Head(todo)) \/ AwaitsEffect(at, Head(todo))

\* Who must run on before the event loop takes the next task: the members of
\* S, and every disposal the step began.
Handover(S) ==
  LET begun == {i \in Instances :
                  disp[i].pc = "none" /\ disp'[i].pc # "none"}
  IN  turn' = {x \in turn \union S \union ({"disp"} \X begun) : ~Suspended(x)'}

MayRun(x) == turn = {} \/ x \in turn

Operator ==
  \/ \E i \in Instances, s \in Scopes : Discover(i, s)
  \/ \E i \in Instances : Activate(i) \/ Unload(i) \/ Revoke(i)
  \/ \E id \in ScopeIds, s \in Scopes, o \in Instances \union {0} :
       CreateScope(id, s, o)
  \/ \E t \in Tears, id \in ScopeIds : DestroyScope(t, id)
  \/ Shutdown

Plugin ==
  \/ \E i \in Instances, s \in Scopes, kind \in {"provide", "plain"} :
       Acquire(i, s, kind)
  \/ \E i \in Instances : \E e \in DOMAIN effects[i] : Release(i, e)
  \/ \E c, p \in Instances : Call(c, p)

Event ==
  /\ turn = {}
  /\ Operator \/ Plugin \/ TrustLapses \/ TrustTimer
  /\ Handover(({"act"} \X Roots) \union ({"tear"} \X Tears))

Activating(r) ==
  /\ MayRun(<<"act", r>>)
  /\ \/ Start(r) \/ Continue(r) \/ Linked(r) \/ Returned(r) \/ Threw(r)
     \/ Disposed(r) \/ Settle(r)
  /\ Handover({<<"act", r>>})

Disposing(i) ==
  /\ MayRun(<<"disp", i>>)
  /\ \/ DisposeDependents(i) \/ DestroyOwned(i) \/ CleanEffects(i)
     \/ Finish(i)
  /\ Handover({<<"disp", i>>, <<"tear", i>>})

Tearing(t) ==
  MayRun(<<"tear", t>>) /\ Tear(t) /\ Handover({<<"tear", t>>})

\* Code of the plugin settles a promise.
Settling(i) ==
  /\ turn = {}
  /\ \/ \E e \in DOMAIN effects[i] : Cleaned(i, e)
     \/ WorkSettles(i)
     \/ \E p \in Instances : Answered(i, p)
  /\ Handover({})

Next ==
  \/ Event
  \/ \E i \in Instances : Activating(i) \/ Disposing(i) \/ Settling(i)
  \/ \E t \in Tears : Tearing(t)

Spec == Init /\ [][Next]_vars

\* Promises that can settle do, and the timers of bounded() end what the
\* plugin does not: activations, cleanups and calls come to an end.
Fairness ==
  /\ \A i \in Instances :
       WF_vars(Activating(i)) /\ WF_vars(Disposing(i)) /\ WF_vars(Settling(i))
  /\ \A t \in Tears : WF_vars(Tearing(t))

-----------------------------------------------------------------------------

Stopped(i) == state[i] \in {"DISPOSED", "FAILED"} /\ disp[i].pc = "done"

\* An ACTIVE instance never depends on one that is gone: a mandatory provider
\* is disposed only after all its dependents, also those that were activating
\* while its disposal looked for dependents (activateTree, dispose).
DependentsFollow ==
  \A i \in Instances : \A d \in deps[i] :
    state[i] = "ACTIVE" => state[d] \in {"ACTIVE", "QUIESCING"}

\* The types and limits are kept, and DISPOSED reports complete cleanup: every
\* effect was cleaned, no tracked work, registration, call or owned scope is
\* left (dispose).
DisposedIsClean ==
  /\ TypeOK
  /\ \A i \in Instances : state[i] = "DISPOSED" =>
       /\ \A e \in DOMAIN effects[i] : effects[i][e].task = "cleaned"
       /\ i \notin work /\ reg[i] = "none"
       /\ \A p \in calls : i \notin {p[1], p[2]}
       /\ \A s \in Registered : owner[s] # i

\* The host starts the cleanup of an effect only when those acquired later in
\* the same scope are over, whichever of dispose and destroyScope gets there
\* first and whatever the plugin released itself (clean).
CleanedInReverse ==
  \A i \in Instances : \A e, later \in DOMAIN effects[i] :
    /\ e < later /\ effects[i][e].scope = effects[i][later].scope
    /\ effects[i][e].task = "cleaning" /\ effects[i][e].by = "host"
    => effects[i][later].task \in {"cleaned", "failed"}

\* A CLOSED scope is empty: its instances have finished their disposal and
\* no effect registered in it is left (destroyScope).
ClosedIsEmpty ==
  \A s \in Scopes : scope[s] = "CLOSED" =>
    \A i \in Instances :
      /\ Present(i) /\ home[i] = s => Stopped(i)
      /\ Unfinished(i, s) = {}

\* An activation reported as failed to the activation of a consumer is final:
\* the provider is not on its way to ACTIVE (activateTree).
DependencyErrorsAreFinal ==
  \A r \in Instances : Len(act[r]) > 1 /\ Running(r, "error") =>
    state[Last(act[r]).i] \in {"FAILED", "QUIESCING", "DISPOSED"}

\* Nothing hangs: every disposal ends, whether it waits for dependents, scopes,
\* effects or work, the promise of every activate() settles, and shutdown()
\* stops every instance (dispose, activate, shutdown).
NothingHangs ==
  /\ \A i \in Instances :
       /\ disp[i].pc \notin {"none", "done"} ~> disp[i].pc = "done"
       /\ outcome[i] = "pending" ~> outcome[i] \in {"ok", "failed"}
  /\ closed ~> \A i \in Instances : Present(i) => Stopped(i)

=============================================================================
