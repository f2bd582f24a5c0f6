------------------------------ MODULE Profiles ------------------------------
(***************************************************************************)
(* Starting a profile: plan() and startProfile() of Host in                *)
(* packages/kernel/src/index.ts, over the instances and scopes of          *)
(* Lifecycle.                                                              *)
(*                                                                         *)
(* startProfile() is one more coroutine: it plans, creates the scopes of   *)
(* the profile, activates the instances one after the other, and takes     *)
(* everything down again when one of them fails.  Operators, plugins and   *)
(* timers go on between its awaits.  Which provider a requirement selects  *)
(* is the constant Requires; the documents around the plan are left out.   *)
(***************************************************************************)
EXTENDS Lifecycle

CONSTANTS
  Plugins,        \* profile.plugins, as instances; <<>> for no profile
  ProfileScopes   \* ids of the scopes below the root, in profile order

ASSUME ProfilesAssumption ==
  /\ Plugins \in Seq(Instances) /\ ProfileScopes \in Seq(ScopeIds \ {Root})
  /\ \A j, k \in DOMAIN ProfileScopes :
       ProfileScopes[j] = ProfileScopes[k] => j = k
  /\ ProfileScopes # <<>> => Operators > 0

\* pc: where startProfile() is; order: plan.order, also #profileIds;
\* at: the instance, or the scope, it waits for.
VARIABLE profile

profileVars == <<vars, profile>>

ProfileStates ==
  [pc : {"none", "activating", "disposing", "closing", "done", "failed"},
   order : Seq(Instances), at : Nat]

ProfilesInit == Init /\ profile = [pc |-> "none", order |-> <<>>, at |-> 0]

-----------------------------------------------------------------------------
(* plan().                                                                 *)

\* The providers that i needs, directly or not.
Needs(i) ==
  LET up[n \in Nat] ==
        IF n = 0 THEN ToSet(Requires[i])
        ELSE up[n - 1] \union UNION {ToSet(Requires[d]) : d \in up[n - 1]}
  IN  up[MaxInstances]

\* visit(): providers first, each instance once.
Order(list) ==
  LET visit[i \in Instances, done \in Seq(Instances)] ==
        IF i \in ToSet(done) THEN done
        ELSE Append(FoldLeft(LAMBDA o, d : visit[d, o], done, Requires[i]), i)
  IN  FoldLeft(LAMBDA o, i : visit[i, o], <<>>, list)

\* plan() returns: every plugin is there, in the root scope, every requirement
\* selects one of them, and none needs itself.
Plannable ==
  \A i \in ToSet(Plugins) :
    /\ Present(i) /\ home[i][1] = Root /\ state[i] \notin {"DISPOSED", "FAILED"}
    /\ i \notin Needs(i)
    /\ \A d \in ToSet(Requires[i]) : d \in ToSet(Plugins) /\ Selects(i, d)

-----------------------------------------------------------------------------
(* startProfile().                                                         *)

Ids == ToSet(profile.order)

\* activate(i) from startProfile: it starts the activation or finds the
\* promise that activate() keeps.
Activated(i) ==
  IF outcome[i] # "none" THEN UNCHANGED <<outcome, act>>
  ELSE /\ outcome' = [outcome EXCEPT ![i] = "pending"]
       /\ act' = [act EXCEPT ![i] = <<Enter(i)>>]

\* The root scope is there and open.
RootOpen == \E s \in Lookup(Root) : Open(s)

\* createScope() for the first n scopes of the profile.
ScopesCreated(n) ==
  LET new == [k \in 1 .. n |->
                <<ProfileScopes[k], generation[ProfileScopes[k]] + 1>>]
  IN  /\ n > 0 => RootOpen
      /\ \A k \in 1 .. n : Lookup(ProfileScopes[k]) = {}
                           /\ new[k][2] <= MaxGeneration
      /\ table' = table \o new
      /\ scope' = [s \in Scopes |-> IF s \in ToSet(new) THEN "OPEN"
                                    ELSE scope[s]]
      /\ parent' = [s \in Scopes |-> IF s \in ToSet(new) THEN Root
                                     ELSE parent[s]]
      /\ owner' = [s \in Scopes |-> IF s \in ToSet(new) THEN 0 ELSE owner[s]]
      /\ generation' = [id \in ScopeIds |->
           IF \E s \in ToSet(new) : s[1] = id THEN generation[id] + 1
           ELSE generation[id]]

\* The scopes cannot be created beyond the first n: the next id is taken, the
\* root is closing or gone, or the audit log is full.
ScopesFailAfter(n) ==
  /\ n < Len(ProfileScopes)
  /\ \/ Lookup(ProfileScopes[n + 1]) # {} \/ ~RootOpen
     \/ "audit" \in Faults

\* startProfile() up to its first await.
StartProfile ==
  LET order == Order(Plugins)
      last == order[Len(order)]
  IN  /\ turn = {} /\ profile.pc = "none" /\ Plugins # <<>>
      /\ Fresh /\ Plannable
      /\ \A i \in Instances :
           state[i] \in {"absent", "VERIFIED", "FAILED", "DISPOSED"}
      /\ \/ /\ ScopesCreated(Len(ProfileScopes))
            /\ Activated(order[1])
            /\ profile' = [pc |-> "activating", order |-> order, at |-> 1]
            /\ UNCHANGED instances
         \/ \E n \in 0 .. Len(ProfileScopes) :
              /\ ScopesFailAfter(n) /\ ScopesCreated(n)
              /\ Dispose({last}) /\ UNCHANGED <<outcome, act>>
              /\ profile' = [pc |-> "disposing", order |-> order,
                             at |-> Len(order)]
      /\ UNCHANGED <<home, deps, effects, work, tear, trusted, distrusted,
                     closed>>
      /\ Handover({<<"act", order[1]>>})

waiting == <<home, deps, effects, work, trusted, distrusted, closed>>

\* await activate(): the next one, or the end.
ProfileGoesOn ==
  LET next == profile.order[profile.at + 1]
  IN  /\ turn = {} /\ profile.pc = "activating"
      /\ outcome[profile.order[profile.at]] = "ok"
      /\ IF profile.at < Len(profile.order)
         THEN /\ Activated(next) /\ profile' = [profile EXCEPT !.at = @ + 1]
         ELSE /\ profile' = [profile EXCEPT !.pc = "done"]
              /\ UNCHANGED <<outcome, act>>
      /\ UNCHANGED <<instances, tree, tear, waiting>>
      /\ Handover({"act"} \X Ids)

\* Mutant: only what was activated is disposed.
UndoneFrom == profile.at

\* The catch block begins with the last instance of the plan.
UndoFrom == Len(profile.order)

ProfileFails ==
  /\ turn = {} /\ profile.pc = "activating"
  /\ outcome[profile.order[profile.at]] = "failed"
  /\ Dispose({profile.order[UndoFrom]})
  /\ profile' = [profile EXCEPT !.pc = "disposing", !.at = UndoFrom]
  /\ UNCHANGED <<tree, tear, act, outcome, waiting>>
  /\ Handover({})

\* The end of await dispose(): an instance that is over, or its disposal.
IsOver(i) ==
  disp[i].pc = "done" \/ (disp[i].pc = "none" /\ ~Disposable(i))

\* await dispose(), in the reverse order of the plan.
ProfileDisposes ==
  /\ turn = {} /\ profile.pc = "disposing" /\ IsOver(profile.order[profile.at])
  /\ IF profile.at > 1
     THEN /\ Dispose({profile.order[profile.at - 1]})
          /\ profile' = [profile EXCEPT !.at = @ - 1]
     ELSE /\ UNCHANGED instances
          /\ profile' = [profile EXCEPT !.pc = "closing",
                                        !.at = Len(ProfileScopes)]
  /\ UNCHANGED <<tree, tear, act, outcome, waiting>>
  /\ Handover({})

\* await destroyScope(), in reverse order and whoever made the scope; at is
\* the number of scopes left, and the teardown has a place of its own.
ProfileCloses ==
  LET t == MaxInstances + Operators
      id == ProfileScopes[profile.at]
  IN  /\ turn = {} /\ profile.pc = "closing" /\ tear[t].todo = <<>>
      /\ IF profile.at > 0
         THEN /\ profile' = [profile EXCEPT !.at = @ - 1]
              /\ IF Lookup(id) # {} THEN BeginTear(t, id, disp)
                 ELSE UNCHANGED <<instances, tree, tear>>
         ELSE /\ profile' = [profile EXCEPT !.pc = "failed"]
              /\ UNCHANGED <<instances, tree, tear>>
      /\ UNCHANGED <<act, outcome, waiting>>
      /\ Handover({<<"tear", t>>})

Profile == ProfileGoesOn \/ ProfileFails \/ ProfileDisposes \/ ProfileCloses

\* Once a profile was started activate() refuses all others.
ProfilesNext ==
  \/ /\ Next /\ UNCHANGED profile
     /\ \A i \in Instances :
          outcome[i] # outcome'[i] /\ outcome[i] = "none"
            => profile.pc = "none" \/ i \in Ids
  \/ StartProfile \/ Profile

ProfilesSpec == ProfilesInit /\ [][ProfilesNext]_profileVars

FairProfilesSpec == ProfilesSpec /\ Fairness /\ WF_profileVars(Profile)

-----------------------------------------------------------------------------

\* The plan holds each plugin once, after all its providers, whenever the
\* requirements of the plugins are met by plugins and none needs itself (plan).
PlanIsSound ==
  (\A i \in ToSet(Plugins) :
     i \notin Needs(i) /\ ToSet(Requires[i]) \subseteq ToSet(Plugins))
  => LET order == Order(Plugins)
     IN  /\ order \in Seq(Instances) /\ ToSet(order) = ToSet(Plugins)
         /\ Len(order) = Cardinality(ToSet(order))
         /\ \A k \in DOMAIN order : \A d \in ToSet(Requires[order[k]]) :
              \E j \in 1 .. k - 1 : order[j] = d

\* A profile that failed to start leaves nothing of itself behind: when the
\* promise of startProfile() is rejected every instance of the plan has been
\* disposed to the end, the ones that were never activated included, whatever
\* was disposed or closed by others meanwhile.  And the plan it follows holds
\* every plugin once, after all its providers (plan, startProfile).
FailedProfilesLeaveNothing ==
  /\ profile \in ProfileStates
  /\ profile.pc # "none" =>
       /\ Ids = ToSet(Plugins) /\ Len(profile.order) = Cardinality(Ids)
       /\ \A k \in DOMAIN profile.order :
            \A d \in ToSet(Requires[profile.order[k]]) :
              \E j \in 1 .. k - 1 : profile.order[j] = d
  /\ profile.pc = "failed" => \A i \in Ids : Stopped(i)

\* startProfile() settles, as everything else does: neither a dependency, nor
\* a disposal that somebody else began, nor a scope holds it for ever.
StartsSettle ==
  /\ NothingHangs
  /\ profile.pc \notin {"none", "done", "failed"}
       ~> profile.pc \in {"done", "failed"}

=============================================================================
