-------------------------------- MODULE Trust --------------------------------
(***************************************************************************)
(* The trust store of a cell: class Trust of packages/kernel/src/trust.ts. *)
(*                                                                         *)
(* The store holds a signed policy and a signed revocation list and keeps  *)
(* a high-water mark of both, and of the wall clock, in a file that is     *)
(* replaced by write, fsync, rename and fsync of the directory.  The       *)
(* process may end and the machine may lose power at any time, and the     *)
(* clock may be set.  A document stands for its digest, and the root key   *)
(* of a material is that of its policy.  Only documents with valid         *)
(* signatures are listed in Policies, Revocations and Rotations: the       *)
(* others are rejected before anything happens.                            *)
(***************************************************************************)
EXTENDS Integers

CONSTANTS
  MaxTime,      \* bound: now() is at most this
  Policies,     \* policies their root key has signed
  Revocations,  \* revocation lists the root key of the field root has signed
  Rotations,    \* pairs of policies in a rotation record both roots signed
  Faults,       \* what persist() may meet: "write", "sync"
  None          \* no state file

Times == 0 .. MaxTime

PolicyType == [version : Nat, root : STRING, text : STRING,
               issued : Nat, expires : Nat, age : Nat]
RevocationType == [version : Nat, root : STRING, text : STRING,
                   issued : Nat, expires : Nat]

ASSUME TrustAssumption ==
  /\ MaxTime \in Nat
  /\ Policies \subseteq PolicyType /\ Revocations \subseteq RevocationType
  /\ Rotations \subseteq Policies \X Policies
  /\ Faults \subseteq {"write", "sync"}

Material == [policy : Policies, revocation : Revocations]
Water == [policy : Policies, revocation : Revocations, time : Times]

ASSUME NoneAssumption == None \notin Water /\ None \notin Policies

VARIABLES
  clock,     \* now()
  up,        \* a Trust object exists
  material,  \* #material
  water,     \* #water
  broken,    \* #brokenClock
  file,      \* what the state file holds
  durable,   \* what it may hold after a loss of power
  adopted,   \* ghost: policies the constructor or update() returned with
  lists,     \* ghost: the same for revocation lists
  founder,   \* ghost: the first policy adopted
  passed,    \* ghost: the time of the last check of the clock that passed
  saved      \* ghost: the latest time that was saved

memory == <<up, material, water, broken>>
disk == <<file, durable>>
ghosts == <<adopted, lists, founder, passed, saved>>
vars == <<clock, memory, disk, ghosts>>

TypeOK ==
  /\ clock \in Times /\ up \in BOOLEAN /\ broken \in BOOLEAN
  /\ up => material \in Material /\ water \in Water
  /\ file \in Water \union {None} /\ durable \subseteq Water \union {None}
  /\ adopted \subseteq Policies /\ lists \subseteq Revocations
  /\ founder \in Policies \union {None}
  /\ passed \in Times /\ saved \in Times

Init ==
  /\ clock \in Times /\ up = FALSE /\ broken = FALSE
  /\ material = None /\ water = None
  /\ file = None /\ durable = {None}
  /\ adopted = {} /\ lists = {} /\ founder = None
  /\ passed = 0 /\ saved = 0

-----------------------------------------------------------------------------
(* Documents.                                                              *)

\* get expiry(): the store is fresh before the earliest of the four limits.
Unexpired(m, t) ==
  /\ t < m.policy.expires /\ t < m.revocation.expires
  /\ t < m.policy.issued + m.policy.age + 1
  /\ t < m.revocation.issued + m.policy.age + 1

\* validate().
Valid(m) ==
  /\ m.policy.root = m.revocation.root
  /\ \A x \in {m.policy.issued, m.revocation.issued} : x <= clock
  /\ m.policy.issued < m.policy.expires
  /\ m.revocation.issued < m.revocation.expires
  /\ Unexpired(m, clock)

\* A document replaces another one of a lower version, or itself.
Succeeds(new, old) ==
  new.version >= old.version /\ (new.version = old.version => new = old)

\* Both documents of a material may replace those of a mark.
Supersedes(m, w) ==
  Succeeds(m.policy, w.policy) /\ Succeeds(m.revocation, w.revocation)

\* Mutant: any rotation record of the new policy will do.
MayFollowAnyone(m) ==
  m.policy.root # material.policy.root =>
    \E q \in Policies : <<q, m.policy>> \in Rotations

\* A material with another root needs a rotation record from the policy in
\* force to its own.
MayFollow(m) ==
  m.policy.root # material.policy.root =>
    /\ <<water.policy, m.policy>> \in Rotations
    /\ m.policy.version = water.policy.version + 1

\* The mark of a material.
Mark(m, t) == [policy |-> m.policy, revocation |-> m.revocation, time |-> t]

-----------------------------------------------------------------------------
(* persist(): it ends in one of three ways.  A process that is killed on   *)
(* the way leaves the disk as one of the two failures does.                *)

\* Mutant: the directory is not synced.
SavedUnsynced(w) == file' = w /\ durable' = durable \union {w}

\* w is in the file, and stays there if the power fails.
Saved(w) == file' = w /\ durable' = {w}

\* An exception: before the rename, or after it.  f and d are the file and
\* what may survive when persist() is called.
Unsaved(w, f, d) ==
  \/ "write" \in Faults /\ file' = f /\ durable' = d
  \/ "sync" \in Faults /\ file' = w /\ durable' = d \union {w}

-----------------------------------------------------------------------------

\* Ghost: the constructor or update() returns.
Adopt(m) ==
  /\ adopted' = adopted \union {m.policy}
  /\ lists' = lists \union {m.revocation}
  /\ founder' = IF founder = None THEN m.policy ELSE founder

\* Mutant: the clock in the file is not compared.
AdmitsAnyTime(m) ==
  file # None => m.policy.root = file.policy.root /\ Supersedes(m, file)

\* What the constructor requires of an existing state file.
Admits(m) ==
  file # None =>
    /\ m.policy.root = file.policy.root
    /\ file.time <= clock
    /\ Supersedes(m, file)

\* The constructor.  Without a state file it needs initialize: true.
Boot(m) ==
  /\ ~up /\ Valid(m) /\ Admits(m)
  /\ \/ /\ Saved(Mark(m, clock))
        /\ up' = TRUE /\ broken' = FALSE
        /\ material' = m /\ water' = Mark(m, clock)
        /\ Adopt(m) /\ passed' = clock /\ saved' = clock
     \/ /\ Unsaved(Mark(m, clock), file, durable)
        /\ UNCHANGED <<memory, ghosts>>
  /\ UNCHANGED clock

\* fresh(): what it checks.
Passes == clock >= water.time /\ ~broken /\ Unexpired(material, clock)

\* The mark it leaves in #water.
Marked == [water EXCEPT !.time = clock]

\* fresh(), for the timer of the host and for every call that delivers.
Fresh ==
  /\ up /\ UNCHANGED <<clock, up, material, adopted, lists, founder>>
  /\ \/ /\ ~Passes
        /\ broken' = (broken \/ clock < water.time)
        /\ UNCHANGED <<water, disk, passed, saved>>
     \/ /\ Passes /\ clock = water.time
        /\ passed' = clock /\ UNCHANGED <<water, broken, disk, saved>>
     \/ /\ Passes /\ clock > water.time
        /\ water' = Marked /\ UNCHANGED broken
        /\ \/ Saved(Marked) /\ passed' = clock /\ saved' = clock
           \/ Unsaved(Marked, file, durable) /\ UNCHANGED <<passed, saved>>

\* update() with a material that passes all checks; with any other one it is
\* fresh() and nothing else.  fresh() saves its mark first.
Update(m) ==
  LET moved == clock > water.time
      f == IF moved THEN Marked ELSE file
      d == IF moved THEN {Marked} ELSE durable
  IN  /\ up /\ Passes /\ Valid(m) /\ Supersedes(m, water) /\ MayFollow(m)
      /\ \/ /\ Saved(Mark(m, clock))
            /\ water' = Mark(m, clock) /\ material' = m
            /\ Adopt(m) /\ saved' = clock
         \/ /\ Unsaved(Mark(m, clock), f, d)
            /\ water' = Marked
            /\ saved' = IF moved THEN clock ELSE saved
            /\ UNCHANGED <<material, adopted, lists, founder>>
      /\ passed' = clock /\ UNCHANGED <<clock, up, broken>>

\* The object and what it knows is lost.
Gone ==
  /\ up' = FALSE /\ broken' = FALSE /\ material' = None /\ water' = None
  /\ UNCHANGED <<clock, ghosts>>

\* The process ends.
Exit == up /\ Gone /\ UNCHANGED disk

\* The machine stops, and only what was synced is certain to be there.
PowerLoss == Gone /\ \E w \in durable : file' = w /\ durable' = {w}

\* The clock runs, or is set.
SetClock == clock' \in Times /\ UNCHANGED <<memory, disk, ghosts>>

Next ==
  \/ \E m \in Material : Boot(m) \/ Update(m)
  \/ Fresh \/ Exit \/ PowerLoss \/ SetClock

Spec == Init /\ [][Next]_vars

-----------------------------------------------------------------------------

\* No rollback, across restarts, failed writes and losses of power: the cell
\* never works with a policy or a list older than one it adopted before, nor
\* with another one of the same version (constructor, update, persist).
NoRollback ==
  up => /\ \A p \in adopted : Succeeds(material.policy, p)
        /\ \A r \in lists : Succeeds(material.revocation, r)

\* The root key only changes by rotation: every policy adopted has the root of
\* the first one, or the root of a policy that a rotation record signed by
\* both roots makes the successor of an adopted one (update, constructor).
RootsAreChained ==
  \A p \in adopted :
    \/ p.root = founder.root
    \/ \E x \in Rotations : x[1] \in adopted /\ x[2].root = p.root

\* A time that was saved is not lost: what survives a crash carries it, and
\* so does the mark in memory (persist).
ClockIsRemembered ==
  /\ \A w \in durable \union {file} : w # None => w.time >= saved
  /\ up => water.time >= saved

\* Once a time has been saved, no check of the clock passes at an earlier one,
\* over any number of failed writes, restarts and losses of power (fresh,
\* constructor).
SavedTimesHold == [][passed' # passed => passed' >= saved]_vars

=============================================================================
