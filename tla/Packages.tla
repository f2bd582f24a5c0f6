------------------------------ MODULE Packages ------------------------------
(***************************************************************************)
(* Package verification over the trust store: verifyPackage(), accepted()  *)
(* and signature() of packages/kernel/src/trust.ts.                        *)
(*                                                                         *)
(* A file, and the text of a package index, stands for its bytes and for   *)
(* their raw digest; a parsed document stands for its canonical digest.    *)
(* Documents that do not fit their schema have no parsed form.  A          *)
(* submission that is refused leaves what fresh() leaves.                  *)
(***************************************************************************)
EXTENDS Trust, Sequences, FiniteSets, FiniteSetsExt, Functions

CONSTANTS
  Index,        \* the path package-index.json
  IndexOf,      \* index texts and their parsed form
  ManifestOf,   \* files that are in-process manifests and their parsed form
  Size,         \* bytes of a file
  MaxFile,      \* 1048576
  MaxPackage,   \* 16777216
  Signed,       \* pairs of a key and a bundle it has signed
  Endorses,     \* per policy: publishers and their keys for in-process code
  Revokes,      \* per revocation list: its keys and its packages
  Submissions   \* what an operator may submit

ASSUME PackagesAssumption ==
  /\ DOMAIN Endorses = Policies /\ DOMAIN Revokes = Revocations
  /\ {MaxFile, MaxPackage} \subseteq Nat

\* What is submitted was parsed: an inventory is a list of paths and contents,
\* and there are finitely many files.
ASSUME SubmissionsAssumption ==
  LET Inventories == Seq([path : STRING, content : STRING])
  IN  \A s \in Submissions :
        /\ IndexOf[s.index].files \in Inventories
        /\ s.bundle.artifacts \in Inventories
        /\ IsFiniteSet(DOMAIN s.files)

VARIABLE package  \* the last package verified since the store was created

packageVars == <<vars, package>>

PackagesInit == Init /\ package = None

-----------------------------------------------------------------------------

\* unique() of the paths of an inventory.
Unique(inventory) ==
  \A j, k \in DOMAIN inventory : inventory[j].path = inventory[k].path => j = k

\* The profile the bundle was signed for pins this index.
Pinned(s) ==
  /\ s.profile = s.bundle.profile
  /\ \E x \in s.profile : x.id = IndexOf[s.index].id
                          /\ x.package = IndexOf[s.index]

\* The index lists the files, and nothing is too large.
Listed(s) ==
  LET list == IndexOf[s.index].files
  IN  /\ Unique(list) /\ \A x \in Range(list) : x.path # Index
      /\ Cardinality(DOMAIN s.files) = Len(list)
      /\ \A x \in Range(list) :
           x.path \in DOMAIN s.files /\ s.files[x.path] = x.content
                                     /\ Size[x.content] <= MaxFile
      /\ MapThenSumSet(LAMBDA f : Size[s.files[f]], DOMAIN s.files)
           <= MaxPackage

\* The artifacts of the bundle are in the package.
Matched(s) ==
  \A x \in Range(s.bundle.artifacts) :
    IF x.path = Index THEN x.content = s.index
    ELSE x.path \in DOMAIN s.files /\ s.files[x.path] = x.content

\* Mutant: only the number of artifacts is compared.
SealedByCount(s) ==
  Len(s.bundle.artifacts) = Len(IndexOf[s.index].files) + 1 /\ Matched(s)

\* The bundle has as many artifacts as there are files and one for the index,
\* no two for one path.
Sealed(s) ==
  /\ Unique(s.bundle.artifacts)
  /\ Len(s.bundle.artifacts) = Len(IndexOf[s.index].files) + 1
  /\ Matched(s)

\* The manifest is that of the package, its entry point and descriptors are in
\* it and have the digests it names.
Described(s) ==
  LET i == IndexOf[s.index]
      m == ManifestOf[s.files[i.manifest]]
  IN  /\ i.manifest \in DOMAIN s.files
      /\ s.files[i.manifest] \in DOMAIN ManifestOf
      /\ m.id = i.id /\ m.entrypoint \in DOMAIN s.files
      /\ \A d \in m.descriptors :
           d.path \in DOMAIN s.files /\ s.files[d.path] = d.content

\* What accepted() asks of a verified package beyond fresh().
Accepted(p) ==
  /\ p.signer \notin Revokes[material.revocation].keys
  /\ p.digest \notin Revokes[material.revocation].packages
  /\ <<p.publisher, p.signer>> \in Endorses[material.policy]

\* The VerifiedPackage of a submission; bundle is a ghost.
PackageOf(s) ==
  [digest |-> IndexOf[s.index], index |-> s.index, files |-> s.files,
   publisher |-> ManifestOf[s.files[IndexOf[s.index].manifest]].publisher,
   signer |-> s.signer, bundle |-> s.bundle]

\* signature(): the key that the submission names has signed the bundle.
Verified(s) == <<s.signer, s.bundle>> \in Signed

\* verifyPackage() returns: fresh() did not throw and the checks pass.
VerifyPackage(s) ==
  /\ Fresh /\ Passes /\ passed' = clock
  /\ Pinned(s) /\ Listed(s) /\ Sealed(s) /\ Described(s)
  /\ Accepted(PackageOf(s)) /\ Verified(s)
  /\ package' = PackageOf(s)

PackagesNext ==
  \/ Next /\ package' = IF up' THEN package ELSE None
  \/ \E s \in Submissions : VerifyPackage(s)

PackagesSpec == PackagesInit /\ [][PackagesNext]_packageVars

-----------------------------------------------------------------------------

\* A verified package is what its key signed, down to the last file: one
\* bundle of that key seals the text of the index and every file, although
\* verifyPackage() only looks the artifacts up in the package and compares
\* numbers.  The key is not in the latest revocation list the cell ever
\* adopted, whatever restarts and losses of power lie between.
VerifiedIsSigned ==
  [][package' # package /\ package' # None =>
       LET p == package'
           sealed == Range(p.bundle.artifacts)
       IN  /\ <<p.signer, p.bundle>> \in Signed
           /\ [path |-> Index, content |-> p.index] \in sealed
           /\ \A f \in DOMAIN p.files :
                [path |-> f, content |-> p.files[f]] \in sealed
           /\ \A r \in lists :
                (\A q \in lists : q.version <= r.version)
                  => p.signer \notin Revokes[r].keys]_packageVars

=============================================================================
