------------------------------ MODULE MCTrust ------------------------------
(* An instance of Packages, and with it of Trust, for TLC. *)
EXTENDS Packages, TLC

Policy(v, r, t, i, e, age) ==
  [version |-> v, root |-> r, text |-> t, issued |-> i, expires |-> e,
   age |-> age]
List(v, r, t, i, e) ==
  [version |-> v, root |-> r, text |-> t, issued |-> i, expires |-> e]

\* The root "a" issues a version 1 and two documents called version 2; "b"
\* issues a version 3 with a rotation record from one of these two.
First == Policy(1, "a", "first", 0, 3, 3)
Second == Policy(2, "a", "second", 0, 3, 1)
Other == Policy(2, "a", "other", 0, 3, 3)
Turned == Policy(3, "b", "turned", 1, 3, 2)
SomePolicies == {First, Second, Other, Turned}
SomeRotations == {<<Other, Turned>>}
SomeLists ==
  {List(1, "a", "none", 0, 3), List(2, "a", "some", 1, 3),
   List(2, "b", "some", 1, 3)}

\* One file, the manifest and entry point, in two versions; two index texts,
\* of which the profile pins one; every bundle of two artifacts, signed by a
\* key that is revoked later and by one the policies know only at first.
File == "plugin"
Entry(p, c) == [path |-> p, content |-> c]
SomeIndexes == [t \in {"index1", "index2"} |->
  [id |-> "plugin", manifest |-> File,
   files |-> <<Entry(File, IF t = "index1" THEN "code1" ELSE "code2")>>]]
SomeManifests == [c \in {"code1", "code2"} |->
  [id |-> "plugin", publisher |-> "p", entrypoint |-> File,
   descriptors |-> {Entry(File, c)}]]
SomeSizes == [c \in {"code1", "code2"} |-> 1]
Profile == {[id |-> "plugin", package |-> SomeIndexes["index1"]]}
Artifacts == [path : {File}, content : {"code1", "code2"}]
               \union [path : {"index"}, content : {"index1", "index2"}]
Bundles == {[artifacts |-> <<x, y>>, profile |-> Profile] :
              x \in Artifacts, y \in Artifacts}
SomeSigned == {"k", "l"} \X Bundles
SomeKeys == [q \in SomePolicies |->
  {<<"p", "k">>} \union IF q = First THEN {<<"p", "l">>} ELSE {}]
SomeRevoked == [r \in SomeLists |->
  [keys |-> IF r.text = "some" THEN {"k"} ELSE {}, packages |-> {}]]
SomeSubmissions ==
  [files : {File :> "code1", File :> "code2"}, index : {"index1", "index2"},
   bundle : Bundles, profile : {Profile}, signer : {"k", "l"}]

=============================================================================
