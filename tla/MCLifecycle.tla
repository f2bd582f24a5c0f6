----------------------------- MODULE MCLifecycle -----------------------------
(* Instances of Lifecycle for TLC. *)
EXTENDS Lifecycle

\* Instance 1 requires instance 2, which may be discovered later.
Pair == <<<<2>>, <<>>>>
\* Instances 1 and 2 require 3.
Shared == <<<<3>>, <<3>>, <<>>>>
\* A single instance.
Alone == <<<<>>>>

=============================================================================
