------------------------- MODULE ResourceSetAlgebra -------------------------
(***************************************************************************)
(* The subscription reconciliation of the delta xDS server:                *)
(* deltaWatchedResources in sail/pkg/xds/delta.go.  It folds the           *)
(* subscribe list, the keys of InitialResourceVersions and the             *)
(* unsubscribe list of one DeltaDiscoveryRequest into the set of names a   *)
(* connection watches for one type URL, and reports the wildcard and the   *)
(* changed flags.                                                          *)
(*                                                                         *)
(* Two forms are given: DeltaWatchedResourcesLoop follows the Go loops one *)
(* name at a time (sets.InsertContains / sets.DeleteContains), and         *)
(* DeltaWatchedResources is the closed set form the protocol model        *)
(* DeltaXds uses.  MCResourceSetAlgebra checks that they agree on every    *)
(* bounded input.                                                          *)
(***************************************************************************)
EXTENDS FiniteSets, SequencesExt

CONSTANTS
    Names,  \* resource names a client may put in a request
    Star    \* the literal name "*", the wildcard marker

ASSUME Star \notin Names

Word == Names \cup {Star}

\* One step of the subscribe (and InitialResourceVersions) loop:
\* res.InsertContains(r) reports whether r was already present; a novel
\* insert sets changed.
InsertStep(acc, r) == [names |-> acc.names \cup {r},
                       changed |-> acc.changed \/ r \notin acc.names]

\* Variant of DeleteStep that ignores DeleteContains's result.
DeleteStepNoChange(acc, r) == [names |-> acc.names \ {r}, changed |-> acc.changed]

\* One step of the unsubscribe loop: res.DeleteContains(r) reports whether
\* r was present; an actual removal sets changed.
DeleteStep(acc, r) == [names |-> acc.names \ {r},
                       changed |-> acc.changed \/ r \in acc.names]

\* Variant of DeltaWatchedResourcesLoop that keeps "*" in the name set.
DeltaWatchedResourcesLoopKeepStar(existing, sub, unsub, iv) ==
    LET afterSub == FoldLeft(InsertStep, [names |-> existing, changed |-> FALSE], sub)
        afterIv  == FoldSet(LAMBDA r, acc : InsertStep(acc, r), afterSub, iv)
        afterDel == FoldLeft(DeleteStep, afterIv, unsub)
    IN  [names    |-> afterDel.names,
         wildcard |-> Star \in afterDel.names \/ sub = <<>>,
         changed  |-> afterDel.changed]

\* deltaWatchedResources(existing, request), name by name.  existing = {}
\* stands for both a nil and an empty existing set.  sub and unsub are the
\* request's lists (sequences); iv is the key set of InitialResourceVersions,
\* a Go map whose iteration order is unspecified (FoldSet fixes none).
DeltaWatchedResourcesLoop(existing, sub, unsub, iv) ==
    LET afterSub == FoldLeft(InsertStep, [names |-> existing, changed |-> FALSE], sub)
        afterIv  == FoldSet(LAMBDA r, acc : InsertStep(acc, r), afterSub, iv)
        afterDel == FoldLeft(DeleteStep, afterIv, unsub)
    IN  [names    |-> afterDel.names \ {Star},
         wildcard |-> Star \in afterDel.names \/ sub = <<>>,
         changed  |-> afterDel.changed]

\* The same function over the sets of names a request carries (the protocol
\* model keeps requests as sets: duplicates and order inside one list do
\* not matter to the result, which MCResourceSetAlgebra checks).
DeltaWatchedResources(existing, sub, unsub, iv) ==
    LET inserted == existing \cup sub \cup iv
        kept     == inserted \ unsub
    IN  [names    |-> kept \ {Star},
         wildcard |-> Star \in kept \/ sub = {},
         changed  |-> ~((sub \cup iv) \subseteq existing)
                      \/ unsub \cap inserted # {}]
=============================================================================
