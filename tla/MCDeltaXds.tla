----------------------------- MODULE MCDeltaXds -----------------------------
(***************************************************************************)
(* Instantiation of DeltaXds for TLC: two watched types (CDS before EDS),  *)
(* two resource names, and the client behaviours each run enables.         *)
(***************************************************************************)
EXTENDS DeltaXds, TLC

MCTypeOrder == <<ClusterType, EndpointType>>

\* Resource names are interchangeable: Init gives every name to every type
\* and no action singles one out.
NameSymmetry == Permutations(Names)

\* Longest subscribe / unsubscribe list a client sends for one request.
MaxList == 2

\* The lists a client may send for a set of names: the names in any order,
\* duplicates included.
ListsOf(S) == {l \in SeqOf(S, MaxList) : ToSet(l) = S}

\* The request at the head of the stream is reconciled by the set form this
\* model applies exactly as the Go loops of deltaWatchedResources would
\* reconcile it, against the connection's current name set (nil before the
\* first request), for every order and duplication of its lists and every
\* InitialResourceVersions key set it might carry.
LoopAgreesWithSetForm ==
    c2s # <<>> /\ Head(c2s).type \in Types =>
        LET r        == Head(c2s)
            existing == IF wr[r.type] = NoWR THEN {} ELSE wr[r.type].names
        IN  \A sub \in ListsOf(r.sub), unsub \in ListsOf(r.unsub), iv \in SUBSET Names :
                DeltaWatchedResourcesLoop(existing, sub, unsub, iv)
                    = DeltaWatchedResources(existing, r.sub, r.unsub, iv)
=============================================================================
