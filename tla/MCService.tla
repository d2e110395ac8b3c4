------------------------------ MODULE MCService -------------------------------
(* The HTTP service over its store for TLC, on the instances of MCUnitIndex,  *)
(* MCSourceRefresh, MCSourceCollection and MCReferencePacks: the indexes of   *)
(* one unit, usage feedback and its review, the refresh of a source, the runs *)
(* that collect sources, and the packs built of what is stored.  A behaviour  *)
(* is about one of them; the others stay in their initial state.              *)
EXTENDS MCUnitIndex, FeedbackGovernance, MCSourceRefresh, MCSourceCollection, MCReferencePacks

VARIABLE part

ServiceInit ==
    /\ part \in {"unit", "feedback", "refresh", "collection", "packs"}
    /\ Init /\ FeedbackInit /\ RefreshInit /\ CollectionInit /\ PackInit
    /\ part # "unit" => opened = Features
    /\ part # "packs" => stored = {} /\ \A c \in DOMAIN ClaimOf : claim_book[c] = "absent"

ServiceNext ==
    /\ part' = part
    /\ \/ /\ part = "unit" /\ Next
          /\ UNCHANGED <<feedback_vars, refresh_vars, collection_vars, pack_vars>>
       \/ /\ part = "feedback" /\ FeedbackNext
          /\ UNCHANGED <<vars, refresh_vars, collection_vars, pack_vars>>
       \/ /\ part = "refresh" /\ RefreshNext
          /\ UNCHANGED <<vars, feedback_vars, collection_vars, pack_vars>>
       \/ /\ part = "collection" /\ CollectionNext
          /\ UNCHANGED <<vars, feedback_vars, refresh_vars, pack_vars>>
       \/ /\ part = "packs" /\ PackNext
          /\ UNCHANGED <<vars, feedback_vars, refresh_vars, collection_vars>>

ServiceSpec ==
    ServiceInit
    /\ [][ServiceNext]_<<part, vars, feedback_vars, refresh_vars, collection_vars, pack_vars>>

\* Every variable of each has its type.
ServiceTypeOK ==
    TypeOK /\ FeedbackTypeOK /\ RefreshTypeOK /\ CollectionTypeOK /\ PackTypeOK
=============================================================================
