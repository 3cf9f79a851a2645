---------------------------- MODULE Collections ----------------------------
(***************************************************************************)
(* The Collections of one learning package (collections/api.py): sets of   *)
(* its entities that are soft-deleted by disabling them.  Titles and       *)
(* descriptions are left out; entities of other packages, which every call *)
(* refuses, do not occur.                                                  *)
(***************************************************************************)
EXTENDS ChangeLogs

CONSTANT CollectionKeys

VARIABLES
    collections,    \* Collection and CollectionPublishableEntity: key |-> [enabled, entities]
    modified        \* the collections whose modified date the last call set

collectionsVars == <<collections, modified>>

Collection == [enabled : BOOLEAN, entities : SUBSET Entities]

CollectionsInit == collections = << >> /\ modified = {}

\* get_collection: anything else raises DoesNotExist.
Exists(k) == k \in DOMAIN collections

\* collection.save(), with auto_now on modified.
SaveCollection(k, row) ==
    /\ collections' = [key \in DOMAIN collections \cup {k} |->
                          IF key = k THEN row ELSE collections[key]]
    /\ modified' = {k}

\* The key is unique, also among soft-deleted collections.
CreateCollection(k, enabled) ==
    ~ Exists(k) /\ SaveCollection(k, [enabled |-> enabled, entities |-> {}])

\* update_collection with a title or a description; without, nothing happens.
UpdateCollection(k) == Exists(k) /\ SaveCollection(k, collections[k])

DeleteCollection(k, hardDelete) ==
    /\ Exists(k)
    /\ IF hardDelete
         THEN /\ collections' = [key \in DOMAIN collections \ {k} |-> collections[key]]
              /\ modified' = {}
         ELSE SaveCollection(k, [collections[k] EXCEPT !.enabled = FALSE])

RestoreCollection(k) ==
    Exists(k) /\ SaveCollection(k, [collections[k] EXCEPT !.enabled = TRUE])

AddToCollection(k, E) ==
    Exists(k) /\ SaveCollection(k, [collections[k] EXCEPT !.entities = @ \cup E])

RemoveFromCollection(k, E) ==
    Exists(k) /\ SaveCollection(k, [collections[k] EXCEPT !.entities = @ \ E])

\* The collections that have e, soft-deleted ones included.
RelationsOf(e) == {k \in DOMAIN collections : e \in collections[k].entities}

\* Mutant: only the collections that e was added to.
Affected_OnlyNew(e, C) == C \ RelationsOf(e)

\* affected_collection: those e is removed from and those it is new in.
Affected(e, C) == (RelationsOf(e) \ C) \cup (C \ RelationsOf(e))

\* set_collections: e is in the collections C and no others.  Modified dates are
\* updated in bulk, past auto_now.
SetCollections(e, C) ==
    /\ C \subseteq DOMAIN collections
    /\ collections' = [k \in DOMAIN collections |->
          [collections[k] EXCEPT !.entities = IF k \in C THEN @ \cup {e} ELSE @ \ {e}]]
    /\ modified' = Affected(e, C)

CollectionsNext ==
    \/ \E k \in CollectionKeys :
         \/ \E enabled \in BOOLEAN : CreateCollection(k, enabled)
         \/ UpdateCollection(k)
         \/ \E hardDelete \in BOOLEAN : DeleteCollection(k, hardDelete)
         \/ RestoreCollection(k)
         \/ \E E \in SUBSET Entities : AddToCollection(k, E)
         \/ \E E \in SUBSET Entities : RemoveFromCollection(k, E)
    \/ \E e \in Entities, C \in SUBSET CollectionKeys : SetCollections(e, C)

CollectionsSpec == CollectionsInit /\ [][CollectionsNext]_collectionsVars

\* get_collections: the enabled ones, unless asked for others.
EnabledCollections == {k \in DOMAIN collections : collections[k].enabled}

\* get_entity_collections
EntityCollections(e) == RelationsOf(e) \cap EnabledCollections

-----------------------------------------------------------------------------
CollectionsTypeOK ==
    /\ DOMAIN collections \subseteq CollectionKeys
    /\ \A k \in DOMAIN collections : collections[k] \in Collection
    /\ modified \subseteq DOMAIN collections

\* Whoever follows the modified dates misses no change: a collection that appears,
\* is disabled or enabled, or gets or loses an entity in any call, soft-deleted
\* collections that set_collections takes an entity out of included, has its
\* date set.
ChangesAreDated ==
    [][\A k \in DOMAIN collections' :
          \/ Exists(k) /\ collections'[k] = collections[k]
          \/ k \in modified']_collectionsVars

=============================================================================
