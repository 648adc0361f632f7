------------------------------ MODULE StateStore ------------------------------
(***************************************************************************)
(* The dictionaries of src/state/store.py as values.  A bucket is one      *)
(* namespace, a function from the ids it holds to their objects.  A store  *)
(* is what put, delete, update and reset work on: data holds a bucket for  *)
(* every namespace that exists, and meta the ids that have a metadata      *)
(* entry, for every namespace that has a metadata dictionary.              *)
(***************************************************************************)

EmptyBucket == [id \in {} |-> id]

BucketPut(bucket, id, object) ==
    [x \in DOMAIN bucket \cup {id} |-> IF x = id THEN object ELSE bucket[x]]

BucketDelete(bucket, id) == [x \in DOMAIN bucket \ {id} |-> bucket[x]]

-----------------------------------------------------------------------------
EmptyStore == [data |-> EmptyBucket, meta |-> EmptyBucket]

Ids(store, ns) == IF ns \in DOMAIN store.data THEN DOMAIN store.data[ns] ELSE {}

Get(store, ns, id) == store.data[ns][id]

\* put creates both dictionaries of a namespace together, and looks for the
\* first only.
Opened(store, ns) ==
    IF ns \in DOMAIN store.data THEN store
    ELSE [data |-> BucketPut(store.data, ns, EmptyBucket),
          meta |-> BucketPut(store.meta, ns, {})]

Written(store, ns, id, object) ==
    [store EXCEPT !.data[ns] = BucketPut(store.data[ns], id, object)]

\* The object is stored before its metadata is: without a metadata dictionary
\* put raises a KeyError with the object already in place.
PutRaises(store, ns) == ns \notin DOMAIN Opened(store, ns).meta

Put(store, ns, id, object) ==
    LET written == Written(Opened(store, ns), ns, id, object) IN
    IF PutRaises(store, ns) THEN written
    ELSE [written EXCEPT !.meta[ns] = @ \cup {id}]

\* Mutant: the metadata is forgotten about.
DeleteDataOnly(store, ns, id) ==
    IF id \notin Ids(store, ns) THEN store
    ELSE [store EXCEPT !.data[ns] = BucketDelete(@, id)]

Delete(store, ns, id) ==
    IF id \notin Ids(store, ns) THEN store
    ELSE [data |-> [store.data EXCEPT ![ns] = BucketDelete(@, id)],
          meta |-> IF ns \in DOMAIN store.meta
                   THEN [store.meta EXCEPT ![ns] = @ \ {id}]
                   ELSE store.meta]

\* update returns None, and changes nothing, for an id it does not have.
Update(store, ns, id, object) ==
    IF id \in Ids(store, ns) THEN Written(store, ns, id, object) ELSE store

ResetNamespace(store, ns) == [data |-> BucketDelete(store.data, ns),
                              meta |-> BucketDelete(store.meta, ns)]

\* restore_from_disk replaces the data and leaves the metadata as they were.
Restored(store, data) == [store EXCEPT !.data = data]
=============================================================================
