------------------------------- MODULE Blobs ---------------------------------
(***************************************************************************)
(* The stores behind the BlobStore trait: one of the two of oxistore-blob  *)
(* in the process (BlobStores), or one of the three services (RemoteBlobs).*)
(***************************************************************************)
EXTENDS BlobStores, RemoteBlobs

VARIABLE remote   \* is the store a service

vars == <<remote, blobVars, remoteVars>>

\* The other one has a fixed state.
Init ==
    /\ remote \in BOOLEAN
    /\ BlobInit
    /\ RemoteInit
    /\ remote => backend = "memory" /\ \A k \in Key : map[k] = Absent
    /\ ~remote => service = "azure" /\ object = CHOOSE o \in Initial : TRUE

Next ==
    \/ remote /\ RemoteNext /\ UNCHANGED <<remote, blobVars>>
    \/ ~remote /\ BlobNext /\ UNCHANGED <<remote, remoteVars>>

Spec == Init /\ [][Next]_vars

-----------------------------------------------------------------------------
\* The stores are well formed, and the memory store's quota is exact.
BlobStateOK == BlobTypeOK /\ RemoteTypeOK /\ QuotaExact

\* A blob is never torn, a content-addressed one readable once acknowledged,
\* and one being renamed always under one of its names.
BlobsWhole == NeverTorn /\ CasReadable /\ RenameKeepsBlob

\* Listings are right on every store, put together from pages or not.
ListingsRight == ListingRight /\ PagesComplete

\* A client of a service is told an error only if there is a reason for it,
\* whatever was lost, retried or refused.
ErrorsHonest == NotFoundHonest /\ CompleteSucceeds /\ TokenOutlastsMargin
=============================================================================
