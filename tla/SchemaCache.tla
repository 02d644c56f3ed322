---------------------------- MODULE SchemaCache ----------------------------
(* The schema cache of the extension (SchemaCache) over the store of bulk  *)
(* data in which it keeps the last schema it has seen.  Callers ask for    *)
(* the schema, at times for a new one; the generation watcher and changes  *)
(* of the server invalidate the cache; the server's schema changes and the *)
(* server goes down and up.  Schemas are numbered as they replace each     *)
(* other.                                                                  *)
EXTENDS BulkState

CONSTANTS
    Requests,   \* requests for the schema that may be under way
    Schemas,    \* numbers of the server's schemas
    SchemaKey   \* persistKey

Request == [by : {"fetch", "revalidate"}, answer : Schemas \cup {None}]

ASSUME SchemaCacheAssumption ==
    /\ Schemas \subseteq Nat /\ Schemas \subseteq Values /\ 0 \in Schemas
    /\ SchemaKey \in Keys
    /\ None \notin Requests \cup Request

VARIABLES
    schema,        \* the server's
    up,            \* does the server answer?
    memory,        \* _memory: the data, and whether it is younger than ttlMs
    fetchPromise,  \* _fetchPromise: the request it waits for
    revalidating,  \* _revalidating
    request        \* requests under way: who began it, and the answer

cached == <<memory, fetchPromise, revalidating, request>>
vars == <<schema, up, cached, bulk>>

TypeOK ==
    /\ BulkTypeOK
    /\ schema \in Schemas /\ up \in BOOLEAN
    /\ memory \in [data : Schemas, fresh : BOOLEAN] \cup {None}
    /\ fetchPromise \in Requests \cup {None}
    /\ revalidating \in BOOLEAN
    /\ request \in [Requests -> Request \cup {None}]

\* The extension starts with nothing in memory.
Forgets ==
    /\ memory' = None /\ fetchPromise' = None /\ revalidating' = FALSE
    /\ request' = [r \in Requests |-> None]

Init ==
    /\ BulkInit
    /\ schema = 0 /\ up = TRUE
    /\ memory = None /\ fetchPromise = None /\ revalidating = FALSE
    /\ request = [r \in Requests |-> None]

----------------------------------------------------------------------------
(* The cache.                                                              *)

Sends(r, by) ==
    /\ request[r] = None
    /\ request' = [request EXCEPT ![r] = [by |-> by, answer |-> None]]

\* _fetch()
Fetch ==
    \E r \in Requests :
        Sends(r, "fetch") /\ fetchPromise' = r


\* _revalidate(), unless one is under way.
Revalidate ==
    IF revalidating THEN UNCHANGED <<request, revalidating>>
    ELSE \E r \in Requests : Sends(r, "revalidate") /\ revalidating' = TRUE

\* getSchemaMetadata() when memory is of no use and no fetch is awaited: the
\* persisted schema is returned and revalidated, or there is none.
Get ==
    /\ memory # None => ~memory.fresh
    /\ fetchPromise = None
    /\ Loads(SchemaKey)
    /\ IF Seen(SchemaKey) # None
       THEN Revalidate /\ UNCHANGED <<memory, fetchPromise>>
       ELSE Fetch /\ UNCHANGED <<memory, revalidating>>
    /\ UNCHANGED <<schema, up, file, writes, migration, touched>>

\* getSchemaMetadata(true) and prewarm(): what is awaited is forgotten.
ForceRefresh ==
    /\ memory' = None
    /\ Fetch
    /\ UNCHANGED <<revalidating, schema, up, bulk>>

\* invalidate()
Invalidate ==
    /\ memory' = None /\ fetchPromise' = None
    /\ UNCHANGED <<revalidating, request, schema, up, bulk>>

\* ttlMs pass.
Expire ==
    /\ memory # None /\ memory.fresh
    /\ memory' = [memory EXCEPT !.fresh = FALSE]
    /\ UNCHANGED <<fetchPromise, revalidating, request, schema, up, bulk>>

\* The server answers.
Answer(r) ==
    /\ up /\ request[r] # None /\ request[r].answer = None
    /\ request' = [request EXCEPT ![r].answer = schema]
    /\ UNCHANGED <<memory, fetchPromise, revalidating, schema, up, bulk>>

\* Faulty variant: a failure leaves the promise.
SettlesKeepsPromise(r, hasFailed) ==
    /\ request' = [request EXCEPT ![r] = None]
    /\ fetchPromise' = IF request[r].by = "fetch" /\ ~hasFailed THEN None ELSE fetchPromise
    /\ revalidating' = (revalidating /\ request[r].by # "revalidate")

\* The end of a request clears what its beginner has set, whichever request
\* that is for by now.
Settles(r, hasFailed) ==
    /\ request' = [request EXCEPT ![r] = None]
    /\ fetchPromise' = IF request[r].by = "fetch" THEN None ELSE fetchPromise
    /\ revalidating' = (revalidating /\ request[r].by # "revalidate")

\* An answer arrives: it is the memory and is persisted, however old.
Resolve(r) ==
    /\ request[r] # None /\ request[r].answer # None
    /\ memory' = [data |-> request[r].answer, fresh |-> TRUE]
    /\ Settles(r, FALSE)
    /\ Updates(SchemaKey, request[r].answer, FALSE)
    /\ touched' = touched \cup {SchemaKey}
    /\ UNCHANGED <<schema, up, file, migration>>

\* The request fails or takes longer than FETCH_SAFETY_TIMEOUT_MS, which it
\* does only if the server goes away.
Reject(r) ==
    /\ request[r] # None /\ ~up
    /\ Settles(r, TRUE)
    /\ UNCHANGED <<memory, schema, up, bulk>>

----------------------------------------------------------------------------
(* Its surroundings.                                                       *)

ServerChanges ==
    /\ \/ schema + 1 \in Schemas /\ schema' = schema + 1 /\ UNCHANGED up
       \/ up' = ~up /\ UNCHANGED schema
    /\ UNCHANGED <<cached, bulk>>

\* The window is closed or reloaded.
Restart ==
    /\ Forgets
    /\ Activates(ws, migrated)
    /\ UNCHANGED <<schema, up, ws, migrated, file, touched>>

Store == BulkStep /\ UNCHANGED <<schema, up, cached>>

Next ==
    \/ Get \/ ForceRefresh \/ Invalidate \/ Expire
    \/ \E r \in Requests : Answer(r) \/ Resolve(r) \/ Reject(r)
    \/ ServerChanges \/ Restart \/ Store

Spec == Init /\ [][Next]_vars

FairSpec ==
    /\ Spec
    /\ WF_vars(Get) /\ WF_vars(Expire)
    /\ \A r \in Requests : WF_vars(Answer(r)) /\ WF_vars(Resolve(r)) /\ WF_vars(Reject(r))
    /\ WF_vars(Store)

----------------------------------------------------------------------------
(* Properties.                                                             *)

\* Whatever is forced or invalidated, a caller never waits for a request that
\* is over, and the flag is set exactly while a revalidation is out.
AwaitsWhatIsOut ==
    /\ fetchPromise # None => request[fetchPromise] # None
    /\ revalidating = (\E r \in Requests : request[r] # None /\ request[r].by = "revalidate")

\* Answers to requests of before a change or an invalidation may arrive after
\* newer ones, and are kept: but if the server stays up and the window open,
\* memory and what is kept for the next session come to be its last schema.
CatchesUp ==
    <>[]up /\ <>[][~Restart]_vars =>
        <>[](/\ memory # None => memory.data = schema
             /\ cache[SchemaKey] = schema)
=============================================================================
