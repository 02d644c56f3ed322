------------------------- MODULE SchemaCacheProofs -------------------------
(* Theorems about the schema cache and the store of bulk data beneath it:  *)
(* for any number of heavy keys, values, requests and writes.              *)
EXTENDS SchemaCache, TLAPS

(* What holds of the store at every step.  A write the move has begun is   *)
(* the only one of its kind, and workspaceState still has its value.       *)
Mover(n) == writes[n] # None /\ writes[n].mover
MovesOne ==
    /\ \A n \in 1..MaxWrites : Mover(n) =>
          /\ moving.at = "writing" /\ writes[n].key = moving.key
          /\ writes[n].value = Original[writes[n].key]
    /\ \A n, m \in 1..MaxWrites : Mover(n) /\ Mover(m) => n = m

(* Any other write is an update, which its key remembers; the file of a    *)
(* key nobody has updated is empty while it is written.                    *)
WritesAccounted ==
    \A n \in 1..MaxWrites : writes[n] # None =>
        /\ writes[n].mover \/ writes[n].key \in touched
        /\ writes[n].key \in loaded
        /\ writes[n].open /\ writes[n].key \notin touched => file[writes[n].key] = Empty

(* workspaceState has the first values or has forgotten them, which it does *)
(* once they are in their files.                                           *)
ForgetsWhatIsMoved ==
    /\ \A k \in Keys :
          /\ ws[k] \in {Original[k], None}
          /\ entries[k] \in {ws[k], None}
          /\ moving.at = "next" /\ entries[k] = None => ws[k] = None
          /\ moving.at \in {"writing", "written"} /\ entries[k] = None /\ k # moving.key
                => ws[k] = None
          /\ k \notin touched /\ ws[k] = None => Parsed(k) = Original[k]
    /\ moving.at \in {"writing", "written"} =>
          /\ moving.key \in Keys /\ ws[moving.key] # None /\ entries[moving.key] = None
    /\ moving.at = "written" /\ moving.key \notin touched
          => file[moving.key] = Original[moving.key]
    /\ migrated => \A k \in Keys : ws[k] = None

(* The cache of a key nobody has updated is its first value, or is yet to  *)
(* be loaded from a file nobody writes.                                    *)
CacheFaithful ==
    \A k \in Keys :
        /\ entries[k] # None => k \in loaded
        /\ k \in loaded /\ k \notin touched => cache[k] = Original[k]
        /\ k \notin loaded => cache[k] = None /\ (k \notin touched => Parsed(k) = Original[k])

BulkInv == BulkTypeOK /\ MovesOne /\ WritesAccounted /\ ForgetsWhatIsMoved /\ CacheFaithful

----------------------------------------------------------------------------
(* The values of workspaceState and of the first activation.               *)
LEMMA InitBulk == BulkInit => BulkInv
<1> SUFFICES ASSUME BulkInit PROVE BulkInv
  OBVIOUS
<1> USE BulkStateAssumption DEF BulkInit
<1>1. BulkTypeOK
  BY DEF BulkTypeOK, Stored
<1>2. MovesOne /\ WritesAccounted
  BY DEF MovesOne, Mover, WritesAccounted
<1>3. ForgetsWhatIsMoved
  BY DEF ForgetsWhatIsMoved, Parsed
<1>4. CacheFaithful
  BY DEF CacheFaithful, Parsed
<1> QED
  BY <1>1, <1>2, <1>3, <1>4 DEF BulkInv

(* What does not touch the store does not touch its invariant.             *)
LEMMA BulkUnchanged == BulkInv /\ UNCHANGED bulk => BulkInv'
BY DEF BulkInv, BulkTypeOK, MovesOne, Mover, WritesAccounted, ForgetsWhatIsMoved, CacheFaithful,
       Parsed, bulk, store, migration

(* Reading a key.                                                          *)
LEMMA BulkLoads ==
    ASSUME BulkInv, NEW k \in Keys, Loads(k), UNCHANGED <<file, writes, migration, touched>>
    PROVE  BulkInv'
<1> USE BulkStateAssumption DEF migration
<1>1. BulkTypeOK'
  BY DEF BulkInv, BulkTypeOK, Loads, Seen, Parsed, Stored
<1>2. MovesOne'
  BY DEF BulkInv, MovesOne, Mover
<1>3. WritesAccounted' /\ ForgetsWhatIsMoved'
  BY DEF BulkInv, WritesAccounted, ForgetsWhatIsMoved, Loads, Parsed
<1>4. CacheFaithful'
  BY DEF BulkInv, BulkTypeOK, CacheFaithful, Loads, Seen, Parsed
<1> QED
  BY <1>1, <1>2, <1>3, <1>4 DEF BulkInv

(* An update by a store.                                                   *)
LEMMA BulkUpdates ==
    ASSUME BulkInv, NEW k \in Keys, NEW v \in Values, Updates(k, v, FALSE),
           touched' = touched \cup {k}, UNCHANGED <<file, migration>>
    PROVE  BulkInv'
<1> USE BulkStateAssumption DEF migration
<1>1. BulkTypeOK'
  BY DEF BulkInv, BulkTypeOK, Updates, Stored, Write
<1>2. MovesOne'
  BY DEF BulkInv, BulkTypeOK, MovesOne, Mover, Updates
<1>3. WritesAccounted' /\ ForgetsWhatIsMoved'
  BY DEF BulkInv, BulkTypeOK, WritesAccounted, ForgetsWhatIsMoved, Updates, Parsed
<1>4. CacheFaithful'
  BY DEF BulkInv, BulkTypeOK, CacheFaithful, Updates, Parsed
<1> QED
  BY <1>1, <1>2, <1>3, <1>4 DEF BulkInv

(* A new activation.                                                       *)
LEMMA BulkActivates ==
    ASSUME BulkInv, Activates(ws, migrated), UNCHANGED <<ws, migrated, file, touched>>
    PROVE  BulkInv'
<1> USE BulkStateAssumption
<1>1. BulkTypeOK'
  BY DEF BulkInv, BulkTypeOK, Activates, Stored
<1>2. MovesOne' /\ WritesAccounted'
  BY DEF BulkInv, MovesOne, Mover, WritesAccounted, Activates
<1>3. ForgetsWhatIsMoved'
  BY DEF BulkInv, BulkTypeOK, ForgetsWhatIsMoved, Activates, Parsed, Stored
<1>4. CacheFaithful'
  BY DEF BulkInv, BulkTypeOK, ForgetsWhatIsMoved, CacheFaithful, Activates, Parsed, Stored
<1> QED
  BY <1>1, <1>2, <1>3, <1>4 DEF BulkInv

(* A write that has opened its file.                                       *)
LEMMA WriteOpened ==
    ASSUME NEW w \in Write
    PROVE  LET opened == [w EXCEPT !.open = TRUE]
           IN  /\ opened \in Write
               /\ opened.key = w.key /\ opened.value = w.value /\ opened.mover = w.mover
               /\ opened.open
BY DEF Write

(* The steps of the store itself.                                          *)
LEMMA BulkSteps == BulkInv /\ BulkStep => BulkInv'
<1> USE BulkStateAssumption
<1> SUFFICES ASSUME BulkInv, BulkStep PROVE BulkInv'
  OBVIOUS
<1>1. CASE MoveNext
  <2>1. PICK k \in Keys :
           /\ entries[k] # None
           /\ Updates(k, entries[k], TRUE)
           /\ entries' = [entries EXCEPT ![k] = None]
           /\ moving' = [at |-> "writing", key |-> k]
    BY <1>1 DEF MoveNext
  <2>2. entries[k] = ws[k] /\ ws[k] = Original[k] /\ ws[k] \in Values
    BY <2>1 DEF BulkInv, BulkTypeOK, ForgetsWhatIsMoved, Stored
  <2> USE <1>1, <2>1, <2>2 DEF MoveNext
  <2>3. BulkTypeOK'
    BY DEF BulkInv, BulkTypeOK, Updates, Stored, Write
  <2>4. MovesOne'
    BY DEF BulkInv, BulkTypeOK, MovesOne, Mover, Updates
  <2>5. WritesAccounted'
    BY DEF BulkInv, BulkTypeOK, WritesAccounted, Updates
  <2>6. ForgetsWhatIsMoved'
    BY DEF BulkInv, BulkTypeOK, ForgetsWhatIsMoved, Updates, Parsed
  <2>7. CacheFaithful'
    BY DEF BulkInv, BulkTypeOK, CacheFaithful, Updates, Parsed
  <2> QED
    BY <2>3, <2>4, <2>5, <2>6, <2>7 DEF BulkInv
<1>2. CASE Moved
  <2> USE <1>2 DEF Moved, store
  <2>1. BulkTypeOK' /\ MovesOne' /\ WritesAccounted' /\ CacheFaithful'
    BY DEF BulkInv, BulkTypeOK, MovesOne, Mover, WritesAccounted, CacheFaithful, Parsed, Stored
  <2>2. ForgetsWhatIsMoved'
    BY DEF BulkInv, BulkTypeOK, ForgetsWhatIsMoved, Parsed, Stored
  <2> QED
    BY <2>1, <2>2 DEF BulkInv
<1>3. CASE AllMoved
  <2> USE <1>3 DEF AllMoved, store
  <2>1. BulkTypeOK' /\ MovesOne' /\ WritesAccounted' /\ CacheFaithful'
    BY DEF BulkInv, BulkTypeOK, MovesOne, Mover, WritesAccounted, CacheFaithful, Parsed
  <2>2. ForgetsWhatIsMoved'
    BY DEF BulkInv, BulkTypeOK, ForgetsWhatIsMoved, Parsed
  <2> QED
    BY <2>1, <2>2 DEF BulkInv
<1>4. ASSUME NEW n \in 1..MaxWrites, OpenWrite(n) PROVE BulkInv'
  <2> DEFINE w == writes[n]
             opened == [w EXCEPT !.open = TRUE]
  <2>1. w # None /\ w \in Write
    BY <1>4 DEF OpenWrite, BulkInv, BulkTypeOK
  <2>2. w.key \in Keys /\ w.value \in Values /\ w.mover \in BOOLEAN
    BY <2>1 DEF Write
  <2>4. /\ writes' = [writes EXCEPT ![n] = opened]
        /\ file' = [file EXCEPT ![w.key] = Empty]
        /\ UNCHANGED <<cache, loaded, ws, migrated, entries, moving, touched>>
    BY <1>4 DEF OpenWrite, migration
  <2>5. /\ opened.key = w.key /\ opened.value = w.value /\ opened.mover = w.mover
        /\ opened.open /\ opened \in Write
    BY <2>1, WriteOpened
  <2>3. opened # None
    BY <2>5
  <2>6. w.key \notin touched => Mover(n) /\ moving.at = "writing" /\ w.key = moving.key
    BY <2>1 DEF BulkInv, MovesOne, Mover, WritesAccounted
  <2> HIDE DEF w, opened
  <2>7. BulkTypeOK'
    BY <2>2, <2>4, <2>5 DEF BulkInv, BulkTypeOK
  <2>8. /\ writes'[n] = opened
        /\ \A m \in 1..MaxWrites : m # n => writes'[m] = writes[m]
    BY <2>4 DEF BulkInv, BulkTypeOK
  <2>9. \A m \in 1..MaxWrites :
           writes'[m] # None =>
               /\ writes[m] # None /\ writes'[m].mover = writes[m].mover
               /\ writes'[m].key = writes[m].key /\ writes'[m].value = writes[m].value
    <3> SUFFICES ASSUME NEW m \in 1..MaxWrites, writes'[m] # None
                 PROVE  /\ writes[m] # None /\ writes'[m].mover = writes[m].mover
                        /\ writes'[m].key = writes[m].key /\ writes'[m].value = writes[m].value
      OBVIOUS
    <3>1. CASE m = n
      BY <2>1, <2>5, <2>8, <3>1 DEF w
    <3>2. CASE m # n
      BY <2>8, <3>2
    <3> QED
      BY <3>1, <3>2
  <2>10. MovesOne'
    BY <2>4, <2>9 DEF BulkInv, MovesOne, Mover
  <2>11. WritesAccounted'
    <3> SUFFICES ASSUME NEW m \in 1..MaxWrites, writes'[m] # None
                 PROVE  /\ writes'[m].mover \/ writes'[m].key \in touched
                        /\ writes'[m].key \in loaded
                        /\ writes'[m].open /\ writes'[m].key \notin touched
                              => file'[writes'[m].key] = Empty
      BY <2>4 DEF WritesAccounted
    <3>1. CASE m = n
      BY <2>1, <2>2, <2>4, <2>5, <2>8, <3>1 DEF BulkInv, BulkTypeOK, WritesAccounted, w
    <3>2. CASE m # n
      BY <2>4, <2>8, <3>2 DEF BulkInv, BulkTypeOK, WritesAccounted, Write
    <3> QED
      BY <3>1, <3>2
  <2>12. ForgetsWhatIsMoved'
    BY <2>2, <2>4, <2>6 DEF BulkInv, BulkTypeOK, ForgetsWhatIsMoved, Parsed
  <2>13. CacheFaithful'
    <3>1. w.key \in loaded
      BY <2>1 DEF BulkInv, WritesAccounted, w
    <3> QED
      BY <2>2, <2>4, <3>1 DEF BulkInv, BulkTypeOK, CacheFaithful, Parsed
  <2> QED
    BY <2>7, <2>10, <2>11, <2>12, <2>13 DEF BulkInv
<1>5. ASSUME NEW n \in 1..MaxWrites, EndWrite(n) PROVE BulkInv'
  <2> DEFINE w == writes[n]
  <2>1. w \in Write /\ w.open
    BY <1>5 DEF EndWrite, BulkInv, BulkTypeOK
  <2>2. w.key \in Keys /\ w.value \in Values
    BY <2>1 DEF Write
  <2>3. PICK c \in {w.value, Torn} : file' = [file EXCEPT ![w.key] = c]
    BY <1>5 DEF EndWrite
  <2>4. w.key \notin touched =>
           /\ w.mover /\ w.key = moving.key /\ w.value = Original[w.key]
           /\ file[w.key] = Empty
    BY <1>5, <2>1 DEF EndWrite, BulkInv, MovesOne, Mover, WritesAccounted
  <2>5. w.key \notin touched => file' = [file EXCEPT ![w.key] = Original[w.key]]
    BY <1>5, <2>4 DEF EndWrite
  <2>6. w.mover => moving.at = "writing" /\ w.key = moving.key /\ ws[moving.key] # None
                   /\ moving.key \in Keys
    BY <1>5 DEF EndWrite, BulkInv, MovesOne, Mover, ForgetsWhatIsMoved
  <2>7. /\ writes' = [writes EXCEPT ![n] = None]
        /\ moving' = IF ~w.mover THEN moving ELSE [moving EXCEPT !.at = "written"]
        /\ UNCHANGED <<cache, loaded, ws, migrated, entries, touched>>
    BY <1>5 DEF EndWrite, Tells
  <2> HIDE DEF w
  <2>8. BulkTypeOK'
    BY <2>1, <2>2, <2>3, <2>7 DEF BulkInv, BulkTypeOK, Stored, Write
  <2>a. /\ writes'[n] = None
        /\ \A m \in 1..MaxWrites : m # n => writes'[m] = writes[m]
    BY <2>7 DEF BulkInv, BulkTypeOK
  <2>b. w.mover => \A m \in 1..MaxWrites : ~Mover(m)'
    BY <1>5, <2>a DEF BulkInv, MovesOne, Mover, EndWrite, w
  <2>9. MovesOne'
    BY <2>7, <2>a, <2>b DEF BulkInv, MovesOne, Mover
  <2>10. WritesAccounted'
    <3> SUFFICES ASSUME NEW m \in 1..MaxWrites, writes'[m] # None
                 PROVE  /\ writes[m].mover \/ writes[m].key \in touched
                        /\ writes[m].key \in loaded
                        /\ writes[m].open /\ writes[m].key \notin touched
                              => file'[writes[m].key] = Empty
      BY <2>7, <2>a DEF WritesAccounted
    <3>1. m # n /\ writes[m] # None /\ writes[m] \in Write
      BY <2>a DEF BulkInv, BulkTypeOK
    <3>2. /\ writes[m].mover \/ writes[m].key \in touched
          /\ writes[m].key \in loaded
          /\ writes[m].open /\ writes[m].key \notin touched => file[writes[m].key] = Empty
      BY <3>1 DEF BulkInv, WritesAccounted
    <3>3. writes[m].key \notin touched => writes[m].key # w.key
      BY <1>5, <2>4, <3>1, <3>2 DEF BulkInv, MovesOne, Mover, EndWrite, w
    <3> QED
      BY <2>2, <2>3, <3>1, <3>2, <3>3 DEF BulkInv, BulkTypeOK, Write
  <2> HIDE DEF w
  <2>11. ForgetsWhatIsMoved'
    BY <2>2, <2>3, <2>4, <2>5, <2>6, <2>7 DEF BulkInv, BulkTypeOK, ForgetsWhatIsMoved, Parsed
  <2>12. CacheFaithful'
    BY <1>5, <2>2, <2>3, <2>7 DEF BulkInv, BulkTypeOK, CacheFaithful, WritesAccounted, Parsed,
       EndWrite, w
  <2> QED
    BY <2>8, <2>9, <2>10, <2>11, <2>12 DEF BulkInv
<1>6. ASSUME NEW n \in 1..MaxWrites, FailWrite(n) PROVE BulkInv'
  <2> USE <1>6 DEF FailWrite, Tells
  <2>1. BulkTypeOK'
    BY DEF BulkInv, BulkTypeOK, Write
  <2>2. MovesOne' /\ WritesAccounted'
    BY DEF BulkInv, BulkTypeOK, MovesOne, Mover, WritesAccounted
  <2>3. ForgetsWhatIsMoved' /\ CacheFaithful'
    BY DEF BulkInv, BulkTypeOK, ForgetsWhatIsMoved, CacheFaithful, Parsed
  <2> QED
    BY <2>1, <2>2, <2>3 DEF BulkInv
<1> QED
  BY <1>1, <1>2, <1>3, <1>4, <1>5, <1>6 DEF BulkStep

----------------------------------------------------------------------------
(* What holds of the requests at every step: the promise is that of a      *)
(* fetch that is out, and at most one revalidation is out.                 *)
Revalidation(r) == request[r] # None /\ request[r].by = "revalidate"
AwaitsOne ==
    /\ fetchPromise # None => /\ fetchPromise \in Requests
                              /\ request[fetchPromise] # None
                              /\ request[fetchPromise].by = "fetch"
    /\ \A r \in Requests : Revalidation(r) => revalidating
    /\ revalidating => \E r \in Requests : Revalidation(r)
    /\ \A q, r \in Requests : Revalidation(q) /\ Revalidation(r) => q = r

CacheTypeOK ==
    /\ schema \in Schemas /\ up \in BOOLEAN
    /\ memory \in [data : Schemas, fresh : BOOLEAN] \cup {None}
    /\ fetchPromise \in Requests \cup {None}
    /\ revalidating \in BOOLEAN
    /\ request \in [Requests -> Request \cup {None}]

IInv == CacheTypeOK /\ AwaitsOne /\ BulkInv

LEMMA InitIInv == Init => IInv
<1> SUFFICES ASSUME Init PROVE IInv
  OBVIOUS
<1>1. CacheTypeOK
  BY SchemaCacheAssumption DEF Init, CacheTypeOK
<1>2. AwaitsOne
  BY DEF Init, AwaitsOne, Revalidation
<1>3. BulkInv
  BY InitBulk DEF Init
<1> QED
  BY <1>1, <1>2, <1>3 DEF IInv

(* A request begins: a fetch replaces the promise, a revalidation is the   *)
(* only one.                                                               *)
LEMMA FetchKeeps ==
    ASSUME CacheTypeOK, AwaitsOne, Fetch, UNCHANGED revalidating
    PROVE  /\ AwaitsOne' /\ fetchPromise' \in Requests \cup {None}
           /\ request' \in [Requests -> Request \cup {None}]
<1>1. PICK r \in Requests : Sends(r, "fetch") /\ fetchPromise' = r
  BY DEF Fetch
<1>2. [by |-> "fetch", answer |-> None] \in Request
  BY DEF Request
<1> QED
  BY <1>1, <1>2, SchemaCacheAssumption DEF CacheTypeOK, AwaitsOne, Revalidation, Sends, Request

LEMMA RevalidateKeeps ==
    ASSUME CacheTypeOK, AwaitsOne, Revalidate, UNCHANGED fetchPromise
    PROVE  /\ AwaitsOne' /\ revalidating' \in BOOLEAN
           /\ request' \in [Requests -> Request \cup {None}]
<1>1. CASE revalidating
  BY <1>1 DEF Revalidate, CacheTypeOK, AwaitsOne, Revalidation
<1>2. CASE ~revalidating
  <2>1. PICK r \in Requests : Sends(r, "revalidate") /\ revalidating' = TRUE
    BY <1>2 DEF Revalidate
  <2>2. [by |-> "revalidate", answer |-> None] \in Request
    BY DEF Request
  <2> QED
    BY <1>2, <2>1, <2>2, SchemaCacheAssumption
    DEF CacheTypeOK, AwaitsOne, Revalidation, Sends, Request
<1> QED
  BY <1>1, <1>2

LEMMA SettlesKeeps ==
    ASSUME CacheTypeOK, AwaitsOne, NEW r \in Requests, request[r] # None,
           NEW hasFailed \in BOOLEAN, Settles(r, hasFailed)
    PROVE  /\ AwaitsOne' /\ fetchPromise' \in Requests \cup {None}
           /\ revalidating' \in BOOLEAN
           /\ request' \in [Requests -> Request \cup {None}]
BY SchemaCacheAssumption DEF CacheTypeOK, AwaitsOne, Revalidation, Settles, Request

LEMMA NextIInv == IInv /\ [Next]_vars => IInv'
<1> SUFFICES ASSUME IInv, [Next]_vars PROVE IInv'
  OBVIOUS
<1> USE SchemaCacheAssumption
<1>0. CacheTypeOK /\ AwaitsOne /\ BulkInv
  BY DEF IInv
<1>1. CASE Get
  <2>1. BulkInv'
    BY <1>0, <1>1, BulkLoads DEF Get
  <2>2. CASE Seen(SchemaKey) # None
    <3>1. Revalidate /\ UNCHANGED <<memory, fetchPromise, schema, up>>
      BY <1>1, <2>2 DEF Get
    <3> QED
      BY <1>0, <2>1, <3>1, RevalidateKeeps DEF IInv, CacheTypeOK
  <2>3. CASE Seen(SchemaKey) = None
    <3>1. Fetch /\ UNCHANGED <<memory, revalidating, schema, up>>
      BY <1>1, <2>3 DEF Get
    <3> QED
      BY <1>0, <2>1, <3>1, FetchKeeps DEF IInv, CacheTypeOK
  <2> QED
    BY <2>2, <2>3
<1>2. CASE ForceRefresh
  <2>1. BulkInv'
    BY <1>0, <1>2, BulkUnchanged DEF ForceRefresh
  <2> QED
    BY <1>0, <1>2, <2>1, FetchKeeps DEF ForceRefresh, IInv, CacheTypeOK
<1>3. CASE Invalidate
  <2>1. BulkInv'
    BY <1>0, <1>3, BulkUnchanged DEF Invalidate
  <2> QED
    BY <1>0, <1>3, <2>1 DEF Invalidate, IInv, CacheTypeOK, AwaitsOne, Revalidation
<1>4. CASE Expire
  <2>1. BulkInv'
    BY <1>0, <1>4, BulkUnchanged DEF Expire
  <2> QED
    BY <1>0, <1>4, <2>1 DEF Expire, IInv, CacheTypeOK, AwaitsOne, Revalidation
<1>5. ASSUME NEW r \in Requests, Answer(r) PROVE IInv'
  <2>1. BulkInv'
    BY <1>0, <1>5, BulkUnchanged DEF Answer
  <2>2. request[r] \in Request
    BY <1>0, <1>5 DEF Answer, CacheTypeOK
  <2>3. /\ [request[r] EXCEPT !.answer = schema] \in Request
        /\ [request[r] EXCEPT !.answer = schema].by = request[r].by
        /\ [request[r] EXCEPT !.answer = schema] # None
    BY <1>0, <2>2 DEF CacheTypeOK, Request
  <2> DEFINE answered == [request[r] EXCEPT !.answer = schema]
  <2>4. request' = [request EXCEPT ![r] = answered]
    BY <1>5 DEF Answer
  <2> HIDE DEF answered
  <2>5. request' \in [Requests -> Request \cup {None}]
    BY <1>0, <2>3, <2>4 DEF CacheTypeOK, answered
  <2>6. \A q \in Requests : (request'[q] # None) = (request[q] # None)
                             /\ (request[q] # None => request'[q].by = request[q].by)
    BY <1>0, <1>5, <2>3, <2>4 DEF CacheTypeOK, Answer, answered
  <2>7. AwaitsOne'
    BY <1>0, <1>5, <2>6 DEF AwaitsOne, Revalidation, Answer
  <2> QED
    BY <1>0, <1>5, <2>1, <2>5, <2>7 DEF Answer, IInv, CacheTypeOK
<1>6. ASSUME NEW r \in Requests, Resolve(r) PROVE IInv'
  <2>1. request[r].answer \in Schemas
    BY <1>0, <1>6 DEF Resolve, CacheTypeOK, Request
  <2>2. BulkInv'
    BY <1>0, <1>6, <2>1, BulkUpdates DEF Resolve
  <2> QED
    BY <1>0, <1>6, <2>1, <2>2, SettlesKeeps DEF Resolve, IInv, CacheTypeOK
<1>7. ASSUME NEW r \in Requests, Reject(r) PROVE IInv'
  <2>1. BulkInv'
    BY <1>0, <1>7, BulkUnchanged DEF Reject
  <2> QED
    BY <1>0, <1>7, <2>1, SettlesKeeps DEF Reject, IInv, CacheTypeOK
<1>8. CASE ServerChanges
  <2>1. BulkInv'
    BY <1>0, <1>8, BulkUnchanged DEF ServerChanges
  <2> QED
    BY <1>0, <1>8, <2>1 DEF ServerChanges, cached, IInv, CacheTypeOK, AwaitsOne, Revalidation
<1>9. CASE Restart
  <2>1. BulkInv'
    BY <1>0, <1>9, BulkActivates DEF Restart
  <2> QED
    BY <1>0, <1>9, <2>1 DEF Restart, Forgets, IInv, CacheTypeOK, AwaitsOne, Revalidation
<1>10. CASE Store
  <2>1. BulkInv'
    BY <1>0, <1>10, BulkSteps DEF Store
  <2> QED
    BY <1>0, <1>10, <2>1 DEF Store, cached, IInv, CacheTypeOK, AwaitsOne, Revalidation
<1>11. CASE UNCHANGED vars
  <2>1. BulkInv'
    BY <1>0, <1>11, BulkUnchanged DEF vars
  <2> QED
    BY <1>0, <1>11, <2>1 DEF vars, cached, IInv, CacheTypeOK, AwaitsOne, Revalidation
<1> QED
  BY <1>1, <1>2, <1>3, <1>4, <1>5, <1>6, <1>7, <1>8, <1>9, <1>10, <1>11 DEF Next

LEMMA Invariance == Spec => []IInv
BY InitIInv, NextIInv, PTL DEF Spec

(* The cache, the store beneath it and the move keep their types.          *)
THEOREM TypeCorrect == Spec => []TypeOK
<1>1. IInv => TypeOK
  BY DEF IInv, CacheTypeOK, BulkInv, TypeOK
<1> QED
  BY <1>1, Invariance, PTL

(* However fetches are forced, invalidated and overtaken: nobody waits for *)
(* a request that is over (_fetchPromise), and _revalidating is set exactly *)
(* while a revalidation is out.                                            *)
THEOREM NobodyWaitsInVain == Spec => []AwaitsWhatIsOut
<1>1. IInv => AwaitsWhatIsOut
  BY DEF IInv, CacheTypeOK, AwaitsOne, AwaitsWhatIsOut, Revalidation
<1> QED
  BY <1>1, Invariance, PTL

(* Whatever the window is closed at and whichever writes fail, a value no  *)
(* store has replaced is whole in workspaceState or in its file            *)
(* (flushMigrationToDisk).                                                 *)
THEOREM NothingLost == Spec => []MoveLosesNothing
<1>1. IInv => MoveLosesNothing
  BY DEF IInv, BulkInv, BulkTypeOK, ForgetsWhatIsMoved, MoveLosesNothing
<1> QED
  BY <1>1, Invariance, PTL

(* And it is what the stores read, in every activation.                    *)
THEOREM NothingHidden == Spec => []MoveIsInvisible
<1>1. IInv => MoveIsInvisible
  BY DEF IInv, BulkInv, CacheFaithful, MoveIsInvisible, Seen
<1> QED
  BY <1>1, Invariance, PTL
=============================================================================
