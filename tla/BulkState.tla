----------------------------- MODULE BulkState -----------------------------
(* The store of bulk data of the extension: values cached in memory and    *)
(* kept in a file for each key (DiskBackedMemento), into which the heavy   *)
(* keys of the older store, workspaceState, are moved (createBulkState,    *)
(* flushMigrationToDisk).  The window may be closed at any step.           *)
EXTENDS Integers, FiniteSets

CONSTANTS
    Keys,         \* HEAVY_KEYS
    Values,       \* what may be stored under them
    Original,     \* what workspaceState holds before the first activation
    MaxWrites,    \* bound: writes under way at a time
    None,         \* no value
    Empty, Torn   \* a file just emptied; one that holds no whole value

Write == [key : Keys, value : Values, open : BOOLEAN, mover : BOOLEAN]
Stored == Values \cup {None}

ASSUME BulkStateAssumption ==
    /\ Original \in [Keys -> Stored]
    /\ MaxWrites \in Nat \ {0}
    /\ None \notin Values \cup Write /\ Empty \notin Stored /\ Torn \notin Stored

VARIABLES
    ws,         \* the heavy keys in workspaceState
    migrated,   \* MIGRATION_DONE_KEY
    file,       \* the file of each key
    cache,      \* _cache
    loaded,     \* _loadedKeys
    writes,     \* writeFile() calls under way
    entries,    \* what flushMigrationToDisk() has still to move
    moving,     \* what it is at, and with which key
    touched     \* history: keys that were updated since the first activation

store == <<cache, loaded, file, writes>>
migration == <<ws, migrated, entries, moving>>
bulk == <<store, migration, touched>>

BulkTypeOK ==
    /\ ws \in [Keys -> Stored] /\ migrated \in BOOLEAN
    /\ file \in [Keys -> Stored \cup {Empty, Torn}]
    /\ cache \in [Keys -> Stored] /\ loaded \subseteq Keys
    /\ writes \in [1..MaxWrites -> Write \cup {None}]
    /\ entries \in [Keys -> Stored]
    /\ moving \in [at : {"next", "writing", "written", "over"}, key : Keys \cup {None}]
    /\ touched \subseteq Keys

----------------------------------------------------------------------------
(* DiskBackedMemento.                                                      *)

\* What a file gives when it is read: nothing unless it holds a whole value.
Parsed(k) == IF file[k] \in {Empty, Torn} THEN None ELSE file[k]

\* What get(k) returns: a key is loaded from its file at most once.
Seen(k) == IF cache[k] # None \/ k \in loaded THEN cache[k] ELSE Parsed(k)

\* get(k), as far as it changes something.
Loads(k) ==
    /\ cache' = [cache EXCEPT ![k] = Seen(k)]
    /\ loaded' = IF cache[k] = None THEN loaded \cup {k} ELSE loaded

\* update(k, v): the cache changes at once, the write only begins.
Updates(k, v, isMover) ==
    /\ cache' = [cache EXCEPT ![k] = v] /\ loaded' = loaded \cup {k}
    /\ \E n \in DOMAIN writes :
          /\ writes[n] = None /\ \A m \in 1 .. n - 1 : writes[m] # None
          /\ writes' = [writes EXCEPT ![n] =
                            [key |-> k, value |-> v, open |-> FALSE, mover |-> isMover]]

\* A write opens its file and empties it.
OpenWrite(n) ==
    /\ writes[n] # None /\ ~writes[n].open
    /\ writes' = [writes EXCEPT ![n].open = TRUE]
    /\ file' = [file EXCEPT ![writes[n].key] = Empty]
    /\ UNCHANGED <<cache, loaded, migration, touched>>

\* flushMigrationToDisk() hears of the end of its write, and stops if it has
\* failed.
Tells(w, hasFailed) ==
    moving' = IF ~w.mover THEN moving
              ELSE [moving EXCEPT !.at = IF hasFailed THEN "over" ELSE "written"]

\* A write puts its value into the file it has open: over another value that
\* was written meanwhile, the rest of which may be left.
EndWrite(n) ==
    LET w == writes[n]
    IN  /\ w # None /\ w.open
        /\ \E c \in IF file[w.key] \in {Empty, w.value} THEN {w.value} ELSE {w.value, Torn} :
              file' = [file EXCEPT ![w.key] = c]
        /\ writes' = [writes EXCEPT ![n] = None]
        /\ Tells(w, FALSE)
        /\ UNCHANGED <<cache, loaded, ws, migrated, entries, touched>>

\* A write fails, before or after it has emptied the file.
FailWrite(n) ==
    /\ writes[n] # None
    /\ writes' = [writes EXCEPT ![n] = None]
    /\ Tells(writes[n], TRUE)
    /\ UNCHANGED <<cache, loaded, file, ws, migrated, entries, touched>>

----------------------------------------------------------------------------
(* Moving the heavy keys.                                                  *)

\* Faulty variant: the stores find in the cache only what was moved.
ActivatesUnseeded(w, done) ==
    LET found == IF done THEN [k \in Keys |-> None] ELSE w
    IN  /\ cache' = [k \in Keys |-> None] /\ loaded' = {}
        /\ entries' = found
        /\ moving' = [at |-> IF done THEN "over" ELSE "next", key |-> None]
        /\ writes' = [n \in 1..MaxWrites |-> None]

\* Activation: unless all was moved, what workspaceState, w, still holds is put
\* into the cache, and will be moved.
Activates(w, done) ==
    LET found == IF done THEN [k \in Keys |-> None] ELSE w
    IN  /\ cache' = found /\ loaded' = {k \in Keys : found[k] # None}
        /\ entries' = found
        /\ moving' = [at |-> IF done THEN "over" ELSE "next", key |-> None]
        /\ writes' = [n \in 1..MaxWrites |-> None]

BulkInit ==
    /\ ws = Original /\ migrated = FALSE
    /\ file = [k \in Keys |-> None]
    /\ cache = Original /\ loaded = {k \in Keys : Original[k] # None}
    /\ writes = [n \in 1..MaxWrites |-> None]
    /\ entries = Original /\ moving = [at |-> "next", key |-> None]
    /\ touched = {}

\* Faulty variant: workspaceState is cleared when the write is begun.
MoveNextClearing ==
    /\ moving.at = "next"
    /\ \E k \in Keys :
          /\ entries[k] # None
          /\ Updates(k, entries[k], TRUE)
          /\ entries' = [entries EXCEPT ![k] = None]
          /\ ws' = [ws EXCEPT ![k] = None]
          /\ moving' = [at |-> "writing", key |-> k]
    /\ UNCHANGED <<file, migrated, touched>>

\* The next entry is written: whatever the cache held is replaced.
MoveNext ==
    /\ moving.at = "next"
    /\ \E k \in Keys :
          /\ entries[k] # None
          /\ Updates(k, entries[k], TRUE)
          /\ entries' = [entries EXCEPT ![k] = None]
          /\ moving' = [at |-> "writing", key |-> k]
    /\ UNCHANGED <<file, ws, migrated, touched>>

\* It is on disk, so workspaceState may forget it.
Moved ==
    /\ moving.at = "written"
    /\ ws' = [ws EXCEPT ![moving.key] = None]
    /\ moving' = [at |-> "next", key |-> None]
    /\ UNCHANGED <<store, migrated, entries, touched>>

\* All were written.
AllMoved ==
    /\ moving.at = "next" /\ \A k \in Keys : entries[k] = None
    /\ migrated' = TRUE /\ moving' = [moving EXCEPT !.at = "over"]
    /\ UNCHANGED <<store, ws, entries, touched>>

BulkStep ==
    \/ MoveNext \/ Moved \/ AllMoved
    \/ \E n \in 1..MaxWrites : OpenWrite(n) \/ EndWrite(n) \/ FailWrite(n)

----------------------------------------------------------------------------
(* Properties.                                                             *)

\* "A crash mid-flush cannot lose data from both stores": what no store has
\* replaced is whole in one of them at every step.
MoveLosesNothing ==
    \A k \in Keys \ touched : Original[k] # None => Original[k] \in {ws[k], Parsed(k)}

\* "Stores read from here": what was there before the move is what a store
\* reads, in this activation and in those after a crash, until it is replaced.
MoveIsInvisible == \A k \in Keys \ touched : Seen(k) = Original[k]
=============================================================================
