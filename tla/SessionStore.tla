---------------------------- MODULE SessionStore ----------------------------
(***************************************************************************)
(* The session manager of internal/tui/session.go: sessions live in a cache *)
(* with room for a few, and a JSON file is rewritten, whole, with what the  *)
(* cache holds.  Several goroutines use it: all its operations hold the     *)
(* mutex but the reload of Get, which reads the file and enters what it has *)
(* read, entry by entry, between the steps of the others.  What a session   *)
(* holds is represented by its UpdatedAt: each change gives it a stamp      *)
(* nothing else has.                                                        *)
(***************************************************************************)
EXTENDS Naturals, FiniteSets

CONSTANTS
    Ids,        \* one for each session Create may make (uuid.New)
    Callers,    \* the goroutines that use the manager
    MaxHot,     \* maxHot, the size at which Create evicts
    MaxClock    \* bound: creations and changes in a behaviour

ASSUME SessionStoreAssumption ==
    /\ IsFiniteSet(Ids) /\ MaxHot \in Nat \ {0} /\ MaxClock \in Nat

Absent == 0
Stamps == 0 .. MaxClock
Contents == [Ids -> Stamps]
Nothing == [id \in Ids |-> Absent]

VARIABLES
    cache,    \* the sessions in memory
    dirty,    \* those whose entry says so; nothing but a reload clears it
    disk,     \* the sessions in the file
    fetches,  \* the Get of each caller: what loadFromDisk still has to enter
    running,  \* whether the process runs
    alarm,    \* whether the last step logged a save or load that failed
    born,     \* the ids given out
    clock,
    overtaken \* history: the sessions that the last save changed in the file
              \* while a reload, begun before, still had to enter them

vars == <<cache, dirty, disk, fetches, running, alarm, born, clock, overtaken>>

Hot == {id \in Ids : cache[id] # Absent}
Stored == {id \in Ids : disk[id] # Absent}
Resting == [left |-> {}, copy |-> Nothing]

-----------------------------------------------------------------------------
\* saveToDiskLocked: the file becomes the cache; or the write of the temporary
\* file or the rename fails, is logged, and the file stays what it was.
WrittenIfDirty(contents) == [id \in Ids |-> IF id \in dirty THEN contents[id] ELSE Absent]
Written(contents) == contents

Overtaking == {id \in Ids : \E c \in Callers :
                  id \in fetches[c].left /\ fetches[c].copy[id] # disk'[id]}

Save ==
    \/ disk' = Written(cache) /\ alarm' = FALSE /\ overtaken' = Overtaking
    \/ UNCHANGED <<disk, overtaken>> /\ alarm' = TRUE

NoSave == UNCHANGED <<disk, overtaken>> /\ alarm' = FALSE

\* The dirty flag a change sets.
Unmarked(id) == dirty
Marked(id) == dirty \cup {id}

\* An entry that is deleted takes its flag with it; those that loadFromDisk
\* makes are clean.
Clean(id) == dirty \ {id}

Init ==
    /\ cache = Nothing /\ dirty = {} /\ disk = Nothing
    /\ fetches = [c \in Callers |-> Resting]
    /\ running = TRUE /\ alarm = FALSE /\ born = {} /\ clock = 0
    /\ overtaken = {}

\* evictIfNeeded, then a new entry.  A full cache is saved, and the session
\* that was changed longest ago leaves it, saved or not.
Oldest == {id \in Hot : \A other \in Hot : cache[id] <= cache[other]}

Create(id) ==
    /\ running /\ id \notin born /\ clock < MaxClock
    /\ clock' = clock + 1 /\ born' = born \cup {id}
    /\ \/ /\ Cardinality(Hot) < MaxHot
          /\ cache' = [cache EXCEPT ![id] = clock']
          /\ dirty' = Marked(id)
          /\ NoSave
       \/ /\ Cardinality(Hot) >= MaxHot
          /\ Save
          /\ \E victim \in Oldest :
                /\ cache' = [cache EXCEPT ![victim] = Absent, ![id] = clock']
                /\ dirty' = Marked(id) \ {victim}
    /\ UNCHANGED <<fetches, running>>

\* AppendMessage, SetState and SetPlan; of a session not in the cache they are
\* errors that change nothing.
Update(id) ==
    /\ running /\ id \in Hot /\ clock < MaxClock
    /\ clock' = clock + 1
    /\ cache' = [cache EXCEPT ![id] = clock']
    /\ dirty' = Marked(id)
    /\ NoSave /\ UNCHANGED <<fetches, running, born>>

\* Delete leaves the file alone.
Delete(id) ==
    /\ running /\ id \in Hot
    /\ cache' = [cache EXCEPT ![id] = Absent]
    /\ dirty' = Clean(id)
    /\ NoSave /\ UNCHANGED <<fetches, running, born, clock>>

Close(id) ==
    /\ running /\ id \in Hot
    /\ IF id \in dirty THEN Save ELSE NoSave
    /\ cache' = [cache EXCEPT ![id] = Absent]
    /\ dirty' = Clean(id)
    /\ UNCHANGED <<fetches, running, born, clock>>

CloseAll ==
    /\ running
    /\ Save
    /\ cache' = Nothing /\ dirty' = {}
    /\ UNCHANGED <<fetches, running, born, clock>>

-----------------------------------------------------------------------------
\* Get of an id that is not in the cache, known or not, reads the file...
GetMiss(c) ==
    /\ running /\ Stored # {}
    /\ fetches' = [fetches EXCEPT ![c] = [left |-> Stored, copy |-> disk]]
    /\ NoSave /\ UNCHANGED <<cache, dirty, running, born, clock>>

\* ...and enters every session of the file into the cache, over the entry that
\* is there, without the lock: the runtime may also find two goroutines in the
\* map and end the process, which is Crash.
GetFill(c, id) ==
    /\ running /\ id \in fetches[c].left
    /\ fetches' = [fetches EXCEPT ![c] =
                      IF @.left = {id} THEN Resting
                      ELSE [left |-> @.left \ {id}, copy |-> @.copy]]
    /\ cache' = [cache EXCEPT ![id] = fetches[c].copy[id]]
    /\ dirty' = Clean(id)
    /\ NoSave /\ UNCHANGED <<running, born, clock>>

\* The process ends, at any moment, with or without CloseAll; while a file is
\* being written the old one stands until the rename.
Crash ==
    /\ running /\ running' = FALSE
    /\ cache' = Nothing /\ dirty' = {}
    /\ fetches' = [c \in Callers |-> Resting]
    /\ alarm' = FALSE /\ overtaken' = {}
    /\ UNCHANGED <<disk, born, clock>>

\* NewSessionManager: load the file; if it cannot be read, go on without it.
Start ==
    /\ ~running /\ running' = TRUE
    /\ \/ cache' = disk /\ alarm' = FALSE
       \/ UNCHANGED cache /\ alarm' = TRUE
    /\ UNCHANGED <<dirty, disk, fetches, born, clock, overtaken>>

Operation(c) ==
    \/ \E id \in Ids : Create(id) \/ Update(id) \/ Delete(id) \/ Close(id)
    \/ CloseAll \/ GetMiss(c)

Next ==
    \/ \E c \in Callers : fetches[c].left = {} /\ Operation(c)
    \/ \E c \in Callers, id \in Ids : GetFill(c, id)
    \/ Crash \/ Start

Spec == Init /\ [][Next]_vars

-----------------------------------------------------------------------------
TypeOK ==
    /\ cache \in Contents /\ disk \in Contents
    /\ dirty \subseteq Hot /\ born \subseteq Ids /\ overtaken \subseteq Ids
    /\ fetches \in [Callers -> [left : SUBSET Ids, copy : Contents]]
    /\ running \in BOOLEAN /\ alarm \in BOOLEAN /\ clock \in Stamps

\* Close drops a session that is not dirty without saving it: that is right only
\* if the file has what the entry holds.  It has, whatever several goroutines
\* change, save, evict, reload or fail to write, of every session but one that
\* was saved between the reading of the file by a reload and its entering it; and
\* of that one again when the next save has succeeded.
CleanIsOnDisk == \A id \in Hot \ dirty : id \in overtaken \/ disk[id] = cache[id]

\* What Close, CloseAll or an eviction takes out of the cache is in the file then,
\* as it was, unless the save of that very step is logged as failed; but for the
\* Close of an unchanged session that a save overtook.
ReleasedIsStored ==
    [][\A id \in Hot : cache'[id] = Absent =>
          \/ Delete(id) \/ ~running' \/ alarm'
          \/ id \in overtaken \ dirty
          \/ disk'[id] = cache[id]]_vars

\* The file never goes back to an older state of a session.  It does, when a
\* reload of one goroutine enters what a save of another has overtaken.
NeverOlder == [][\A id \in Ids : disk'[id] # Absent => disk'[id] >= disk[id]]_vars

\* A session that has been closed, so that only the file has it, stays there.  It
\* does not: a save writes the cache alone.
ClosedStaysStored == [][\A id \in Stored \ Hot : disk'[id] # Absent]_vars

\* The cache is kept to its size.  It is not: a reload enters the whole file, and
\* Create makes room for one.
CacheWithinSize == Cardinality(Hot) <= MaxHot
=============================================================================
