---------------------------- MODULE StateProofs -----------------------------
(***************************************************************************)
(* What the three stores of a session may rely on, for any sessions,       *)
(* skills and lists of messages: the session manager and its file, the     *)
(* skills that a watcher rereads, and the context that is compressed while *)
(* it is read.                                                             *)
(***************************************************************************)
EXTENDS SessionStore, SkillStore, ContextManager, SequenceTheorems,
        FiniteSetTheorems, WellFoundedInduction, TLAPS

\* A process that does not run has no memory.
NoMemory == ~running => cache = Nothing /\ dirty = {} /\ \A c \in Callers : fetches[c].left = {}

TInv == TypeOK /\ NoMemory

\* What a reload still has to enter was in the file it read, and is there as it
\* was read, unless a save has overtaken the reload.
FetchedOrOvertaken ==
    \A c \in Callers : \A id \in fetches[c].left :
        /\ fetches[c].copy[id] # Absent
        /\ id \in overtaken \/ fetches[c].copy[id] = disk[id]

\* What is in the cache, in the file or in the hands of a reload was created.
WasCreated == Hot \cup Stored \cup UNION {fetches[c].left : c \in Callers} \subseteq born

IInv == TInv /\ WasCreated /\ CleanIsOnDisk /\ FetchedOrOvertaken

-----------------------------------------------------------------------------
\* A new manager over no file.
THEOREM SessionInit == Init => IInv
<1> SUFFICES ASSUME Init PROVE IInv
  OBVIOUS
<1>1. Absent \in Stamps /\ Nothing \in Contents
  BY SessionStoreAssumption DEF Absent, Stamps, Nothing, Contents
<1>2. TypeOK /\ NoMemory
  BY <1>1 DEF Init, TypeOK, Resting, NoMemory, Stamps, Absent
<1>3. WasCreated /\ CleanIsOnDisk /\ FetchedOrOvertaken
  BY DEF Init, WasCreated, CleanIsOnDisk, FetchedOrOvertaken, Hot, Stored, Nothing, Resting
<1>4. QED
  BY <1>2, <1>3 DEF IInv, TInv

-----------------------------------------------------------------------------
\* A save makes the file the cache, or leaves it and logs.
LEMMA SaveType ==
  ASSUME TypeOK, Save
  PROVE  /\ disk' \in Contents /\ alarm' \in BOOLEAN /\ overtaken' \subseteq Ids
         /\ (disk' = cache /\ alarm' = FALSE) \/ (disk' = disk /\ alarm' = TRUE)
  BY DEF TypeOK, Save, Written, Overtaking

\* An entry of a reload takes one session off what is left, or ends the reload.
LEMMA FillLeaves ==
  ASSUME TypeOK, NEW c \in Callers, NEW id \in Ids, GetFill(c, id)
  PROVE  /\ fetches' \in [Callers -> [left : SUBSET Ids, copy : Contents]]
         /\ \A d \in Callers : /\ fetches'[d].left \subseteq fetches[d].left
                               /\ fetches'[d].left # {} => fetches'[d].copy = fetches[d].copy
<1> DEFINE rest == [left |-> fetches[c].left \ {id}, copy |-> fetches[c].copy]
           next == IF fetches[c].left = {id} THEN Resting ELSE rest
<1>1. fetches[c] \in [left : SUBSET Ids, copy : Contents]
  BY DEF TypeOK
<1>2. Resting \in [left : SUBSET Ids, copy : Contents] /\ Resting.left = {}
  BY SessionStoreAssumption DEF Resting, Nothing, Contents, Stamps, Absent
<1>3. /\ rest \in [left : SUBSET Ids, copy : Contents]
      /\ rest.left \subseteq fetches[c].left /\ rest.copy = fetches[c].copy
  BY <1>1
<1>4. fetches' = [fetches EXCEPT ![c] = next]
  BY DEF GetFill
<1> HIDE DEF rest
<1>5. /\ next \in [left : SUBSET Ids, copy : Contents] /\ next.left \subseteq fetches[c].left
      /\ next.left # {} => next.copy = fetches[c].copy
  BY <1>2, <1>3
<1> HIDE DEF next
<1>6. QED
  BY <1>4, <1>5 DEF TypeOK

\* Every step keeps the types, whatever several goroutines do at once.
LEMMA TypeStep == TInv /\ [Next]_vars => TInv'
<1> SUFFICES ASSUME TInv, [Next]_vars PROVE TInv'
  OBVIOUS
<1> USE DEF TInv
<1>0. Absent \in Stamps /\ Nothing \in Contents
  BY SessionStoreAssumption DEF Absent, Stamps, Nothing, Contents
<1>a. Cardinality(Hot) \in Nat
  <2>1. Hot \subseteq Ids
    BY DEF Hot
  <2>2. QED
    BY <2>1, SessionStoreAssumption, FS_Subset, FS_CardinalityType
<1>1. ASSUME clock < MaxClock, clock' = clock + 1 PROVE clock' \in Stamps /\ clock' # Absent
  BY <1>1, SessionStoreAssumption DEF TypeOK, Stamps, Absent
<1>2. ASSUME NEW id \in Ids, Create(id) PROVE TInv'
  <2>1. clock' \in Stamps /\ clock' # Absent
    BY <1>1, <1>2 DEF Create
  <2>2. CASE Cardinality(Hot) < MaxHot
    <3>1. /\ cache' = [cache EXCEPT ![id] = clock'] /\ dirty' = dirty \cup {id}
          /\ NoSave /\ UNCHANGED <<fetches, running>> /\ born' = born \cup {id} /\ running
      BY <1>a, <1>2, <2>2, SessionStoreAssumption DEF Create, Marked
    <3>2. cache' \in Contents /\ dirty' \subseteq Hot'
      BY <2>1, <3>1 DEF TypeOK, Contents, Hot
    <3>3. QED
      BY <2>1, <3>1, <3>2 DEF TypeOK, NoMemory, NoSave
  <2>3. CASE ~(Cardinality(Hot) < MaxHot)
    <3>1. /\ Save /\ UNCHANGED <<fetches, running>> /\ born' = born \cup {id} /\ running
      BY <1>2, <2>3 DEF Create
    <3>2. PICK victim \in Oldest :
             /\ cache' = [cache EXCEPT ![victim] = Absent, ![id] = clock']
             /\ dirty' = (dirty \cup {id}) \ {victim}
      BY <1>2, <2>3 DEF Create, Marked
    <3>3. cache' \in Contents /\ dirty' \subseteq Hot'
      BY <1>0, <2>1, <3>2 DEF TypeOK, Contents, Hot, Oldest
    <3>4. QED
      BY <2>1, <3>1, <3>3, SaveType DEF TypeOK, NoMemory
  <2>4. QED
    BY <2>2, <2>3
<1>3. ASSUME NEW id \in Ids, Update(id) PROVE TInv'
  <2>1. clock' \in Stamps /\ clock' # Absent
    BY <1>1, <1>3 DEF Update
  <2>2. cache' \in Contents /\ dirty' \subseteq Hot'
    BY <1>3, <2>1 DEF Update, Marked, TypeOK, Contents, Hot
  <2>3. QED
    BY <1>3, <2>1, <2>2 DEF Update, TypeOK, NoMemory, NoSave
<1>4. ASSUME NEW id \in Ids, Delete(id) PROVE TInv'
  <2>1. cache' \in Contents /\ dirty' \subseteq Hot'
    BY <1>0, <1>4 DEF Delete, Clean, TypeOK, Contents, Hot
  <2>2. QED
    BY <1>4, <2>1 DEF Delete, TypeOK, NoMemory, NoSave
<1>5. ASSUME NEW id \in Ids, Close(id) PROVE TInv'
  <2>1. cache' \in Contents /\ dirty' \subseteq Hot'
    BY <1>0, <1>5 DEF Close, Clean, TypeOK, Contents, Hot
  <2>2. disk' \in Contents /\ alarm' \in BOOLEAN /\ overtaken' \subseteq Ids
    BY <1>5, SaveType DEF Close, TypeOK, NoSave
  <2>3. QED
    BY <1>5, <2>1, <2>2 DEF Close, TypeOK, NoMemory
<1>6. CASE CloseAll
  BY <1>0, <1>6, SaveType DEF CloseAll, TypeOK, NoMemory
<1>7. ASSUME NEW c \in Callers, GetMiss(c) PROVE TInv'
  <2>1. [left |-> Stored, copy |-> disk] \in [left : SUBSET Ids, copy : Contents]
    BY DEF Stored, TypeOK
  <2>2. fetches' \in [Callers -> [left : SUBSET Ids, copy : Contents]]
    BY <1>7, <2>1 DEF GetMiss, TypeOK
  <2>3. QED
    BY <1>7, <2>2 DEF GetMiss, TypeOK, NoMemory, Hot, NoSave
<1>8. ASSUME NEW c \in Callers, NEW id \in Ids, GetFill(c, id) PROVE TInv'
  <2>1. fetches[c] \in [left : SUBSET Ids, copy : Contents]
    BY DEF TypeOK
  <2>2. fetches[c].copy[id] \in Stamps
    BY <2>1 DEF Contents
  <2>3. cache' \in Contents /\ dirty' \subseteq Hot'
    BY <1>8, <2>2 DEF GetFill, Clean, TypeOK, Contents, Hot
  <2>4. fetches' \in [Callers -> [left : SUBSET Ids, copy : Contents]]
    BY <1>8, FillLeaves DEF TypeOK
  <2>5. QED
    BY <1>8, <2>3, <2>4 DEF GetFill, TypeOK, NoMemory, NoSave
<1>9. CASE Crash
  <2>1. Resting \in [left : SUBSET Ids, copy : Contents] /\ Resting.left = {}
    BY <1>0 DEF Resting
  <2>2. QED
    BY <1>0, <1>9, <2>1 DEF Crash, TypeOK, NoMemory
<1>10. CASE Start
  BY <1>10 DEF Start, TypeOK, NoMemory
<1>11. CASE UNCHANGED vars
  BY <1>11 DEF vars, TypeOK, NoMemory, Hot
<1>12. QED
  BY <1>2, <1>3, <1>4, <1>5, <1>6, <1>7, <1>8, <1>9, <1>10, <1>11 DEF Next, Operation

-----------------------------------------------------------------------------
\* What a step does to the file: nothing, and no reload is overtaken; or a save.
LEMMA SaveOrNot ==
  ASSUME TypeOK, Next
  PROVE  Save \/ Crash \/ (disk' = disk /\ overtaken' = overtaken)
  BY DEF Next, Operation, Create, Update, Delete, Close, CloseAll, GetMiss, GetFill, Start,
         NoSave

\* Only Create brings in a session that was not there, and it gives out its id.
LEMMA CreatedStep ==
  ASSUME IInv, [Next]_vars
  PROVE  WasCreated'
<1> USE DEF IInv, TInv
<1>1. disk' = disk \/ disk' = cache
  <2>1. disk' = disk \/ Save
    BY SaveOrNot DEF vars, Crash
  <2>2. QED
    BY <2>1, SaveType
<1>2. Stored' \subseteq Stored \cup Hot
  BY <1>1 DEF Stored, Hot
<1>3. born \subseteq born'
  BY DEF Next, Operation, Create, Update, Delete, Close, CloseAll, GetMiss, GetFill,
         Crash, Start, vars
<1>4. ASSUME NEW c \in Callers PROVE fetches'[c].left \subseteq fetches[c].left \cup Stored
  <2>1. ASSUME NEW d \in Callers, GetMiss(d)
        PROVE  fetches'[c].left \subseteq fetches[c].left \cup Stored
    BY <2>1 DEF GetMiss, TypeOK
  <2>2. ASSUME NEW d \in Callers, NEW id \in Ids, GetFill(d, id)
        PROVE  fetches'[c].left \subseteq fetches[c].left
    BY <2>2, FillLeaves
  <2>3. CASE Crash
    BY <2>3 DEF Crash, Resting
  <2>4. CASE fetches' = fetches
    BY <2>4
  <2>5. QED
    BY <2>1, <2>2, <2>3, <2>4
       DEF Next, Operation, Create, Update, Delete, Close, CloseAll, Start, vars
<1>5. Hot' \subseteq Hot \cup Stored \cup (UNION {fetches[c].left : c \in Callers}) \cup born'
  <2>1. ASSUME NEW id \in Ids, Create(id) PROVE Hot' \subseteq Hot \cup born'
    <3>1. \A x \in Ids : x # id => cache'[x] \in {cache[x], Absent}
      BY <2>1 DEF Create, TypeOK, Contents
    <3>2. id \in born'
      BY <2>1 DEF Create
    <3>3. QED
      BY <3>1, <3>2 DEF Hot
  <2>2. ASSUME NEW id \in Ids, Update(id) \/ Delete(id) \/ Close(id) PROVE Hot' \subseteq Hot
    BY <2>2 DEF Update, Delete, Close, TypeOK, Contents, Hot
  <2>3. CASE CloseAll \/ Crash
    BY <2>3 DEF CloseAll, Crash, Nothing, Hot
  <2>4. ASSUME NEW c \in Callers, GetMiss(c) PROVE Hot' \subseteq Hot
    BY <2>4 DEF GetMiss, Hot
  <2>5. ASSUME NEW c \in Callers, NEW id \in Ids, GetFill(c, id)
        PROVE  Hot' \subseteq Hot \cup fetches[c].left
    <3>1. id \in fetches[c].left
      BY <2>5 DEF GetFill
    <3>2. \A x \in Ids : x # id => cache'[x] = cache[x]
      BY <2>5 DEF GetFill, TypeOK, Contents
    <3>3. QED
      BY <3>1, <3>2 DEF Hot
  <2>6. CASE Start
    BY <2>6 DEF Start, Hot, Stored
  <2>7. CASE UNCHANGED vars
    BY <2>7 DEF vars, Hot
  <2>8. QED
    BY <2>1, <2>2, <2>3, <2>4, <2>5, <2>6, <2>7 DEF Next, Operation
<1>6. \A c \in Callers : fetches[c].left \subseteq born
  BY DEF WasCreated
<1>7. Hot \cup Stored \subseteq born
  BY DEF WasCreated
<1>8. Hot' \cup Stored' \subseteq born'
  BY ONLY <1>2, <1>3, <1>5, <1>6, <1>7
<1>9. \A c \in Callers : fetches'[c].left \subseteq born'
  BY ONLY <1>3, <1>4, <1>6, <1>7
<1>10. QED
  BY ONLY <1>8, <1>9 DEF WasCreated

\* A save leaves what stays in the cache unchanged on the file, and notes the
\* reloads that it overtakes; so does a step that leaves the file alone.
LEMMA SaveKeeps ==
  ASSUME IInv, Save \/ (disk' = disk /\ overtaken' = overtaken)
  PROVE  /\ \A id \in Hot \ dirty : id \in overtaken' \/ disk'[id] = cache[id]
         /\ fetches' = fetches => FetchedOrOvertaken'
<1> USE DEF IInv, TInv
<1>1. CASE Save
  <2>1. CASE disk' = cache /\ overtaken' = Overtaking
    <3>1. \A id \in Hot \ dirty : disk'[id] = cache[id]
      BY <2>1
    <3>2. ASSUME NEW c \in Callers, NEW id \in fetches[c].left
          PROVE  id \in overtaken' \/ fetches[c].copy[id] = disk'[id]
      <4>1. id \in Ids
        BY DEF TypeOK
      <4>2. QED
        BY <2>1, <4>1 DEF Overtaking
    <3>3. QED
      BY <3>1, <3>2 DEF FetchedOrOvertaken
  <2>2. CASE disk' = disk /\ overtaken' = overtaken
    BY <2>2 DEF CleanIsOnDisk, FetchedOrOvertaken
  <2>3. QED
    BY <1>1, <2>1, <2>2 DEF Save, Written
<1>2. CASE disk' = disk /\ overtaken' = overtaken
  BY <1>2 DEF CleanIsOnDisk, FetchedOrOvertaken
<1>3. QED
  BY <1>1, <1>2

\* What is known of the cache, the file and the reloads is kept, whatever several
\* goroutines do at once.
LEMMA SessionStep ==
  ASSUME IInv, [Next]_vars
  PROVE  IInv'
<1> USE DEF IInv, TInv
<1>1. TInv' /\ WasCreated'
  BY TypeStep, CreatedStep
<1>2. ASSUME NEW id \in Ids, Create(id) PROVE CleanIsOnDisk' /\ FetchedOrOvertaken'
  <2>1. /\ \A x \in Hot \ dirty : x \in overtaken' \/ disk'[x] = cache[x]
        /\ FetchedOrOvertaken'
    BY <1>2, SaveKeeps DEF Create, NoSave
  <2>2. id \notin Hot
    BY <1>2 DEF Create, WasCreated
  <2>3. ASSUME NEW x \in Hot' \ dirty' PROVE x \in Hot \ dirty /\ cache'[x] = cache[x]
    <3>1. x \in Ids /\ cache'[x] # Absent
      BY DEF Hot
    <3>2. ASSUME cache' = [cache EXCEPT ![id] = clock'] /\ dirty' = Marked(id)
          PROVE  x \in Hot \ dirty /\ cache'[x] = cache[x]
      BY <3>1, <3>2 DEF TypeOK, Contents, Marked, Hot
    <3>3. ASSUME NEW victim \in Oldest, dirty' = Marked(id) \ {victim},
                 cache' = [cache EXCEPT ![victim] = Absent, ![id] = clock']
          PROVE  x \in Hot \ dirty /\ cache'[x] = cache[x]
      <4>1. victim # id
        BY <2>2 DEF Oldest
      <4>2. x # id /\ x # victim
        BY <3>1, <3>3, <4>1 DEF TypeOK, Contents, Marked
      <4>3. QED
        BY <3>1, <3>3, <4>2 DEF TypeOK, Contents, Marked, Hot
    <3>4. QED
      BY <1>2, <3>2, <3>3 DEF Create
  <2>4. QED
    BY <2>1, <2>3 DEF CleanIsOnDisk
<1>3. ASSUME NEW id \in Ids, Update(id) PROVE CleanIsOnDisk' /\ FetchedOrOvertaken'
  <2>1. FetchedOrOvertaken' /\ disk' = disk /\ overtaken' = overtaken
    BY <1>3, SaveKeeps DEF Update, NoSave
  <2>2. \A x \in Hot' \ dirty' : x \in Hot \ dirty /\ cache'[x] = cache[x]
    BY <1>3 DEF Update, Marked, TypeOK, Contents, Hot
  <2>3. QED
    BY <2>1, <2>2 DEF CleanIsOnDisk
<1>4. ASSUME NEW id \in Ids, Delete(id) \/ Close(id)
      PROVE  CleanIsOnDisk' /\ FetchedOrOvertaken'
  <2>1. /\ \A x \in Hot \ dirty : x \in overtaken' \/ disk'[x] = cache[x]
        /\ FetchedOrOvertaken'
    BY <1>4, SaveKeeps DEF Delete, Close, NoSave
  <2>2. \A x \in Hot' \ dirty' : x \in Hot \ dirty /\ cache'[x] = cache[x]
    BY <1>4 DEF Delete, Close, Clean, TypeOK, Contents, Hot
  <2>3. QED
    BY <2>1, <2>2 DEF CleanIsOnDisk
<1>5. CASE CloseAll
  <2>1. FetchedOrOvertaken'
    BY <1>5, SaveKeeps DEF CloseAll
  <2>2. Hot' = {}
    BY <1>5 DEF CloseAll, Hot, Nothing
  <2>3. CleanIsOnDisk'
    BY ONLY <2>2 DEF CleanIsOnDisk
  <2>4. QED
    BY <1>1, <2>1, <2>3
<1>6. ASSUME NEW c \in Callers, GetMiss(c) PROVE CleanIsOnDisk' /\ FetchedOrOvertaken'
  <2>1. UNCHANGED <<cache, dirty, disk, overtaken>>
    BY <1>6 DEF GetMiss, NoSave
  <2>2. /\ \A d \in Callers : d # c => fetches'[d] = fetches[d]
        /\ fetches'[c].left = Stored /\ fetches'[c].copy = disk
    BY <1>6 DEF GetMiss, TypeOK
  <2>3. FetchedOrOvertaken'
    BY <2>1, <2>2 DEF FetchedOrOvertaken, Stored
  <2>4. QED
    BY <2>1, <2>3 DEF CleanIsOnDisk, Hot
<1>7. ASSUME NEW c \in Callers, NEW id \in Ids, GetFill(c, id)
      PROVE  CleanIsOnDisk' /\ FetchedOrOvertaken'
  <2>1. UNCHANGED <<disk, overtaken>> /\ dirty' = dirty \ {id} /\ id \in fetches[c].left
    BY <1>7 DEF GetFill, Clean, NoSave
  <2>2. \A x \in Ids : cache'[x] = IF x = id THEN fetches[c].copy[id] ELSE cache[x]
    BY <1>7 DEF GetFill, TypeOK, Contents
  <2>3. CleanIsOnDisk'
    BY <2>1, <2>2 DEF CleanIsOnDisk, FetchedOrOvertaken, Hot
  <2>4. \A d \in Callers : fetches'[d].left \subseteq fetches[d].left
                           /\ (fetches'[d].left # {} => fetches'[d].copy = fetches[d].copy)
    BY <1>7, FillLeaves
  <2>5. FetchedOrOvertaken'
    BY <2>1, <2>4 DEF FetchedOrOvertaken
  <2>6. QED
    BY <2>3, <2>5
<1>8. CASE Crash
  <2>1. Hot' = {} /\ \A c \in Callers : fetches'[c].left = {}
    BY <1>8 DEF Crash, Nothing, Resting, Hot
  <2>2. CleanIsOnDisk'
    BY ONLY <2>1 DEF CleanIsOnDisk
  <2>3. FetchedOrOvertaken'
    BY ONLY <2>1 DEF FetchedOrOvertaken
  <2>4. QED
    BY <1>1, <2>2, <2>3
<1>9. CASE Start
  <2>1. UNCHANGED <<disk, overtaken, fetches>> /\ cache' \in {disk, cache}
    BY <1>9 DEF Start
  <2>2. Hot = {}
    BY <1>9 DEF Start, NoMemory, Hot, Nothing
  <2>3. CleanIsOnDisk'
    BY <2>1, <2>2 DEF CleanIsOnDisk, Hot
  <2>4. QED
    BY <1>1, <2>1, <2>3 DEF FetchedOrOvertaken
<1>10. CASE UNCHANGED vars
  <2>1. CleanIsOnDisk'
    BY <1>10 DEF vars, CleanIsOnDisk, Hot
  <2>2. FetchedOrOvertaken'
    BY <1>10 DEF vars, FetchedOrOvertaken
  <2>3. QED
    BY <1>1, <2>1, <2>2
<1>11. QED
  BY <1>1, <1>2, <1>3, <1>4, <1>5, <1>6, <1>7, <1>8, <1>9, <1>10 DEF Next, Operation

-----------------------------------------------------------------------------
\* Type correctness of the session manager, however many goroutines use it.
THEOREM SessionType == Spec => []TypeOK
<1>1. Init => TInv
  BY SessionInit DEF IInv
<1>2. TInv => TypeOK
  BY DEF TInv
<1>3. QED
  BY <1>1, <1>2, TypeStep, PTL DEF Spec

\* An entry that is not dirty is in the file as it is, for any number of goroutines,
\* sessions and places in the cache, unless a save overtook the reload of its
\* session: what Close drops without saving it is no loss.
THEOREM SessionCleanIsOnDisk == Spec => []CleanIsOnDisk
<1>1. IInv => CleanIsOnDisk
  BY DEF IInv
<1>2. QED
  BY <1>1, SessionInit, SessionStep, PTL DEF Spec

\* Whatever Close, CloseAll or an eviction takes out of the cache is in the file as
\* it was, unless the save of that step failed or, of an unchanged session that is
\* closed, a save had overtaken its reload.
THEOREM SessionReleasedIsStored == Spec => ReleasedIsStored
<1>1. IInv /\ [Next]_vars =>
        [\A id \in Hot : cache'[id] = Absent =>
            \/ Delete(id) \/ ~running' \/ alarm'
            \/ id \in overtaken \ dirty
            \/ disk'[id] = cache[id]]_vars
  <2> SUFFICES ASSUME IInv, Next, NEW id \in Hot, cache'[id] = Absent,
                      ~Delete(id), running', ~alarm', id \notin overtaken \ dirty
               PROVE  disk'[id] = cache[id]
    OBVIOUS
  <2>1. TypeOK /\ CleanIsOnDisk /\ id \in Ids /\ cache[id] # Absent
    BY DEF IInv, TInv, Hot
  <2>3. CASE Save
    BY <2>3, <2>1, SaveType
  <2>4. CASE Close(id) /\ id \notin dirty
    BY <2>1, <2>4 DEF Close, CleanIsOnDisk, NoSave
  <2>5. ASSUME NEW other \in Ids, other # id, Close(other) \/ Delete(other) PROVE FALSE
    BY <2>1, <2>5 DEF Close, Delete, TypeOK, Contents
  <2>6. ASSUME NEW new \in Ids, Create(new), ~Save PROVE FALSE
    <3>1. cache' = [cache EXCEPT ![new] = clock'] /\ clock' = clock + 1
      BY <2>6 DEF Create
    <3>2. clock' # Absent
      BY <3>1, SessionStoreAssumption DEF IInv, TInv, TypeOK, Stamps, Absent
    <3>3. QED
      BY <2>1, <3>1, <3>2 DEF TypeOK, Contents
  <2>7. ASSUME NEW new \in Ids, Update(new) PROVE FALSE
    <3>1. cache' = [cache EXCEPT ![new] = clock'] /\ clock' = clock + 1
      BY <2>7 DEF Update
    <3>2. clock' # Absent
      BY <3>1, SessionStoreAssumption DEF IInv, TInv, TypeOK, Stamps, Absent
    <3>3. QED
      BY <2>1, <3>1, <3>2 DEF TypeOK, Contents
  <2>8. ASSUME NEW c \in Callers, GetMiss(c) PROVE FALSE
    BY <2>1, <2>8 DEF GetMiss
  <2>9. ASSUME NEW c \in Callers, NEW x \in Ids, GetFill(c, x) PROVE FALSE
    <3>1. fetches[c].copy[x] # Absent
      BY <2>9 DEF GetFill, IInv, FetchedOrOvertaken
    <3>2. QED
      BY <2>1, <2>9, <3>1 DEF GetFill, TypeOK, Contents
  <2>10. ~Crash
    BY DEF Crash
  <2>11. ~Start
    BY <2>1 DEF Start, IInv, TInv, NoMemory, Nothing
  <2>12. QED
    BY <2>1, <2>3, <2>4, <2>5, <2>6, <2>7, <2>8, <2>9, <2>10, <2>11
       DEF Next, Operation, Close, CloseAll
<1>2. QED
  BY <1>1, SessionInit, SessionStep, PTL DEF Spec, ReleasedIsStored

Dirs == [dir : BOOLEAN, manifest : Nat, valid : BOOLEAN, prompt : Nat]

Skills == [level : Levels, manifest : Nat, prompt : Nat, missed : BOOLEAN]

Loads ==
    [at : {"idle", "stat0", "stat1", "stat2", "manifest", "prompt", "fill"}, read : Skills]

Installs == [at : {"idle", "make", "prompt", "manifest"}, level : Levels]

Reported == [op : Heeded, level : Levels]

SkillTypes ==
    /\ dirs \in [Levels -> Dirs]
    /\ install \in Installs
    /\ changes \in Nat
    /\ reports \in Seq(Reported)
    /\ cached \in Skills
    /\ loads \in [Loaders -> Loads]
    /\ watcher \in {"new", "wait", "tell", "done", "panicked"}
    /\ closing \in {"no", "wait", "closed"}

(* A directory that is not there has no files; the installer's is there     *)
(* when it copies.                                                          *)
DirsTrue ==
    /\ \A l \in Levels : ~dirs[l].dir => dirs[l] = NoDir
    /\ install.at \in {"prompt", "manifest"} => dirs[install.level].dir

(* Level k has a manifest, and none between it and level n has.             *)
HighestBelow(n, k) ==
    /\ k < n /\ dirs[k].manifest # 0
    /\ \A l \in Levels : k < l /\ l < n => dirs[l].manifest = 0

Scanned(read, n) ==
    IF read.manifest = 0 THEN \A l \in Levels : l < n => dirs[l].manifest = 0
    ELSE HighestBelow(n, read.level)

ReadTrue(at, read) ==
    /\ at = "stat0" => read.manifest = 0
    /\ at = "stat1" => Scanned(read, 1)
    /\ at = "stat2" => Scanned(read, 2)
    /\ at = "manifest" => Scanned(read, 3)
    /\ at \in {"prompt", "fill"} =>
          HighestBelow(3, read.level) /\ read.manifest = dirs[read.level].manifest
    /\ at = "fill" => read.prompt = dirs[read.level].prompt

(* No report is waiting for which the watcher will drop the skill.          *)
Quiet == closing = "no" /\ \A i \in DOMAIN reports : reports[i].level \in Misnamed

LoadsTrue ==
    \A g \in Loaders : Quiet /\ loads[g].at # "idle" /\ ~loads[g].read.missed
        => ReadTrue(loads[g].at, loads[g].read)

CachedTrue == Quiet /\ cached # NoSkill /\ ~cached.missed => ReadTrue("fill", cached)

WatcherInOrder ==
    /\ watcher # "panicked"
    /\ closing # "no" => reports = <<>>
    /\ closing = "closed" => watcher # "tell"


SkillInv == SkillTypes /\ DirsTrue /\ LoadsTrue /\ CachedTrue /\ WatcherInOrder

-----------------------------------------------------------------------------
\* No skill is a skill that was not found.
LEMMA NoSkillIs ==
  /\ NoSkill \in Skills /\ NoSkill.manifest = 0
  /\ \A v \in BOOLEAN : /\ [NoSkill EXCEPT !.missed = v] \in Skills
                        /\ [NoSkill EXCEPT !.missed = v].manifest = 0
BY DEF NoSkill, Skills, Levels

\* A directory that is not there has no manifest.
LEMMA NoDirIs == NoDir \in Dirs /\ NoDir.manifest = 0 /\ ~NoDir.dir
BY DEF NoDir, Dirs

\* A Load under way, marked as one that missed a change.
LEMMA MarkedLoads ==
  ASSUME SkillTypes,
         loads' = [g \in Loaders |-> [loads[g] EXCEPT !.read.missed = loads[g].at # "idle"]]
  PROVE  /\ loads' \in [Loaders -> Loads]
         /\ \A g \in Loaders : loads'[g].at # "idle" => loads'[g].read.missed
<1>1. ASSUME NEW g \in Loaders
      PROVE  /\ loads'[g] \in Loads
             /\ loads'[g].at # "idle" => loads'[g].read.missed
  <2> DEFINE v == loads[g].at # "idle"
             r == [loads[g].read EXCEPT !.missed = v]
  <2>1. loads[g] \in Loads /\ loads[g].read \in Skills
    BY DEF SkillTypes, Loads
  <2>2. loads'[g] = [loads[g] EXCEPT !.read = r]
    BY <2>1 DEF Loads
  <2>3. v \in BOOLEAN
    OBVIOUS
  <2>4. v <=> loads[g].at # "idle"
    OBVIOUS
  <2> HIDE DEF v
  <2>5. r \in Skills /\ r.missed = v
    BY <2>1, <2>3 DEF Skills
  <2> HIDE DEF r
  <2>6. loads'[g] \in Loads /\ loads'[g].at = loads[g].at /\ loads'[g].read = r
    BY <2>1, <2>2, <2>5 DEF Loads
  <2>7. QED
    BY <2>4, <2>5, <2>6
<1>2. QED
  BY <1>1

\* An unnoticed change marks every Load under way and what is cached.
LEMMA UnnoticedIs ==
  ASSUME SkillTypes, Unnoticed
  PROVE  /\ loads' \in [Loaders -> Loads] /\ cached' \in Skills
         /\ LoadsTrue' /\ CachedTrue'
<1>1. /\ loads' \in [Loaders -> Loads]
      /\ \A g \in Loaders : loads'[g].at # "idle" => loads'[g].read.missed
  BY MarkedLoads DEF Unnoticed
<1>2. cached' \in Skills /\ (cached' = NoSkill \/ cached'.missed)
  <2>1. cached \in Skills
    BY DEF SkillTypes
  <2>2. CASE cached = NoSkill
    BY <2>1, <2>2 DEF Unnoticed
  <2>3. CASE cached # NoSkill
    <3>1. cached' = [cached EXCEPT !.missed = TRUE]
      BY <2>3 DEF Unnoticed
    <3>2. QED
      BY <2>1, <3>1 DEF Skills
  <2>4. QED
    BY <2>2, <2>3
<1>3. LoadsTrue'
  BY <1>1 DEF LoadsTrue
<1>4. CachedTrue'
  BY <1>2 DEF CachedTrue
<1>5. QED
  BY <1>1, <1>2, <1>3, <1>4

\* A report is in the queue until the skill is dropped for it, or the change is unnoticed.
LEMMA ReportIs ==
  ASSUME SkillTypes, NEW l \in Levels, NEW o \in Heeded, Report(l, o), closing' = closing
  PROVE  /\ reports' \in Seq(Reported) /\ loads' \in [Loaders -> Loads] /\ cached' \in Skills
         /\ closing # "no" => reports' = reports
         /\ LoadsTrue' /\ CachedTrue'
<1> DEFINE rep == [op |-> o, level |-> l]
           longer == Append(reports, rep)
<1>1. rep \in Reported /\ rep.level = l
  BY DEF Reported
<1>2. reports' = IF closing = "no" THEN longer ELSE reports
  BY DEF Report
<1> HIDE DEF rep
<1>3. /\ longer \in Seq(Reported) /\ Len(longer) = Len(reports) + 1
      /\ longer[Len(reports) + 1] = rep /\ Len(reports) \in Nat
  BY <1>1, AppendProperties, LenProperties DEF SkillTypes
<1>4. Len(reports) + 1 \in DOMAIN longer
  BY <1>3, LenProperties
<1> HIDE DEF longer
<1>5. reports' \in Seq(Reported) /\ (closing # "no" => reports' = reports)
  BY <1>2, <1>3 DEF SkillTypes
<1>6. CASE l \in Misnamed
  BY <1>5, <1>6, UnnoticedIs DEF Report
<1>7. CASE l \notin Misnamed
  <2>1. UNCHANGED <<cached, loads>>
    BY <1>7 DEF Report
  <2>2. ~Quiet'
    BY <1>1, <1>2, <1>3, <1>4, <1>7 DEF Quiet
  <2>3. LoadsTrue' /\ CachedTrue'
    BY <2>2 DEF LoadsTrue, CachedTrue
  <2>4. QED
    BY <1>5, <2>1, <2>3 DEF SkillTypes
<1>8. QED
  BY <1>6, <1>7

\* A change of the files that is reported, or noted as unnoticed.
LEMMA ChangeKeeps ==
  ASSUME SkillInv, SkillTypes', DirsTrue', LoadsTrue', CachedTrue', UNCHANGED <<watcher, closing>>,
         closing # "no" => reports' = reports
  PROVE  SkillInv'
  BY DEF WatcherInOrder, SkillInv

\* A directory and the installer, after a step of either.
LEMMA DirKeeps ==
  ASSUME SkillTypes, DirsTrue, NEW l \in Levels, NEW d \in Dirs, NEW n \in Installs,
         dirs' = [dirs EXCEPT ![l] = d], install' = n,
         d.dir \/ d = NoDir,
         n.at \in {"prompt", "manifest"} => n.level = l /\ d.dir
  PROVE  dirs' \in [Levels -> Dirs] /\ install' \in Installs /\ DirsTrue'
  BY DEF SkillTypes, DirsTrue

\* The removal of a directory is reported; one that is not there was none.
LEMMA RemoveKeeps ==
  ASSUME SkillInv, NEW l \in Levels, RemoveTarget(l)
  PROVE  SkillInv'
<1> DEFINE n == [at |-> "make", level |-> l]
<1>1. /\ dirs' = [dirs EXCEPT ![l] = NoDir] /\ changes' = changes + 1 /\ install' = n
      /\ UNCHANGED <<watcher, sent, closing>>
  BY DEF RemoveTarget
<1>2. n \in Installs /\ n.at = "make"
  BY DEF Installs
<1> HIDE DEF n
<1>3. dirs' \in [Levels -> Dirs] /\ install' \in Installs /\ DirsTrue' /\ changes' \in Nat
  <2>1. SkillTypes /\ DirsTrue /\ NoDir \in Dirs /\ dirs' = [dirs EXCEPT ![l] = NoDir]
        /\ install' = n
    BY <1>1, NoDirIs DEF SkillInv
  <2>2. dirs' \in [Levels -> Dirs] /\ install' \in Installs /\ DirsTrue'
    BY <1>2, <2>1, DirKeeps
  <2>3. changes' \in Nat
    BY <1>1, <2>1 DEF SkillTypes
  <2>4. QED
    BY <2>2, <2>3
<1>4. CASE dirs[l].dir
  <2>1. Report(l, "remove") /\ "remove" \in Heeded
    BY <1>4 DEF RemoveTarget, Heeded
  <2>2. /\ reports' \in Seq(Reported) /\ loads' \in [Loaders -> Loads] /\ cached' \in Skills
        /\ (closing # "no" => reports' = reports) /\ LoadsTrue' /\ CachedTrue'
    BY <1>1, <2>1, ReportIs DEF SkillInv
  <2>3. SkillTypes'
    BY <1>1, <1>3, <2>2 DEF SkillTypes, SkillInv
  <2>4. QED
    BY <1>1, <1>3, <2>2, <2>3, ChangeKeeps
<1>5. CASE ~dirs[l].dir
  <2>1. UNCHANGED <<reports, cached, loads>>
    BY <1>5 DEF RemoveTarget
  <2>2. dirs' = dirs
    BY <1>1, <1>5 DEF SkillInv, SkillTypes, DirsTrue
  <2>3. SkillTypes'
    BY <1>1, <1>3, <2>1 DEF SkillTypes, SkillInv
  <2>4. LoadsTrue' /\ CachedTrue'
    BY <1>1, <2>1, <2>2 DEF LoadsTrue, CachedTrue, Quiet, ReadTrue, Scanned, HighestBelow, SkillInv
  <2>5. QED
    BY <1>1, <1>3, <2>1, <2>3, <2>4, ChangeKeeps
<1>6. QED
  BY <1>4, <1>5

\* A change of files in a directory that stays, by the installer or in place.
LEMMA FilesKeep ==
  ASSUME SkillInv, NEW l \in Levels, NEW d \in Dirs, NEW n \in Installs,
         dirs' = [dirs EXCEPT ![l] = d], d.dir, install' = n,
         n.at \in {"prompt", "manifest"} => n.level = l,
         changes' \in Nat, Unnoticed, UNCHANGED <<reports, watcher, sent, closing>>
  PROVE  SkillInv'
<1>1. dirs' \in [Levels -> Dirs] /\ install' \in Installs /\ DirsTrue'
  BY DirKeeps DEF SkillInv
<1>2. loads' \in [Loaders -> Loads] /\ cached' \in Skills /\ LoadsTrue' /\ CachedTrue'
  BY UnnoticedIs DEF SkillInv
<1>3. SkillTypes'
  BY <1>1, <1>2 DEF SkillTypes, SkillInv
<1>4. QED
  BY <1>1, <1>2, <1>3, ChangeKeeps

\* A removal that fails half-way is reported by nothing.
LEMMA RemoveFailsKeeps ==
  ASSUME SkillInv, NEW l \in Levels, RemoveFails(l)
  PROVE  SkillInv'
<1>1. PICK manifest \in {0, dirs[l].manifest}, prompt \in {0, dirs[l].prompt} :
          dirs' = [dirs EXCEPT ![l].manifest = manifest, ![l].prompt = prompt]
  BY DEF RemoveFails
<1>2. /\ dirs[l].dir /\ dirs \in [Levels -> Dirs] /\ dirs[l] \in Dirs /\ install \in Installs
      /\ changes \in Nat /\ install.at = "idle" /\ Unnoticed
      /\ UNCHANGED <<install, changes, reports, watcher, sent, closing>>
  BY DEF RemoveFails, SkillInv, SkillTypes
<1> DEFINE d == [dirs[l] EXCEPT !.manifest = manifest, !.prompt = prompt]
<1>3. manifest \in Nat /\ prompt \in Nat
  BY <1>2 DEF Dirs
<1>4. dirs' = [dirs EXCEPT ![l] = d]
  BY <1>1, <1>2
<1>5. d \in Dirs /\ d.dir
  BY <1>2, <1>3 DEF Dirs
<1> HIDE DEF d
<1>6. QED
  BY <1>2, <1>4, <1>5, FilesKeep

\* The new directory has no manifest yet.
LEMMA MakeDirKeeps == ASSUME SkillInv, MakeDir PROVE SkillInv'
<1> DEFINE l == install.level
           d == [dirs[l] EXCEPT !.dir = TRUE]
           n == [install EXCEPT !.at = "prompt"]
<1>1. /\ install.at = "make" /\ Report(l, "create") /\ "create" \in Heeded
      /\ UNCHANGED <<changes, watcher, sent, closing>>
  BY DEF MakeDir, Heeded
<1>2. install \in Installs /\ dirs \in [Levels -> Dirs] /\ l \in Levels /\ dirs[l] \in Dirs
  BY DEF SkillInv, SkillTypes, Installs
<1>3. dirs' = [dirs EXCEPT ![l] = d] /\ install' = n
  BY <1>2 DEF MakeDir
<1>4. d \in Dirs /\ d.dir
  BY <1>2 DEF Dirs
<1>5. n \in Installs /\ n.level = l
  BY <1>2 DEF Installs
<1> HIDE DEF d, n
<1>6. /\ reports' \in Seq(Reported) /\ loads' \in [Loaders -> Loads] /\ cached' \in Skills
      /\ (closing # "no" => reports' = reports) /\ LoadsTrue' /\ CachedTrue'
  BY <1>1, <1>2, ReportIs DEF SkillInv
<1>7. dirs' \in [Levels -> Dirs] /\ install' \in Installs /\ DirsTrue'
  BY <1>2, <1>3, <1>4, <1>5, DirKeeps DEF SkillInv
<1>8. SkillTypes'
  BY <1>1, <1>6, <1>7 DEF SkillTypes, SkillInv
<1>9. QED
  BY <1>1, <1>6, <1>7, <1>8, ChangeKeeps

\* A prompt is copied below the directory that is watched.
LEMMA CopyPromptKeeps == ASSUME SkillInv, CopyPrompt PROVE SkillInv'
<1> DEFINE l == install.level
           d == [dirs[l] EXCEPT !.prompt = changes]
           n == [install EXCEPT !.at = "manifest"]
<1>1. /\ install.at = "prompt" /\ Unnoticed
      /\ UNCHANGED <<changes, reports, watcher, sent, closing>>
  BY DEF CopyPrompt
<1>2. /\ install \in Installs /\ dirs \in [Levels -> Dirs] /\ l \in Levels /\ dirs[l] \in Dirs
      /\ dirs[l].dir /\ changes \in Nat
  BY <1>1 DEF SkillInv, SkillTypes, DirsTrue, Installs
<1>3. dirs' = [dirs EXCEPT ![l] = d] /\ install' = n
  BY <1>2 DEF CopyPrompt
<1>4. d \in Dirs /\ d.dir
  BY <1>2 DEF Dirs
<1>5. n \in Installs /\ n.level = l
  BY <1>2 DEF Installs
<1> HIDE DEF d, n, l
<1>6. QED
  BY <1>1, <1>2, <1>3, <1>4, <1>5, FilesKeep

\* And so is the manifest, with which the skill is there.
LEMMA CopyManifestKeeps == ASSUME SkillInv, CopyManifest PROVE SkillInv'
<1> DEFINE l == install.level
           d == [dirs[l] EXCEPT !.manifest = changes]
           n == [at |-> "idle", level |-> 0]
<1>1. /\ install.at = "manifest" /\ Unnoticed /\ install' = n
      /\ UNCHANGED <<changes, reports, watcher, sent, closing>>
  BY DEF CopyManifest
<1>2. /\ install \in Installs /\ dirs \in [Levels -> Dirs] /\ l \in Levels /\ dirs[l] \in Dirs
      /\ dirs[l].dir /\ changes \in Nat
  BY <1>1 DEF SkillInv, SkillTypes, DirsTrue, Installs
<1>3. dirs' = [dirs EXCEPT ![l] = d]
  BY <1>2 DEF CopyManifest
<1>4. d \in Dirs /\ d.dir
  BY <1>2 DEF Dirs
<1>5. n \in Installs /\ n.at = "idle"
  BY DEF Installs, Levels
<1> HIDE DEF d, n, l
<1>6. QED
  BY <1>1, <1>2, <1>3, <1>4, <1>5, FilesKeep

\* An installation that fails leaves what it has written.
LEMMA InstallFailsKeeps == ASSUME SkillInv, InstallFails PROVE SkillInv'
<1> DEFINE n == [at |-> "idle", level |-> 0]
<1>1. n \in Installs /\ n.at = "idle"
  BY DEF Levels, Installs
<1>2. install' = n /\ UNCHANGED <<dirs, changes, reports, cached, loads, watcher, sent, closing>>
  BY DEF InstallFails
<1> HIDE DEF n
<1>3. SkillTypes' /\ DirsTrue' /\ WatcherInOrder'
  BY <1>1, <1>2 DEF SkillTypes, DirsTrue, WatcherInOrder, SkillInv
<1>4. LoadsTrue' /\ CachedTrue'
  BY <1>2 DEF LoadsTrue, CachedTrue, Quiet, ReadTrue, Scanned, HighestBelow, SkillInv
<1>5. QED
  BY <1>3, <1>4 DEF SkillInv

\* Uninstalling removes the directory, which is reported.
LEMMA UninstallKeeps ==
  ASSUME SkillInv, NEW l \in Levels, Uninstall(l)
  PROVE  SkillInv'
<1>1. /\ dirs' = [dirs EXCEPT ![l] = NoDir] /\ install.at = "idle"
      /\ Report(l, "remove") /\ "remove" \in Heeded
      /\ UNCHANGED <<install, changes, watcher, sent, closing>>
  BY DEF Uninstall, Heeded
<1>2. dirs' \in [Levels -> Dirs] /\ install' \in Installs /\ DirsTrue'
  BY <1>1, NoDirIs, DirKeeps DEF SkillInv, SkillTypes
<1>3. /\ reports' \in Seq(Reported) /\ loads' \in [Loaders -> Loads] /\ cached' \in Skills
      /\ (closing # "no" => reports' = reports) /\ LoadsTrue' /\ CachedTrue'
  BY <1>1, ReportIs DEF SkillInv
<1>4. SkillTypes'
  BY <1>1, <1>2, <1>3 DEF SkillTypes, SkillInv
<1>5. QED
  BY <1>1, <1>2, <1>3, <1>4, ChangeKeeps

\* A change in place is reported by nothing.
LEMMA EditKeeps ==
  ASSUME SkillInv, NEW l \in Levels, Edit(l)
  PROVE  SkillInv'
<1>1. PICK valid \in BOOLEAN :
          dirs' = [dirs EXCEPT ![l].manifest = changes', ![l].valid = valid]
  BY DEF Edit
<1>2. /\ dirs[l].manifest # 0 /\ Unnoticed /\ changes' = changes + 1 /\ changes \in Nat
      /\ UNCHANGED <<install, reports, watcher, sent, closing>> /\ install.at = "idle"
      /\ dirs \in [Levels -> Dirs] /\ dirs[l] \in Dirs /\ install \in Installs
  BY DEF Edit, SkillInv, SkillTypes
<1>3. dirs[l].dir
  BY <1>2, NoDirIs DEF DirsTrue, SkillInv
<1> DEFINE m == changes'
           d == [dirs[l] EXCEPT !.manifest = m, !.valid = valid]
<1>4. m \in Nat
  BY <1>2
<1>5. dirs' = [dirs EXCEPT ![l] = d]
  BY <1>1, <1>2
<1> HIDE DEF m
<1>6. d \in Dirs /\ d.dir
  BY <1>2, <1>3, <1>4 DEF Dirs
<1> HIDE DEF d
<1>7. changes' \in Nat
  BY <1>4 DEF m
<1>8. QED
  BY <1>2, <1>5, <1>6, <1>7, FilesKeep

-----------------------------------------------------------------------------
\* A step of one Load, by which nothing else changes.
LEMMA OneLoad ==
  ASSUME SkillInv, NEW g \in Loaders, NEW n \in Loads, loads' = [loads EXCEPT ![g] = n],
         UNCHANGED <<dirs, install, changes, reports, watcher, sent, closing>>,
         n.at # "idle" /\ Quiet /\ ~n.read.missed => ReadTrue(n.at, n.read),
         cached' \in Skills,
         cached' # cached => (Quiet /\ ~cached'.missed => ReadTrue("fill", cached'))
  PROVE  SkillInv'
<1>1. SkillTypes' /\ DirsTrue' /\ WatcherInOrder'
  BY DEF SkillTypes, DirsTrue, WatcherInOrder, SkillInv
<1>2. LoadsTrue'
  <2>1. \A h \in Loaders : loads'[h] = IF h = g THEN n ELSE loads[h]
    BY DEF SkillInv, SkillTypes
  <2>2. QED
    BY <2>1 DEF LoadsTrue, Quiet, ReadTrue, Scanned, HighestBelow, SkillInv
<1>3. CachedTrue'
  <2>1. CASE cached' = cached
    BY <2>1 DEF CachedTrue, Quiet, ReadTrue, HighestBelow, Scanned, SkillInv
  <2>2. CASE cached' # cached
    BY <2>2 DEF CachedTrue, Quiet, ReadTrue, HighestBelow, Scanned, SkillInv
  <2>3. QED
    BY <2>1, <2>2
<1>4. QED
  BY <1>1, <1>2, <1>3 DEF SkillInv

\* What a Load has in hand.
LEMMA LoadTypes ==
  ASSUME SkillInv, NEW g \in Loaders
  PROVE  /\ loads[g] \in Loads /\ loads[g].read \in Skills /\ loads[g].read.level \in Levels
         /\ dirs[loads[g].read.level] \in Dirs
BY DEF SkillInv, SkillTypes, Loads, Skills

\* A Load that ends leaves a cache that is as good as before, or is what it read.
LEMMA GoneKeeps ==
  ASSUME SkillInv, NEW g \in Loaders, Gone(g),
         UNCHANGED <<dirs, install, changes, reports, watcher, sent, closing>>,
         cached' \in Skills,
         cached' # cached => (Quiet /\ ~cached'.missed => ReadTrue("fill", cached'))
  PROVE  SkillInv'
<1> DEFINE n == [at |-> "idle", read |-> NoSkill]
<1>1. n \in Loads /\ n.at = "idle"
  BY NoSkillIs DEF Loads
<1>2. loads' = [loads EXCEPT ![g] = n]
  BY DEF Gone
<1> HIDE DEF n
<1>3. QED
  BY <1>1, <1>2, OneLoad

\* Load answers from the cache, or begins to look at the levels.
LEMMA LoadKeeps == ASSUME SkillInv, NEW g \in Loaders, Load(g) PROVE SkillInv'
<1> DEFINE n == [at |-> "stat0", read |-> NoSkill]
<1>1. loads' = [loads EXCEPT ![g] = n]
      /\ UNCHANGED <<dirs, install, changes, reports, cached, watcher, sent, closing>>
  BY DEF Load
<1>2. n \in Loads /\ ReadTrue(n.at, n.read)
  BY NoSkillIs DEF Loads, ReadTrue
<1> HIDE DEF n
<1>3. cached' \in Skills
  BY <1>1 DEF SkillInv, SkillTypes
<1>4. QED
  BY <1>1, <1>2, <1>3, OneLoad

\* What a Load has found after the levels it has looked at is the highest of them.
LEMMA StatKeeps == ASSUME SkillInv, NEW g \in Loaders, Stat(g) PROVE SkillInv'
<1>1. PICK l \in Levels :
        /\ loads[g].at = StatAt[l + 1]
        /\ loads' = [loads EXCEPT ![g].at = StatAt[l + 2],
                                  ![g].read = IF dirs[l].manifest # 0
                                              THEN LastFound(loads[g].read, l)
                                              ELSE loads[g].read]
        /\ UNCHANGED <<dirs, install, changes, reports, cached, watcher, sent, closing>>
  BY DEF Stat
<1> DEFINE old == loads[g].read
           at == StatAt[l + 2]
           r == IF dirs[l].manifest # 0 THEN LastFound(old, l) ELSE old
           n == [loads[g] EXCEPT !.at = at, !.read = r]
<1>2. /\ loads[g] \in Loads /\ old \in Skills /\ l \in {0, 1, 2}
      /\ loads \in [Loaders -> Loads] /\ cached \in Skills /\ dirs[l] \in Dirs
  BY LoadTypes DEF Levels, SkillInv, SkillTypes
<1>3. /\ l = 0 => loads[g].at = "stat0" /\ at = "stat1"
      /\ l = 1 => loads[g].at = "stat1" /\ at = "stat2"
      /\ l = 2 => loads[g].at = "stat2" /\ at = "manifest"
  BY <1>1 DEF StatAt
<1>4. /\ r \in Skills /\ r.missed = old.missed
      /\ dirs[l].manifest # 0 => r.level = l /\ r.manifest = 1
      /\ dirs[l].manifest = 0 => r = old
  BY <1>2 DEF Skills, LastFound, Levels
<1>5. loads' = [loads EXCEPT ![g] = n]
  BY <1>1, <1>2
<1> HIDE DEF r, at
<1>6. n \in Loads /\ n.at = at /\ n.read = r
  BY <1>2, <1>3, <1>4 DEF Loads
<1> HIDE DEF n
<1>7. Quiet /\ ~r.missed => Scanned(r, l + 1)
  <2> SUFFICES ASSUME Quiet, ~r.missed PROVE Scanned(r, l + 1)
    OBVIOUS
  <2>1. ReadTrue(loads[g].at, old)
    <3>1. loads[g].at # "idle" /\ ~loads[g].read.missed
      BY <1>2, <1>3, <1>4
    <3>2. QED
      BY <3>1 DEF LoadsTrue, SkillInv
  <2>2. Scanned(old, l)
    BY <2>1, <1>2, <1>3 DEF ReadTrue, Scanned, Levels
  <2>3. /\ l \in Int /\ old.level \in Int /\ l < l + 1
        /\ \A k \in Levels : k \in Int /\ (k < l + 1 <=> k < l \/ k = l)
    BY <1>2 DEF Levels, Skills
  <2>4. CASE dirs[l].manifest = 0
    <3>1. r = old
      BY <2>4, <1>4
    <3>2. CASE old.manifest = 0
      BY <2>1, <3>1, <3>2, <2>2, <2>3, <2>4 DEF Scanned
    <3>3. CASE old.manifest # 0
      <4>1. old.level \in Levels /\ HighestBelow(l, old.level)
        BY <3>3, <2>2, <1>2 DEF Scanned, Skills
      <4>2. HighestBelow(l + 1, old.level)
        BY <4>1, <2>3, <2>4 DEF HighestBelow
      <4>3. QED
        BY <2>1, <3>1, <3>3, <4>2 DEF Scanned
    <3>4. QED
      BY <2>1, <3>2, <3>3
  <2>5. CASE dirs[l].manifest # 0
    <3>1. HighestBelow(l + 1, l)
      BY <2>3, <2>5 DEF HighestBelow
    <3>2. QED
      BY <2>1, <2>5, <3>1, <1>4 DEF Scanned
  <2>6. QED
    BY <2>1, <2>4, <2>5
<1>8. Quiet /\ ~n.read.missed => ReadTrue(n.at, n.read)
  BY <1>2, <1>3, <1>6, <1>7 DEF ReadTrue
<1>9. QED
  BY <1>1, <1>2, <1>5, <1>6, <1>8, OneLoad

\* The manifest it reads is the one it found, unless a change spoilt it.
LEMMA ReadManifestKeeps == ASSUME SkillInv, NEW g \in Loaders, ReadManifest(g) PROVE SkillInv'
<1> DEFINE old == loads[g].read
           m == dirs[old.level].manifest
           r == [old EXCEPT !.manifest = m]
           n == [loads[g] EXCEPT !.at = "prompt", !.read = r]
<1>1. /\ loads[g].at = "manifest"
      /\ UNCHANGED <<dirs, install, changes, reports, cached, watcher, sent, closing>>
      /\ loads[g] \in Loads /\ old \in Skills /\ m \in Nat
      /\ loads \in [Loaders -> Loads] /\ cached \in Skills
  BY LoadTypes DEF ReadManifest, SkillInv, SkillTypes, Dirs
<1>2. CASE Gone(g)
  BY <1>1, <1>2, GoneKeeps
<1>3. CASE ~Gone(g)
  <2>1. /\ loads' = [loads EXCEPT ![g].at = "prompt", ![g].read.manifest = m]
        /\ old.manifest # 0
    BY <1>3 DEF ReadManifest
  <2>2. loads' = [loads EXCEPT ![g] = n]
    BY <2>1, <1>1
  <2>3. m = dirs[old.level].manifest
    OBVIOUS
  <2> HIDE DEF m
  <2>4. r \in Skills /\ r.missed = old.missed /\ r.level = old.level /\ r.manifest = m
    BY <1>1 DEF Skills
  <2> HIDE DEF r
  <2>5. n \in Loads /\ n.at = "prompt" /\ n.read = r
    BY <1>1, <2>4 DEF Loads
  <2> HIDE DEF n
  <2>6. Quiet /\ ~r.missed => ReadTrue("manifest", old)
    BY <1>1, <2>4 DEF LoadsTrue, SkillInv
  <2>7. Quiet /\ ~n.read.missed => ReadTrue(n.at, n.read)
    BY <2>1, <2>3, <2>4, <2>5, <2>6 DEF ReadTrue, Scanned
  <2>8. QED
    BY <1>1, <2>2, <2>5, <2>7, OneLoad
<1>4. QED
  BY <1>2, <1>3

\* And so is the prompt.
LEMMA ReadPromptKeeps == ASSUME SkillInv, NEW g \in Loaders, ReadPrompt(g) PROVE SkillInv'
<1> DEFINE old == loads[g].read
           p == dirs[old.level].prompt
           r == [old EXCEPT !.prompt = p]
           n == [loads[g] EXCEPT !.at = "fill", !.read = r]
<1>1. /\ loads[g].at = "prompt"
      /\ UNCHANGED <<dirs, install, changes, reports, cached, watcher, sent, closing>>
      /\ loads[g] \in Loads /\ old \in Skills /\ p \in Nat
      /\ loads \in [Loaders -> Loads] /\ cached \in Skills
  BY LoadTypes DEF ReadPrompt, SkillInv, SkillTypes, Dirs
<1>2. loads' = [loads EXCEPT ![g] = n]
  BY <1>1 DEF ReadPrompt
<1>3. p = dirs[old.level].prompt
  OBVIOUS
<1> HIDE DEF p
<1>4. /\ r \in Skills /\ r.missed = old.missed /\ r.level = old.level /\ r.prompt = p
      /\ r.manifest = old.manifest
  BY <1>1 DEF Skills
<1> HIDE DEF r
<1>5. n \in Loads /\ n.at = "fill" /\ n.read = r
  BY <1>1, <1>4 DEF Loads
<1> HIDE DEF n
<1>6. Quiet /\ ~r.missed => ReadTrue("prompt", old)
  BY <1>1, <1>4 DEF LoadsTrue, SkillInv
<1>7. Quiet /\ ~n.read.missed => ReadTrue(n.at, n.read)
  BY <1>3, <1>4, <1>5, <1>6 DEF ReadTrue
<1>8. QED
  BY <1>1, <1>2, <1>5, <1>7, OneLoad

\* What is cached is what was read.
LEMMA FillKeeps == ASSUME SkillInv, NEW g \in Loaders, Fill(g) PROVE SkillInv'
<1>1. /\ loads[g].at = "fill" /\ cached' = loads[g].read /\ Gone(g) /\ loads[g].read \in Skills
      /\ UNCHANGED <<dirs, install, changes, reports, watcher, sent, closing>>
  BY LoadTypes DEF Fill
<1>2. Quiet /\ ~cached'.missed => ReadTrue("fill", cached')
  BY <1>1 DEF LoadsTrue, SkillInv
<1>3. QED
  BY <1>1, <1>2, GoneKeeps

-----------------------------------------------------------------------------
\* What the watcher does to nobody's skill leaves the files and the Loads alone.
LEMMA WatcherKeeps ==
  ASSUME SkillInv, SkillTypes', UNCHANGED <<dirs, install, changes, loads, cached>>, WatcherInOrder',
         Quiet' => Quiet
  PROVE  SkillInv'
<1>1. DirsTrue' /\ LoadsTrue' /\ CachedTrue'
  BY DEF DirsTrue, LoadsTrue, CachedTrue, ReadTrue, Scanned, HighestBelow, SkillInv
<1>2. QED
  BY <1>1 DEF SkillInv

\* The watcher empties the cache when it takes a report with the skill's name.
LEMMA HandleEventKeeps == ASSUME SkillInv, HandleEvent PROVE SkillInv'
<1>1. /\ watcher = "wait" /\ reports # <<>> /\ reports' = Tail(reports)
      /\ UNCHANGED <<dirs, install, changes, sent, closing>>
      /\ reports \in Seq(Reported) /\ SkillTypes
  BY DEF HandleEvent, SkillInv, SkillTypes
<1>2. /\ Head(reports) \in Reported /\ Head(reports) = reports[1]
      /\ Tail(reports) \in Seq(Reported)
      /\ Len(reports) \in Nat /\ Len(Tail(reports)) = Len(reports) - 1
      /\ \A i \in 1 .. Len(reports) - 1 : Tail(reports)[i] = reports[i + 1]
      /\ DOMAIN reports = 1 .. Len(reports)
  BY <1>1, HeadTailProperties, LenProperties, ElementOfSeq
<1>3. Head(reports).op \in Heeded
  BY <1>2 DEF Reported
<1>4. closing = "no" /\ watcher' \in {"wait", "tell"} /\ WatcherInOrder'
  BY <1>1, <1>3 DEF HandleEvent, WatcherInOrder, SkillInv
<1>5. CASE Head(reports).level \notin Misnamed
  <2>1. Dropped
    BY <1>3, <1>5 DEF HandleEvent
  <2>2. /\ loads' \in [Loaders -> Loads] /\ cached' = NoSkill
        /\ \A g \in Loaders : loads'[g].at # "idle" => loads'[g].read.missed
    BY <1>1, <2>1, MarkedLoads DEF Dropped
  <2>3. SkillTypes'
    BY <1>1, <1>2, <1>4, <2>2, NoSkillIs DEF SkillTypes
  <2>4. LoadsTrue' /\ CachedTrue'
    BY <2>2 DEF LoadsTrue, CachedTrue
  <2>5. DirsTrue'
    BY <1>1 DEF DirsTrue, SkillInv
  <2>6. QED
    BY <1>4, <2>3, <2>4, <2>5 DEF SkillInv
<1>6. CASE Head(reports).level \in Misnamed
  <2>1. UNCHANGED <<loads, cached>>
    BY <1>3, <1>6 DEF HandleEvent
  <2>2. SkillTypes'
    BY <1>1, <1>2, <1>4, <2>1 DEF SkillTypes
  <2>3. Quiet' => Quiet
    <3> SUFFICES ASSUME Quiet', NEW i \in 1 .. Len(reports) PROVE reports[i].level \in Misnamed
      BY <1>2, <1>4 DEF Quiet
    <3>1. CASE i = 1
      BY <1>2, <1>6, <3>1
    <3>2. CASE i # 1
      <4>1. i - 1 \in 1 .. Len(reports) - 1 /\ (i - 1) + 1 = i
        BY <1>2, <3>2
      <4>2. i - 1 \in DOMAIN Tail(reports)
        BY <1>2, <4>1, LenProperties
      <4>3. Tail(reports)[i - 1].level \in Misnamed
        BY <1>1, <4>2 DEF Quiet
      <4>4. Tail(reports)[i - 1] = reports[i]
        BY <1>2, <4>1
      <4>5. QED
        BY <4>3, <4>4
    <3>3. QED
      BY <3>1, <3>2
  <2>4. QED
    BY <1>1, <1>4, <2>1, <2>2, <2>3, WatcherKeeps
<1>7. QED
  BY <1>5, <1>6

\* The watcher's start, its telling and its end touch no skill.
LEMMA OthersKeep ==
  ASSUME SkillInv, StartWatching \/ Tell \/ WatcherEnds \/ CloseWatcher \/ CloseChanges
  PROVE  SkillInv'
<1>1. SkillTypes' /\ UNCHANGED <<dirs, install, changes, loads, cached>>
  <2>1. <<>> \in Seq(Reported)
    OBVIOUS
  <2>2. QED
    BY <2>1 DEF StartWatching, Tell, WatcherEnds, CloseWatcher, CloseChanges, SkillInv, SkillTypes
<1>2. WatcherInOrder'
  BY DEF StartWatching, Tell, WatcherEnds, CloseWatcher, CloseChanges, SkillInv, WatcherInOrder,
     GoroutineEnded
<1>3. closing' = "no" => closing = "no" /\ reports' = reports
  BY DEF StartWatching, Tell, WatcherEnds, CloseWatcher, CloseChanges
<1>4. Quiet' => Quiet
  BY <1>3 DEF Quiet
<1>5. LoadsTrue' /\ CachedTrue'
  BY <1>1, <1>4 DEF SkillInv, LoadsTrue, CachedTrue, ReadTrue, Scanned, HighestBelow
<1>6. DirsTrue'
  BY <1>1 DEF SkillInv, DirsTrue
<1>7. QED
  BY <1>1, <1>2, <1>5, <1>6 DEF SkillInv

\* At the start nothing is cached and nobody loads.
LEMMA SkillInitInv == SkillInit => SkillInv
<1> SUFFICES ASSUME SkillInit PROVE SkillInv
  OBVIOUS
<1>1. /\ dirs = [l \in Levels |-> NoDir] /\ cached = NoSkill /\ reports = <<>> /\ changes = 0
      /\ watcher = "new" /\ closing = "no" /\ install = [at |-> "idle", level |-> 0]
  BY DEF SkillInit
<1>2. loads \in [Loaders -> Loads] /\ \A g \in Loaders : loads[g].at = "idle"
  BY NoSkillIs DEF SkillInit, Loads
<1>3. SkillTypes
  BY <1>1, <1>2, NoSkillIs, NoDirIs DEF SkillTypes, Levels, Installs
<1>4. QED
  BY <1>1, <1>2, <1>3, NoDirIs DEF SkillInv, DirsTrue, LoadsTrue, CachedTrue, WatcherInOrder

\* The invariant of the skills is inductive.
LEMMA SkillStep == SkillInv /\ [SkillNext]_skillVars => SkillInv'
<1> SUFFICES ASSUME SkillInv, [SkillNext]_skillVars PROVE SkillInv'
  OBVIOUS
<1>1. CASE UNCHANGED skillVars
  BY <1>1 DEF skillVars, SkillInv, SkillTypes, DirsTrue, LoadsTrue, CachedTrue, WatcherInOrder,
     Quiet, ReadTrue, Scanned, HighestBelow
<1>2. CASE \E l \in Levels : RemoveTarget(l) \/ RemoveFails(l) \/ Uninstall(l) \/ Edit(l)
  BY <1>2, RemoveKeeps, RemoveFailsKeeps, UninstallKeeps, EditKeeps
<1>3. CASE MakeDir \/ CopyPrompt \/ CopyManifest \/ InstallFails
  BY <1>3, MakeDirKeeps, CopyPromptKeeps, CopyManifestKeeps, InstallFailsKeeps
<1>4. CASE \E g \in Loaders : Load(g) \/ LoadStep(g)
  BY <1>4, LoadKeeps, StatKeeps, ReadManifestKeeps, ReadPromptKeeps, FillKeeps DEF LoadStep
<1>5. CASE StartWatching \/ HandleEvent \/ Tell \/ WatcherEnds \/ CloseWatcher \/ CloseChanges
  BY <1>5, HandleEventKeeps, OthersKeep
<1>6. QED
  BY <1>1, <1>2, <1>3, <1>4, <1>5 DEF SkillNext

\* What is cached and what a Load has read is true of the files, or known to be spoilt.
THEOREM SkillInvariant == SkillSpec => []SkillInv
  BY SkillInitInv, SkillStep, PTL DEF SkillSpec

\* As soon as the watcher has handled the reports a cached skill is the one on disk, of
\* the highest level that has it, unless a change went unnoticed: for any loaders, any
\* changes, also during a Load or an installation, and any spelling of the directories.
THEOREM SkillCacheIsCurrent == SkillSpec => []CacheIsCurrent
<1>1. SkillInv => CacheIsCurrent
  <2> SUFFICES ASSUME SkillInv, closing = "no", reports = <<>>, cached # NoSkill, ~cached.missed
               PROVE  cached = Found
    BY DEF CacheIsCurrent, WatcherCaughtUp
  <2> DEFINE k == cached.level
             d == dirs[k]
             r == [level |-> k, manifest |-> d.manifest, prompt |-> d.prompt, missed |-> cached.missed]
  <2>1. cached \in Skills /\ k \in Levels
    BY DEF SkillInv, SkillTypes, Skills
  <2>2. HighestBelow(3, k) /\ cached.manifest = d.manifest /\ cached.prompt = d.prompt
    BY DEF SkillInv, CachedTrue, ReadTrue, Quiet
  <2>3. k \in Present /\ \A l \in Present : k >= l
    BY <2>1, <2>2 DEF Present, HighestBelow, Levels
  <2>4. Max(Present) = k
    <3>1. \A l \in Present : l \in Int
      BY DEF Present, Levels
    <3>2. \A l \in Present : (\A j \in Present : l >= j) => l = k
      BY <2>3, <3>1
    <3>3. QED
      BY <2>3, <3>2 DEF Max
  <2>5. Found = r
    BY <2>3, <2>4 DEF Found
  <2>6. cached = r
    BY <2>1, <2>2 DEF Skills
  <2>7. QED
    BY <2>5, <2>6
<1>2. QED
  BY <1>1, SkillInvariant, PTL

\* Nothing is sent on Changes after it was closed.
THEOREM SkillChangesOpen == SkillSpec => []ChangesOpenWhileTold
<1>1. SkillInv => ChangesOpenWhileTold
  BY DEF SkillInv, WatcherInOrder, ChangesOpenWhileTold
<1>2. QED
  BY <1>1, SkillInvariant, PTL

\* Every nonempty set of numbers has a least one.
LEMMA LeastNumber ==
  ASSUME NEW T, T \subseteq Nat, T # {}
  PROVE  \E x \in T : \A y \in T : x <= y
<1>1. PICK x \in T : \A y \in T : ~ (<<y, x>> \in OpToRel(<, Nat))
  BY NatLessThanWellFounded, WFMin
<1>2. \A y \in T : ~ (y < x)
  BY <1>1 DEF OpToRel
<1>3. QED
  BY <1>2

\* The sequences put one after the other, step by step.
Joined(seqs, n, f) == f = [i \in 1 .. n |-> IF i = 1 THEN seqs[i] ELSE f[i - 1] \o seqs[i]]

\* For every length there is such a function.
LEMMA JoinedExists ==
  ASSUME NEW seqs, NEW n \in Nat
  PROVE  \E f : Joined(seqs, n, f)
<1> DEFINE T == {m \in Nat : ~ \E f : Joined(seqs, m, f)}
<1>1. SUFFICES ASSUME T # {} PROVE FALSE
  OBVIOUS
<1>2. PICK m \in T : \A y \in T : m <= y
  BY <1>1, LeastNumber
<1>3. CASE m = 0
  <2> DEFINE f == [i \in 1 .. 0 |-> 0]
  <2>1. f = [i \in 1 .. 0 |-> IF i = 1 THEN seqs[i] ELSE f[i - 1] \o seqs[i]]
    OBVIOUS
  <2>2. QED
    BY <2>1, <1>2, <1>3 DEF Joined
<1>4. CASE m # 0
  <2>1. m - 1 \in Nat /\ ~ (m <= m - 1)
    BY <1>4
  <2>2. PICK f : Joined(seqs, m - 1, f)
    BY <2>1, <1>2
  <2> DEFINE last == IF m = 1 THEN seqs[m] ELSE f[m - 1] \o seqs[m]
             g == [i \in 1 .. m |-> IF i = m THEN last ELSE f[i]]
  <2>3. \A i \in 1 .. m - 1 : f[i] = IF i = 1 THEN seqs[i] ELSE f[i - 1] \o seqs[i]
    BY <2>2 DEF Joined
  <2>4. ASSUME NEW i \in 1 .. m
        PROVE  g[i] = IF i = 1 THEN seqs[i] ELSE g[i - 1] \o seqs[i]
    <3>1. CASE i = m
      <4>1. i # 1 => i - 1 \in 1 .. m /\ i - 1 # m
        BY <3>1
      <4>2. i # 1 => g[i - 1] = f[i - 1]
        BY <4>1
      <4>3. g[i] = last
        BY <3>1
      <4>4. QED
        BY <3>1, <4>2, <4>3
    <3>2. CASE i # m
      <4>1. i \in 1 .. m - 1 /\ (i # 1 => i - 1 \in 1 .. m /\ i - 1 # m)
        BY <3>2
      <4>2. g[i] = f[i] /\ (i # 1 => g[i - 1] = f[i - 1])
        BY <3>2, <4>1
      <4>3. QED
        BY <4>1, <4>2, <2>3
    <3>3. QED
      BY <3>1, <3>2
  <2>5. g = [i \in 1 .. m |-> g[i]]
    OBVIOUS
  <2> HIDE DEF g
  <2>6. [i \in 1 .. m |-> g[i]] = [i \in 1 .. m |-> IF i = 1 THEN seqs[i] ELSE g[i - 1] \o seqs[i]]
    BY <2>4
  <2>7. Joined(seqs, m, g)
    BY <2>5, <2>6 DEF Joined
  <2>8. QED
    BY <2>7, <1>2
<1>5. QED
  BY <1>3, <1>4

\* What FlattenSeq computes is its last value.
LEMMA FlattenIs ==
  ASSUME NEW seqs, Len(seqs) \in Nat \ {0}
  PROVE  \E f : Joined(seqs, Len(seqs), f) /\ FlattenSeq(seqs) = f[Len(seqs)]
<1> DEFINE n == Len(seqs)
           c == CHOOSE f : f = [i \in 1 .. n |-> IF i = 1 THEN seqs[i] ELSE f[i - 1] \o seqs[i]]
<1>1. Joined(seqs, n, c)
  BY JoinedExists DEF Joined
<1>2. FlattenSeq(seqs) = c[n]
  BY DEF FlattenSeq
<1>3. QED
  BY <1>1, <1>2

\* A sequence of sequences put together has what its parts have.
LEMMA FlattenRange ==
  ASSUME NEW S, NEW R, NEW n \in Nat \ {0}, NEW p \in [1 .. n -> Seq(S)],
         \A i \in 1 .. n : Range(p[i]) \subseteq R
  PROVE  FlattenSeq(p) \in Seq(S) /\ Range(FlattenSeq(p)) \subseteq R
<1>1. p \in Seq(Seq(S)) /\ Len(p) = n
  <2>1. p \in Seq(Seq(S))
    BY SeqDef
  <2>2. QED
    BY <2>1, LenProperties
<1>2. PICK f : Joined(p, n, f) /\ FlattenSeq(p) = f[n]
  BY <1>1, FlattenIs
<1>3. \A i \in 1 .. n : f[i] = IF i = 1 THEN p[i] ELSE f[i - 1] \o p[i]
  BY <1>2 DEF Joined
<1> DEFINE Good(i) == f[i] \in Seq(S) /\ Range(f[i]) \subseteq R
           T == {i \in 1 .. n : ~Good(i)}
<1>4. T = {}
  <2> SUFFICES ASSUME T # {} PROVE FALSE
    OBVIOUS
  <2>1. PICK i \in T : \A j \in T : i <= j
    <3>1. T \subseteq Nat
      OBVIOUS
    <3>2. QED
      BY <3>1, LeastNumber
  <2>2. i \in 1 .. n /\ ~Good(i) /\ p[i] \in Seq(S) /\ Range(p[i]) \subseteq R
    OBVIOUS
  <2>3. i # 1
    BY <2>2, <1>3
  <2>4. i - 1 \in 1 .. n /\ ~ (i <= i - 1)
    BY <2>2, <2>3
  <2>5. Good(i - 1)
    BY <2>1, <2>4
  <2>6. f[i] = f[i - 1] \o p[i]
    BY <1>3, <2>2, <2>3
  <2>7. f[i] \in Seq(S) /\ Range(f[i - 1] \o p[i]) = Range(f[i - 1]) \union Range(p[i])
    BY <2>2, <2>5, <2>6, ConcatProperties, RangeConcatenation
  <2>8. QED
    BY <2>2, <2>5, <2>6, <2>7
<1>5. n \in 1 .. n
  OBVIOUS
<1>6. Good(n)
  BY <1>4, <1>5
<1>7. QED
  BY <1>2, <1>6

\* The segments of a sequence: they cover it, and each begins within it.
LEMMA SegmentsCover ==
  ASSUME NEW n \in Nat \ {0}
  PROVE  /\ Segments(n) \in Nat \ {0}
         /\ Segments(n) * SegSize >= n /\ (Segments(n) - 1) * SegSize < n
<1> DEFINE z == SegSize
           q == (n + z - 1) \div z
           r == (n + z - 1) % z
<1>1. z \in Nat /\ z > 0
  BY ContextAssumption
<1> HIDE DEF z
<1>2. q \in Int /\ r \in 0 .. z - 1 /\ n + z - 1 = z * q + r
  BY <1>1
<1> HIDE DEF q, r
<1>3. q > 0
  BY <1>1, <1>2
<1>4. q * z >= n /\ (q - 1) * z < n
  BY <1>1, <1>2, <1>3
<1>5. QED
  BY <1>3, <1>4, <1>2 DEF Segments, q, z

\* A segment is a part of the sequence.
LEMMA SegmentIs ==
  ASSUME NEW S, NEW s \in Seq(S), NEW i \in 1 .. Segments(Len(s))
  PROVE  Segment(s, i) \in Seq(S) /\ Range(Segment(s, i)) \subseteq Range(s)
<1> DEFINE a == (i - 1) * SegSize
           b == Least(i * SegSize, Len(s))
<1>1. a \in Nat /\ b \in Nat /\ b <= Len(s)
  <2>1. SegSize \in Nat /\ i - 1 \in Nat /\ i \in Nat /\ Len(s) \in Nat
    BY ContextAssumption
  <2>2. QED
    BY <2>1 DEF Least
<1> HIDE DEF a, b
<1>2. \A j \in a + 1 .. b : j \in 1 .. Len(s) /\ s[j] \in S
  BY <1>1, ElementOfSeq
<1>3. /\ SubSeq(s, a + 1, b) \in Seq(S)
      /\ Len(SubSeq(s, a + 1, b)) = IF a + 1 <= b THEN b - (a + 1) + 1 ELSE 0
      /\ \A j \in 1 .. b - (a + 1) + 1 : SubSeq(s, a + 1, b)[j] = s[a + 1 + j - 1]
  BY <1>1, <1>2, SubSeqProperties
<1>4. ASSUME NEW j \in 1 .. Len(SubSeq(s, a + 1, b))
      PROVE  SubSeq(s, a + 1, b)[j] \in Range(s)
  <2>1. j \in 1 .. b - (a + 1) + 1 /\ a + 1 + j - 1 \in 1 .. Len(s)
    BY <1>1, <1>3
  <2>2. QED
    BY <2>1, <1>3 DEF Range
<1>5. Range(SubSeq(s, a + 1, b)) \subseteq Range(s)
  BY <1>3, <1>4 DEF Range
<1>6. QED
  BY <1>3, <1>5 DEF Segment, a, b

\* All segments put together are the sequence.
LEMMA FlattenSegments ==
  ASSUME NEW S, NEW s \in Seq(S), s # <<>>, NEW p,
         p = [i \in 1 .. Segments(Len(s)) |-> Segment(s, i)]
  PROVE  FlattenSeq(p) = s
<1> DEFINE n == Len(s)
           N == Segments(n)
           z == SegSize
<1>1. n \in Nat \ {0} /\ z \in Nat \ {0}
  BY EmptySeq, ContextAssumption
<1>2. N \in Nat \ {0} /\ N * z >= n /\ (N - 1) * z < n
  BY <1>1, SegmentsCover
<1>3. p \in Seq(Seq(S)) /\ Len(p) = N
  <2>1. \A i \in 1 .. N : Segment(s, i) \in Seq(S)
    BY SegmentIs
  <2>2. p \in Seq(Seq(S))
    BY <2>1, <1>2, SeqDef
  <2>3. QED
    BY <2>2, <1>2, LenProperties
<1>4. PICK f : Joined(p, N, f) /\ FlattenSeq(p) = f[N]
  BY <1>2, <1>3, FlattenIs
<1>5. \A i \in 1 .. N : f[i] = IF i = 1 THEN Segment(s, i) ELSE f[i - 1] \o Segment(s, i)
  BY <1>4 DEF Joined
<1>6. \A i \in 1 .. N : Segment(s, i) = SubSeq(s, (i - 1) * z + 1, Least(i * z, n))
  BY DEF Segment
<1> HIDE DEF N, z, n
<1> DEFINE Good(i) == f[i] = SubSeq(s, 1, Least(i * z, n))
           T == {i \in 1 .. N : ~Good(i)}
<1>7. T = {}
  <2> SUFFICES ASSUME T # {} PROVE FALSE
    OBVIOUS
  <2>1. PICK i \in T : \A j \in T : i <= j
    <3>1. T \subseteq Nat
      OBVIOUS
    <3>2. QED
      BY <3>1, LeastNumber
  <2>2. i \in 1 .. N /\ ~Good(i) /\ i \in Nat
    OBVIOUS
  <2>3. i # 1
    <3>1. CASE i = 1
      <4>1. (1 - 1) * z + 1 = 1
        BY <1>1
      <4>2. Good(i)
        BY <3>1, <4>1, <1>5, <1>6, <2>2
      <4>3. QED
        BY <4>2, <2>2
    <3>2. QED
      BY <3>1
  <2>4. i - 1 \in 1 .. N /\ ~ (i <= i - 1) /\ i - 1 <= N - 1
    BY <2>2, <2>3, <1>2
  <2>5. Good(i - 1)
    BY <2>1, <2>4
  <2> DEFINE k == (i - 1) * z
             e == Least(i * z, n)
  <2>6. k \in Nat /\ k < n /\ k <= i * z /\ i * z \in Nat
    <3>1. (i - 1) * z <= (N - 1) * z
      BY <2>4, <1>1, <1>2
    <3>2. i * z = (i - 1) * z + z /\ (i - 1) * z \in Nat /\ (N - 1) * z \in Int /\ i * z \in Nat
      BY <2>2, <2>4, <1>1, <1>2
    <3>3. QED
      BY <3>1, <3>2, <1>1, <1>2
  <2>7. Least((i - 1) * z, n) = k
    BY <2>6, <1>1 DEF Least
  <2>8. e \in Nat /\ k <= e /\ e <= n
    BY <2>6, <1>1 DEF Least
  <2>9. f[i - 1] = SubSeq(s, 1, k) /\ f[i] = f[i - 1] \o SubSeq(s, k + 1, e)
    BY <2>2, <2>3, <2>5, <2>7, <1>5, <1>6
  <2> HIDE DEF k, e
  <2>10. SubSeq(s, 1, k) \o SubSeq(s, k + 1, e) = SubSeq(s, 1, e)
    BY <2>6, <2>8, <1>1, ConcatAdjacentSubSeq DEF n
  <2>11. Good(i)
    BY <2>9, <2>10 DEF e
  <2>12. QED
    BY <2>11, <2>2
<1>8. f[N] = SubSeq(s, 1, Least(N * z, n))
  BY <1>2, <1>7
<1>9. Least(N * z, n) = n
  BY <1>1, <1>2 DEF Least
<1>10. QED
  BY <1>4, <1>8, <1>9, SubSeqFull DEF n

Messages == Seq(Nat)

Contexts == [messages : Messages, summary : Messages]

OpStates == [at : {"idle", "missed", "has", "done"}, sc : {0, 1}]

Results == [index : Nat, text : {"whole", "blank", "error"}]

Jobs ==
    [at : {"no", "started", "map", "reduce", "store", "ended"},
     copy : Messages, working : SUBSET Nat,
     results : Seq(Results),
     summary : Messages, overtaken : BOOLEAN, blank : BOOLEAN]

ContextTypes ==
    /\ contexts \in Seq(Contexts)
    /\ current \in {0, 1}
    /\ op \in [Ops -> OpStates]
    /\ job \in [Compressions -> Jobs]
    /\ appended \in 0 .. MaxMessages
    /\ kept \subseteq 1 .. appended

\* A session has one context, which every operation that has found one works on.
OneContext ==
    /\ Len(contexts) = current
    /\ \A o \in Ops : (op[o].at = "has" => op[o].sc = 1) /\ (op[o].sc = 1 => current = 1)
    /\ \A j \in Compressions : job[j].at # "no" => op[j].at = "done" /\ op[j].sc = 1

\* The result of every segment is in the channel or is being made.
ResultsTrue(j) ==
    /\ job[j].at = "map" =>
          /\ Len(job[j].copy) > KeepRecent
          /\ \A i \in 1 .. Count(j) :
                i \in job[j].working \/ \E r \in Range(job[j].results) : r.index = i
    /\ ~job[j].blank => \A r \in Range(job[j].results) : r.text # "blank"

\* What a summary tells of the messages that were copied.
TellsOf(summary, j) ==
    \/ summary = OldMessages(job[j].copy)
    \/ job[j].blank /\ Range(summary) \subseteq Range(OldMessages(job[j].copy))

JobTrue(j) ==
    /\ job[j].at \in {"reduce", "store"} => job[j].summary = <<>> \/ TellsOf(job[j].summary, j)
    /\ job[j].at \in {"map", "reduce", "store"} /\ ~job[j].overtaken =>
          Range(job[j].copy) \subseteq Range(contexts[1].messages)

\* A stored summary is one of a compression that has ended.
StoredTrue ==
    current = 1 /\ contexts[1].summary # <<>> =>
        /\ \E j \in Compressions : job[j].at = "ended" /\ TellsOf(contexts[1].summary, j)
        /\ (\A j \in Compressions : ~job[j].overtaken)
              => Range(contexts[1].summary) \subseteq Range(contexts[1].messages)

KeptTrue == kept = IF current = 0 THEN {} ELSE Range(contexts[1].messages)

JobsTrue == \A j \in Compressions : ResultsTrue(j) /\ JobTrue(j)

ContextInv == ContextTypes /\ OneContext /\ JobsTrue /\ StoredTrue /\ KeptTrue

-----------------------------------------------------------------------------
\* The old messages are some of the messages, and all there are but the recent.
LEMMA OldIs ==
  ASSUME NEW s \in Messages
  PROVE  /\ OldMessages(s) \in Messages /\ Range(OldMessages(s)) \subseteq Range(s)
         /\ Len(s) > KeepRecent => OldMessages(s) # <<>>
<1> DEFINE n == Len(s) - KeepRecent
           t == SubSeq(s, 1, n)
<1>1. n \in Int /\ n <= Len(s) /\ Len(s) \in Nat /\ s \in Seq(Nat)
  BY ContextAssumption DEF Messages
<1>2. Len(s) > KeepRecent => n > 0
  BY <1>1, ContextAssumption
<1> HIDE DEF n
<1>3. \A i \in 1 .. n : s[i] \in Nat /\ i \in 1 .. Len(s)
  BY <1>1, ElementOfSeq
<1>4. /\ t \in Seq(Nat) /\ Len(t) = (IF 1 <= n THEN n - 1 + 1 ELSE 0)
      /\ \A i \in 1 .. n - 1 + 1 : t[i] = s[1 + i - 1]
  BY <1>1, <1>3, SubSeqProperties
<1>5. Range(t) \subseteq Range(s)
  <2>1. ASSUME NEW i \in 1 .. Len(t) PROVE t[i] \in Range(s)
    <3>1. i \in 1 .. n - 1 + 1 /\ 1 + i - 1 \in 1 .. Len(s)
      BY <1>1, <1>4
    <3>2. QED
      BY <3>1, <1>1, <1>4 DEF Range
  <2>2. QED
    BY <2>1, <1>4 DEF Range
<1>6. Len(s) > KeepRecent => t # <<>>
  BY <1>1, <1>2, <1>4
<1>7. QED
  BY <1>4, <1>5, <1>6 DEF OldMessages, n, Messages

\* What the proofs use of the types.
LEMMA CtxTypes ==
  ASSUME ContextInv
  PROVE  /\ contexts \in Seq(Contexts) /\ current \in {0, 1} /\ Len(contexts) = current
         /\ op \in [Ops -> OpStates] /\ job \in [Compressions -> Jobs] /\ Compressions \subseteq Ops
         /\ appended \in Nat /\ appended <= MaxMessages /\ kept \subseteq 1 .. appended
         /\ current = 1 => contexts[1] \in Contexts
<1>1. contexts \in Seq(Contexts) /\ Len(contexts) = current
  BY DEF ContextInv, ContextTypes, OneContext
<1>2. current = 1 => contexts[1] \in Contexts
  BY <1>1, ElementOfSeq
<1>3. QED
  BY <1>1, <1>2, ContextAssumption DEF ContextInv, ContextTypes, Ops

\* An operation goes on, by which nothing else changes.
LEMMA OpStep ==
  ASSUME ContextInv, NEW o \in Ops, NEW n \in OpStates, op' = [op EXCEPT ![o] = n],
         n.at = "has" => n.sc = 1, n.sc = 1 => current = 1,
         op[o].at # "done",
         UNCHANGED <<contexts, current, job, appended, kept>>
  PROVE  ContextInv'
<1>1. \A p \in Ops : op'[p] = IF p = o THEN n ELSE op[p]
  BY CtxTypes
<1>2. ContextTypes'
  BY CtxTypes DEF ContextTypes, ContextInv
<1>3. OneContext'
  BY <1>1, CtxTypes DEF OneContext, ContextInv
<1>4. JobsTrue' /\ StoredTrue' /\ KeptTrue'
  BY DEF JobsTrue, ResultsTrue, JobTrue, StoredTrue, KeptTrue, TellsOf, Count, ContextInv
<1>5. QED
  BY <1>2, <1>3, <1>4 DEF ContextInv

\* The first look finds the context or misses it.
LEMMA FindKeeps == ASSUME ContextInv, NEW o \in Ops, Find(o) PROVE ContextInv'
<1>1. /\ op[o].at = "idle" /\ UNCHANGED <<contexts, current, job, appended, kept>>
      /\ op[o] \in OpStates /\ op \in [Ops -> OpStates] /\ current \in {0, 1}
  BY CtxTypes DEF Find
<1>2. CASE current # 0
  <2> DEFINE n == [at |-> "has", sc |-> current]
  <2>1. op' = [op EXCEPT ![o] = n]
    BY <1>2 DEF Find, Has
  <2>2. n \in OpStates /\ n.at = "has" /\ n.sc = 1
    BY <1>1, <1>2 DEF OpStates
  <2> HIDE DEF n
  <2>3. QED
    BY <1>1, <1>2, <2>1, <2>2, OpStep
<1>3. CASE current = 0
  <2> DEFINE n == [op[o] EXCEPT !.at = "missed"]
  <2>1. op' = [op EXCEPT ![o] = n]
    BY <1>1, <1>3 DEF Find
  <2>2. n \in OpStates /\ n.at = "missed" /\ n.sc = op[o].sc
    BY <1>1 DEF OpStates
  <2>3. op[o].sc # 1
    BY <1>3 DEF ContextInv, OneContext
  <2> HIDE DEF n
  <2>4. QED
    BY <1>1, <2>1, <2>2, <2>3, OpStep
<1>4. QED
  BY <1>2, <1>3

\* Whoever missed it looks again under the lock, and makes one only if there is none.
LEMMA MakeKeeps == ASSUME ContextInv, NEW o \in Ops, Make(o) PROVE ContextInv'
<1>1. /\ op[o].at = "missed" /\ UNCHANGED <<job, appended, kept>>
      /\ op \in [Ops -> OpStates] /\ current \in {0, 1}
  BY CtxTypes DEF Make
<1>2. CASE current # 0
  <2> DEFINE n == [at |-> "has", sc |-> current]
  <2>1. op' = [op EXCEPT ![o] = n] /\ UNCHANGED <<contexts, current>>
    BY <1>2 DEF Make, Has, SeesOneNow
  <2>2. n \in OpStates /\ n.at = "has" /\ n.sc = 1
    BY <1>1, <1>2 DEF OpStates
  <2> HIDE DEF n
  <2>3. QED
    BY <1>1, <1>2, <2>1, <2>2, OpStep
<1>3. CASE current = 0
  <2>1. /\ contexts' = Append(contexts, NewContext) /\ current' = Len(contexts')
        /\ op' = [op EXCEPT ![o] = [at |-> "has", sc |-> current']]
    BY <1>3 DEF Make, Has, SeesOneNow
  <2>2. NewContext \in Contexts /\ NewContext.messages = <<>> /\ NewContext.summary = <<>>
    BY DEF NewContext, Contexts, Messages
  <2>3. /\ contexts' \in Seq(Contexts) /\ Len(contexts') = 1 /\ contexts'[1] = NewContext
    BY <1>3, <2>1, <2>2, CtxTypes, AppendProperties
  <2> DEFINE n == [at |-> "has", sc |-> 1]
  <2>4. op' = [op EXCEPT ![o] = n] /\ n \in OpStates /\ n.sc = 1
    BY <2>1, <2>3 DEF OpStates
  <2> HIDE DEF n
  <2>5. ContextTypes'
    BY <1>1, <2>1, <2>3, <2>4, CtxTypes DEF ContextTypes, ContextInv
  <2>6. \A p \in Ops : op'[p] = IF p = o THEN n ELSE op[p]
    BY <1>1, <2>4
  <2>7. ASSUME NEW j \in Compressions PROVE job[j].at = "no"
    <3>1. j \in Ops
      BY DEF Ops
    <3>2. job[j].at # "no" => op[j].sc = 1
      BY DEF ContextInv, OneContext
    <3>3. op[j].sc = 1 => current = 1
      BY <3>1 DEF ContextInv, OneContext
    <3>4. QED
      BY <1>3, <3>2, <3>3
  <2>8. OneContext'
    BY <1>1, <2>1, <2>3, <2>4, <2>6, <2>7 DEF OneContext, ContextInv
  <2>9. JobsTrue' /\ StoredTrue'
    BY <1>1, <2>1, <2>2, <2>3, <2>7
       DEF JobsTrue, ResultsTrue, JobTrue, StoredTrue, TellsOf, Count, ContextInv
  <2>10. KeptTrue'
    <3>1. kept = {} /\ Range(NewContext.messages) = {}
      BY <1>3, <2>2 DEF KeptTrue, ContextInv, Range
    <3>2. QED
      BY <1>1, <2>1, <2>3, <3>1 DEF KeptTrue
  <2>11. QED
    BY <2>5, <2>8, <2>9, <2>10 DEF ContextInv
<1>4. QED
  BY <1>2, <1>3

\* An operation that ends leaves the others where they are.
LEMMA OverIs ==
  ASSUME ContextInv, NEW o \in Ops, NEW at \in {"idle", "done"}, Over(o, at), op[o].at = "has",
         UNCHANGED current, Len(contexts') = current',
         \A j \in Compressions : job'[j].at = job[j].at
  PROVE  op' \in [Ops -> OpStates] /\ OneContext'
<1> DEFINE n == [at |-> at, sc |-> 0]
<1>1. n \in OpStates /\ n.at = at /\ n.sc = 0
  BY DEF OpStates
<1>2. op' = [op EXCEPT ![o] = n]
  BY DEF Over
<1> HIDE DEF n
<1>3. \A p \in Ops : op'[p] = IF p = o THEN n ELSE op[p]
  BY <1>2, CtxTypes
<1>4. QED
  BY <1>1, <1>2, <1>3, CtxTypes DEF OneContext, ContextInv

\* A message is appended to the one context.
LEMMA AppendMessageKeeps ==
  ASSUME ContextInv, NEW a \in Appenders, AppendMessage(a)
  PROVE  ContextInv'
<1>1. /\ op[a].at = "has" /\ Over(a, "idle") /\ UNCHANGED <<current, job>> /\ a \in Ops
  BY DEF AppendMessage, Ops
<1>2. op[a].sc = 1 /\ current = 1
  BY <1>1 DEF ContextInv, OneContext
<1>3. CASE UNCHANGED <<contexts, appended, kept>>
  <2>1. op' \in [Ops -> OpStates] /\ OneContext'
    BY <1>1, <1>3, CtxTypes, OverIs
  <2>2. ContextTypes'
    BY <2>1, <1>1, <1>3 DEF ContextTypes, ContextInv
  <2>3. JobsTrue' /\ StoredTrue' /\ KeptTrue'
    BY <1>1, <1>3 DEF JobsTrue, ResultsTrue, JobTrue, StoredTrue, KeptTrue, TellsOf, Count, ContextInv
  <2>4. QED
    BY <2>1, <2>2, <2>3 DEF ContextInv
<1>4. CASE ~UNCHANGED <<contexts, appended, kept>>
  <2> DEFINE m == appended'
             old == contexts[1].messages
             new == Append(old, m)
             c == [contexts[1] EXCEPT !.messages = new]
  <2>1. /\ appended < MaxMessages /\ m = appended + 1 /\ kept' = kept \union {m}
        /\ contexts' = [contexts EXCEPT ![1].messages = Append(contexts[1].messages, m)]
    BY <1>2, <1>4 DEF AppendMessage
  <2>2. contexts' = [contexts EXCEPT ![1] = c]
    BY <2>1, CtxTypes
  <2>3. m \in Nat /\ m <= MaxMessages /\ appended \in Nat
    BY <2>1, CtxTypes, ContextAssumption
  <2> HIDE DEF m
  <2>4. contexts[1] \in Contexts /\ old \in Seq(Nat) /\ 1 \in 1 .. Len(contexts)
    <3>1. contexts[1] \in Contexts /\ Len(contexts) = 1
      BY <1>2, CtxTypes
    <3>2. QED
      BY <3>1 DEF Contexts, Messages
  <2>5. new \in Seq(Nat) /\ Range(new) = Range(old) \union {m}
    <3>1. new \in Seq(Nat) /\ Len(new) = Len(old) + 1
          /\ (\A i \in 1 .. Len(old) : new[i] = old[i]) /\ new[Len(old) + 1] = m
      BY <2>3, <2>4, AppendProperties
    <3>2. DOMAIN new = 1 .. Len(old) + 1 /\ DOMAIN old = 1 .. Len(old) /\ Len(old) \in Nat
      BY <3>1, <2>4
    <3> HIDE DEF new, old
    <3>3. \A i \in DOMAIN new : i \in DOMAIN old \/ i = Len(old) + 1
      BY <3>2
    <3>4. DOMAIN old \subseteq DOMAIN new /\ Len(old) + 1 \in DOMAIN new
      BY <3>2
    <3>5. QED
      BY <3>1, <3>2, <3>3, <3>4 DEF Range
  <2> HIDE DEF new
  <2>6. c \in Contexts /\ c.messages = new /\ c.summary = contexts[1].summary
    BY <2>4, <2>5 DEF Contexts, Messages
  <2> HIDE DEF c
  <2>7. contexts' \in Seq(Contexts) /\ Len(contexts') = Len(contexts) /\ contexts'[1] = c
    BY <2>2, <2>4, <2>6, CtxTypes, ExceptSeq
  <2>8. op' \in [Ops -> OpStates] /\ OneContext'
    BY <1>1, <2>7, CtxTypes, OverIs
  <2>9. ContextTypes'
    BY <1>1, <2>1, <2>3, <2>7, <2>8, CtxTypes, ContextAssumption DEF ContextTypes, ContextInv, m
  <2>10. JobsTrue'
    BY <1>1, <2>5, <2>6, <2>7 DEF JobsTrue, ResultsTrue, JobTrue, TellsOf, Count, ContextInv, old
  <2>11. StoredTrue'
    BY <1>1, <2>5, <2>6, <2>7 DEF StoredTrue, TellsOf, ContextInv, old
  <2>12. KeptTrue'
    <3>1. kept = Range(old) /\ current' = 1
      BY <1>1, <1>2 DEF KeptTrue, ContextInv
    <3>2. contexts'[1].messages = new
      BY <2>6, <2>7
    <3> HIDE DEF old
    <3>3. kept' = Range(contexts'[1].messages)
      BY <2>1, <2>5, <3>1, <3>2
    <3>4. QED
      BY <3>1, <3>3 DEF KeptTrue
  <2>13. QED
    BY <2>8, <2>9, <2>10, <2>11, <2>12 DEF ContextInv
<1>5. QED
  BY <1>3, <1>4

\* Clear empties it, and overtakes the compressions that are under way.
LEMMA ClearKeeps == ASSUME ContextInv, NEW c \in Clearers, Clear(c) PROVE ContextInv'
<1>1. /\ op[c].at = "has" /\ Over(c, "done") /\ UNCHANGED <<current, appended>> /\ c \in Ops
      /\ kept' = {} /\ job' = [j \in Compressions |-> Overtaken(j)]
      /\ contexts' = [contexts EXCEPT ![op[c].sc] = NewContext]
  BY DEF Clear, Ops, Cleared
<1>2. op[c].sc = 1 /\ current = 1
  BY <1>1 DEF ContextInv, OneContext
<1>3. NewContext \in Contexts /\ NewContext.messages = <<>> /\ NewContext.summary = <<>>
  BY DEF NewContext, Contexts, Messages
<1>4. contexts' \in Seq(Contexts) /\ Len(contexts') = Len(contexts) /\ contexts'[1] = NewContext
  <2>1. contexts' = [contexts EXCEPT ![1] = NewContext]
    BY <1>1, <1>2
  <2>2. contexts \in Seq(Contexts) /\ Len(contexts) = 1
    BY <1>2, CtxTypes
  <2>3. 1 \in 1 .. Len(contexts)
    BY <2>2
  <2>4. PICK e \in Contexts : e = NewContext
    BY <1>3
  <2>5. contexts' = [contexts EXCEPT ![1] = e]
    BY <2>1, <2>4
  <2>6. contexts' \in Seq(Contexts) /\ Len(contexts') = Len(contexts) /\ contexts'[1] = e
    BY <2>2, <2>3, <2>5, ExceptSeq
  <2>7. QED
    BY <2>4, <2>6
<1>5. ASSUME NEW j \in Compressions
      PROVE  /\ job'[j] \in Jobs /\ job'[j].at = job[j].at /\ job'[j].copy = job[j].copy
             /\ job'[j].working = job[j].working /\ job'[j].results = job[j].results
             /\ job'[j].summary = job[j].summary /\ job'[j].blank = job[j].blank
             /\ job[j].at \in {"map", "reduce", "store"} => job'[j].overtaken
  <2> DEFINE v == job[j].overtaken \/ job[j].at \notin {"no", "started", "ended"}
  <2>1. job[j] \in Jobs /\ v \in BOOLEAN
    BY CtxTypes DEF Jobs
  <2>2. job'[j] = [job[j] EXCEPT !.overtaken = v]
    BY <1>1, <2>1 DEF Overtaken, Jobs
  <2>3. job[j].at \in {"map", "reduce", "store"} => v
    OBVIOUS
  <2> HIDE DEF v
  <2>4. QED
    BY <2>1, <2>2, <2>3 DEF Jobs
<1>6. op' \in [Ops -> OpStates] /\ OneContext'
  BY <1>1, <1>4, <1>5, CtxTypes, OverIs
<1>7. ContextTypes'
  <2>1. job' \in [Compressions -> Jobs]
    BY <1>1, <1>5
  <2>2. QED
    BY <2>1, <1>1, <1>4, <1>6 DEF ContextTypes, ContextInv
<1>8. JobsTrue'
  BY <1>5 DEF JobsTrue, ResultsTrue, JobTrue, TellsOf, Count, ContextInv
<1>9. StoredTrue'
  BY <1>3, <1>4 DEF StoredTrue
<1>10. KeptTrue'
  <2>1. Range(NewContext.messages) = {}
    BY <1>3 DEF Range
  <2>2. QED
    BY <2>1, <1>1, <1>4 DEF KeptTrue
<1>11. QED
  BY <1>6, <1>7, <1>8, <1>9, <1>10 DEF ContextInv

\* An element more.
LEMMA AppendRange ==
  ASSUME NEW S, NEW s \in Seq(S), NEW e \in S
  PROVE  Range(Append(s, e)) = Range(s) \union {e}
<1> DEFINE t == Append(s, e)
<1>1. t \in Seq(S) /\ Len(t) = Len(s) + 1 /\ (\A i \in 1 .. Len(s) : t[i] = s[i]) /\ t[Len(s) + 1] = e
  BY AppendProperties
<1>2. DOMAIN t = 1 .. Len(s) + 1 /\ DOMAIN s = 1 .. Len(s) /\ Len(s) \in Nat
  BY <1>1
<1> HIDE DEF t
<1>3. \A i \in DOMAIN t : i \in DOMAIN s \/ i = Len(s) + 1
  BY <1>2
<1>4. DOMAIN s \subseteq DOMAIN t /\ Len(s) + 1 \in DOMAIN t
  BY <1>2
<1>5. Range(t) = Range(s) \union {e}
  BY <1>1, <1>2, <1>3, <1>4 DEF Range
<1>6. QED
  BY <1>5 DEF t

\* A compression begins when there are enough messages.
LEMMA CompressKeeps == ASSUME ContextInv, NEW j \in Compressions, Compress(j) PROVE ContextInv'
<1> DEFINE n == [job[j] EXCEPT !.at = "started"]
           m == [op[j] EXCEPT !.at = "done"]
<1>1. /\ op[j].at = "has" /\ j \in Ops /\ op[j] \in OpStates /\ job[j] \in Jobs
      /\ UNCHANGED <<contexts, current, appended, kept>>
  BY CtxTypes DEF Compress
<1>2. op[j].sc = 1 /\ current = 1
  BY <1>1 DEF ContextInv, OneContext
<1>3. job[j].at = "no"
  BY <1>1 DEF ContextInv, OneContext
<1>4. op' = [op EXCEPT ![j] = m] /\ job' = [job EXCEPT ![j] = n]
  BY DEF Compress
<1>5. m \in OpStates /\ m.at = "done" /\ m.sc = 1
  BY <1>1, <1>2 DEF OpStates
<1>6. /\ n \in Jobs /\ n.at = "started" /\ n.copy = job[j].copy /\ n.working = job[j].working
      /\ n.results = job[j].results /\ n.summary = job[j].summary /\ n.blank = job[j].blank
      /\ n.overtaken = job[j].overtaken
  BY <1>1 DEF Jobs
<1> HIDE DEF n, m
<1>7. \A p \in Ops : op'[p] = IF p = j THEN m ELSE op[p]
  BY <1>4, CtxTypes
<1>8. \A i \in Compressions : job'[i] = IF i = j THEN n ELSE job[i]
  BY <1>4, CtxTypes
<1>9. ContextTypes'
  BY <1>1, <1>4, <1>5, <1>6, CtxTypes DEF ContextTypes, ContextInv
<1>10. OneContext'
  BY <1>1, <1>2, <1>5, <1>6, <1>7, <1>8, CtxTypes DEF OneContext, ContextInv
<1>11. ASSUME NEW i \in Compressions PROVE ResultsTrue(i)' /\ JobTrue(i)'
  <2>1. ResultsTrue(i) /\ JobTrue(i)
    BY DEF ContextInv, JobsTrue
  <2>2. CASE i = j
    BY <1>1, <1>6, <1>8, <2>1, <2>2 DEF ResultsTrue, JobTrue
  <2>3. CASE i # j
    BY <1>1, <1>8, <2>1, <2>3 DEF ResultsTrue, JobTrue, TellsOf, Count
  <2>4. QED
    BY <2>2, <2>3
<1>12. StoredTrue'
  BY <1>1, <1>3, <1>6, <1>8 DEF StoredTrue, TellsOf, ContextInv
<1>13. KeptTrue'
  BY <1>1 DEF KeptTrue, ContextInv
<1>14. QED
  BY <1>9, <1>10, <1>11, <1>12, <1>13 DEF ContextInv, JobsTrue

\* The goroutine of a compression goes on, by which nothing else changes.
LEMMA JobGoes ==
  ASSUME ContextInv, NEW j \in Compressions, NEW n \in Jobs, job' = [job EXCEPT ![j] = n],
         job[j].at \notin {"no", "ended"}, n.at # "no", n.overtaken = job[j].overtaken,
         UNCHANGED <<contexts, current, op, appended, kept>>,
         ResultsTrue(j)', JobTrue(j)'
  PROVE  ContextInv'
<1>1. \A i \in Compressions : job'[i] = IF i = j THEN n ELSE job[i]
  BY CtxTypes
<1>2. ContextTypes'
  BY CtxTypes DEF ContextTypes, ContextInv
<1>3. OneContext'
  BY <1>1 DEF OneContext, ContextInv
<1>4. ASSUME NEW i \in Compressions PROVE ResultsTrue(i)' /\ JobTrue(i)'
  <2>1. ResultsTrue(i) /\ JobTrue(i)
    BY DEF ContextInv, JobsTrue
  <2>2. CASE i # j
    BY <1>1, <2>1, <2>2 DEF ResultsTrue, JobTrue, TellsOf, Count
  <2>3. QED
    BY <2>2
<1>5. StoredTrue'
  <2>1. \A i \in Compressions : job'[i].overtaken = job[i].overtaken
    BY <1>1
  <2>2. ASSUME NEW i \in Compressions, job[i].at = "ended" PROVE job'[i] = job[i]
    BY <1>1, <2>2
  <2>3. QED
    BY <2>1, <2>2 DEF StoredTrue, TellsOf, ContextInv
<1>6. KeptTrue'
  BY DEF KeptTrue, ContextInv
<1>7. QED
  BY <1>2, <1>3, <1>4, <1>5, <1>6 DEF ContextInv, JobsTrue

\* What a compression's goroutine finds: its context is the session's one.
LEMMA JobHas ==
  ASSUME ContextInv, NEW j \in Compressions, job[j].at # "no"
  PROVE  /\ op[j].sc = 1 /\ current = 1 /\ Len(contexts) = 1 /\ contexts[1] \in Contexts
         /\ job[j] \in Jobs
<1>1. op[j].sc = 1 /\ j \in Ops
  BY DEF ContextInv, OneContext, Ops
<1>2. current = 1
  BY <1>1 DEF ContextInv, OneContext
<1>3. QED
  BY <1>1, <1>2, CtxTypes

\* The copy is what the messages are at this moment.
LEMMA CopyJobKeeps == ASSUME ContextInv, NEW j \in Compressions, Copy(j) PROVE ContextInv'
<1> DEFINE messages == contexts[1].messages
           at == IF Len(messages) <= KeepRecent THEN "ended" ELSE "map"
           work == 1 .. Segments(Len(OldMessages(messages)))
           n == [job[j] EXCEPT !.copy = messages, !.at = at, !.working = work]
<1>1. /\ job[j].at = "started" /\ UNCHANGED <<contexts, current, op, appended, kept>>
      /\ op[j].sc = 1 /\ contexts[1] \in Contexts /\ job[j] \in Jobs
  BY JobHas DEF Copy
<1>2. job' = [job EXCEPT ![j] = n]
  BY <1>1 DEF Copy
<1>3. messages \in Messages /\ work \subseteq Nat /\ at \in {"ended", "map"}
      /\ (at = "map" => Len(messages) > KeepRecent)
  BY <1>1, ContextAssumption DEF Contexts, Messages
<1> HIDE DEF messages, at, work
<1>4. /\ n \in Jobs /\ n.at = at /\ n.copy = messages /\ n.working = work
      /\ n.results = job[j].results /\ n.summary = job[j].summary /\ n.blank = job[j].blank
      /\ n.overtaken = job[j].overtaken
  BY <1>1, <1>3 DEF Jobs
<1> HIDE DEF n
<1>5. job'[j] = n
  BY <1>2, CtxTypes
<1>6. ResultsTrue(j) /\ JobTrue(j)
  BY DEF ContextInv, JobsTrue
<1>7. ResultsTrue(j)'
  BY <1>3, <1>4, <1>5, <1>6 DEF ResultsTrue, Count, work
<1>8. JobTrue(j)'
  BY <1>1, <1>3, <1>4, <1>5 DEF JobTrue, messages
<1>9. QED
  BY <1>1, <1>2, <1>3, <1>4, <1>7, <1>8, JobGoes

\* A segment's goroutine sends its part, an empty one or an error.
LEMMA SummarizeKeeps ==
  ASSUME ContextInv, NEW j \in Compressions, NEW i, Summarize(j, i)
  PROVE  ContextInv'
<1>1. /\ job[j].at = "map" /\ i \in job[j].working /\ job[j] \in Jobs
      /\ UNCHANGED <<contexts, current, op, appended, kept>>
  BY JobHas DEF Summarize
<1>2. PICK text \in {"whole", "blank", "error"} :
          job' = [job EXCEPT
                    ![j].working = job[j].working \ {i},
                    ![j].blank = job[j].blank \/ text = "blank",
                    ![j].results = Append(job[j].results, [index |-> i, text |-> text])]
  BY DEF Summarize
<1> DEFINE r == [index |-> i, text |-> text]
           left == job[j].working \ {i}
           blank == job[j].blank \/ text = "blank"
           results == Append(job[j].results, r)
           n == [job[j] EXCEPT !.working = left, !.blank = blank, !.results = results]
<1>3. job' = [job EXCEPT ![j] = n]
  BY <1>2, CtxTypes
<1>4. r \in Results /\ r.index = i /\ r.text = text
  BY <1>1 DEF Results, Jobs
<1> HIDE DEF r
<1>5. /\ results \in Seq(Results) /\ left \subseteq Nat /\ blank \in BOOLEAN
      /\ Range(results) = Range(job[j].results) \union {r}
  <2>1. job[j].results \in Seq(Results) /\ left \subseteq Nat /\ blank \in BOOLEAN
    BY <1>1 DEF Jobs
  <2>2. QED
    BY <2>1, <1>4, AppendProperties, AppendRange
<1>6. \A k : k \in job[j].working => k \in left \/ k = i
  OBVIOUS
<1>7. (blank <=> job[j].blank \/ text = "blank")
  OBVIOUS
<1> HIDE DEF left, blank, results
<1>8. /\ n \in Jobs /\ n.at = "map" /\ n.copy = job[j].copy /\ n.working = left
      /\ n.results = results /\ n.summary = job[j].summary /\ n.blank = blank
      /\ n.overtaken = job[j].overtaken
  BY <1>1, <1>5 DEF Jobs
<1> HIDE DEF n
<1>9. job'[j] = n
  BY <1>3, CtxTypes
<1>10. ResultsTrue(j) /\ JobTrue(j)
  BY DEF ContextInv, JobsTrue
<1>11. ResultsTrue(j)'
  BY <1>1, <1>4, <1>5, <1>6, <1>7, <1>8, <1>9, <1>10 DEF ResultsTrue, Count
<1>12. JobTrue(j)'
  BY <1>1, <1>8, <1>9, <1>10 DEF JobTrue
<1>13. QED
  BY <1>1, <1>3, <1>8, <1>11, <1>12, JobGoes

\* The summaries that were collected tell of the messages that were copied.
LEMMA CollectedTells ==
  ASSUME ContextInv, NEW j \in Compressions, job[j].at = "map", job[j].working = {},
         ~ \E r \in Range(job[j].results) : r.text = "error"
  PROVE  InOrder(j) \in Messages /\ TellsOf(InOrder(j), j)
<1> DEFINE old == OldMessages(job[j].copy)
           N == Count(j)
           res(i) == CHOOSE r \in Range(job[j].results) : r.index = i
           p == [i \in 1 .. N |-> Told(j, res(i))]
<1>1. job[j] \in Jobs /\ job[j].copy \in Messages /\ job[j].results \in Seq(Results)
  BY JobHas DEF Jobs
<1>2. ResultsTrue(j)
  BY DEF ContextInv, JobsTrue
<1>3. old \in Seq(Nat) /\ old # <<>>
  BY <1>1, <1>2, OldIs DEF ResultsTrue, Messages
<1>4. N = Segments(Len(old)) /\ Len(old) \in Nat \ {0}
  BY <1>3, EmptySeq DEF Count
<1>5. N \in Nat \ {0}
  BY <1>4, SegmentsCover
<1>6. ASSUME NEW i \in 1 .. N
      PROVE  /\ res(i) \in Range(job[j].results) /\ res(i).index = i
             /\ res(i).text \in {"whole", "blank"}
             /\ ~job[j].blank => res(i).text = "whole"
  <2>1. \E r \in Range(job[j].results) : r.index = i
    BY <1>2 DEF ResultsTrue
  <2>2. res(i) \in Range(job[j].results) /\ res(i).index = i
    BY <2>1
  <2> HIDE DEF res
  <2>3. res(i) \in Results /\ res(i).text # "error"
    BY <2>2, <1>1, RangeOfSeq
  <2>4. ~job[j].blank => res(i).text # "blank"
    BY <2>2, <1>2 DEF ResultsTrue
  <2>5. QED
    BY <2>2, <2>3, <2>4 DEF Results
<1>7. ASSUME NEW i \in 1 .. N
      PROVE  /\ Told(j, res(i)) = IF res(i).text = "whole" THEN Segment(old, i) ELSE <<>>
             /\ Told(j, res(i)) \in Seq(Nat) /\ Range(Told(j, res(i))) \subseteq Range(old)
  <2>1. res(i).index = i
    BY <1>6
  <2> HIDE DEF res
  <2>2. Told(j, res(i)) = IF res(i).text = "whole" THEN Segment(old, i) ELSE <<>>
    BY <2>1 DEF Told
  <2>3. Segment(old, i) \in Seq(Nat) /\ Range(Segment(old, i)) \subseteq Range(old)
    BY <1>3, <1>4, SegmentIs
  <2>4. <<>> \in Seq(Nat) /\ Range(<<>>) \subseteq Range(old)
    BY DEF Range
  <2>5. QED
    BY <2>2, <2>3, <2>4
<1>8. InOrder(j) = FlattenSeq(p)
  BY DEF InOrder
<1>9. FlattenSeq(p) \in Seq(Nat) /\ Range(FlattenSeq(p)) \subseteq Range(old)
  <2>1. p \in [1 .. N -> Seq(Nat)] /\ \A i \in 1 .. N : Range(p[i]) \subseteq Range(old)
    BY <1>7
  <2> HIDE DEF p, N, old
  <2>2. QED
    BY <2>1, <1>5, FlattenRange
<1>10. CASE job[j].blank
  BY <1>8, <1>9, <1>10 DEF TellsOf, Messages
<1>11. CASE ~job[j].blank
  <2>1. \A i \in 1 .. N : Told(j, res(i)) = Segment(old, i)
    BY <1>6, <1>7, <1>11
  <2>2. p = [i \in 1 .. Segments(Len(old)) |-> Segment(old, i)]
    BY <2>1, <1>4
  <2> HIDE DEF p, N, old
  <2>3. FlattenSeq(p) = old
    BY <2>2, <1>3, FlattenSegments
  <2>4. QED
    BY <2>3, <1>8, <1>9 DEF TellsOf, Messages, old
<1>12. QED
  BY <1>10, <1>11

\* A compression that goes on to the next stage with what is known of its summary.
LEMMA JobAt ==
  ASSUME ContextInv, NEW j \in Compressions, job[j].at \in {"map", "reduce", "store"},
         NEW at \in {"reduce", "store", "ended"}, NEW summary \in Messages,
         job' = [job EXCEPT ![j].at = at, ![j].summary = summary],
         at # "ended" => summary = <<>> \/ TellsOf(summary, j),
         UNCHANGED <<contexts, current, op, appended, kept>>
  PROVE  ContextInv'
<1> DEFINE n == [job[j] EXCEPT !.at = at, !.summary = summary]
<1>1. job' = [job EXCEPT ![j] = n] /\ job[j] \in Jobs
  BY CtxTypes
<1>2. /\ n \in Jobs /\ n.at = at /\ n.copy = job[j].copy /\ n.working = job[j].working
      /\ n.results = job[j].results /\ n.summary = summary /\ n.blank = job[j].blank
      /\ n.overtaken = job[j].overtaken
  BY <1>1 DEF Jobs
<1> HIDE DEF n
<1>3. job'[j] = n
  BY <1>1, CtxTypes
<1>4. ResultsTrue(j) /\ JobTrue(j)
  BY DEF ContextInv, JobsTrue
<1>5. ResultsTrue(j)'
  BY <1>2, <1>3, <1>4 DEF ResultsTrue
<1>6. JobTrue(j)'
  BY <1>2, <1>3, <1>4 DEF JobTrue, TellsOf
<1>7. QED
  BY <1>1, <1>2, <1>5, <1>6, JobGoes

\* A compression that only goes on.
LEMMA GoesIs ==
  ASSUME ContextInv, NEW j \in Compressions, NEW at, Goes(j, at)
  PROVE  /\ job' = [job EXCEPT ![j].at = at, ![j].summary = job[j].summary]
         /\ job[j].summary \in Messages
<1>1. job \in [Compressions -> Jobs] /\ job[j] \in Jobs
  BY CtxTypes
<1>2. [job[j] EXCEPT !.at = at] = [job[j] EXCEPT !.at = at, !.summary = job[j].summary]
  BY <1>1 DEF Jobs
<1>3. job' = [job EXCEPT ![j] = [job[j] EXCEPT !.at = at]]
  BY <1>1 DEF Goes
<1>4. job' = [job EXCEPT ![j] = [job[j] EXCEPT !.at = at, !.summary = job[j].summary]]
  BY <1>2, <1>3
<1>5. job[j].summary \in Messages
  BY <1>1 DEF Jobs
<1>6. QED
  BY <1>1, <1>4, <1>5

\* When all have ended each part is there, once or with an error, and they are put in order.
LEMMA CollectKeeps == ASSUME ContextInv, NEW j \in Compressions, Collect(j) PROVE ContextInv'
<1>1. /\ job[j].at = "map" /\ job[j].working = {}
      /\ UNCHANGED <<contexts, current, op, appended, kept>>
  BY DEF Collect
<1>2. CASE \E r \in Range(job[j].results) : r.text = "error"
  <2>1. Goes(j, "ended")
    BY <1>2 DEF Collect
  <2>2. QED
    BY <1>1, <2>1, GoesIs, JobAt
<1>3. CASE ~ \E r \in Range(job[j].results) : r.text = "error"
  <2> DEFINE at == IF Count(j) = 1 THEN "store" ELSE "reduce"
             summary == InOrder(j)
  <2>1. job' = [job EXCEPT ![j].summary = summary, ![j].at = at]
    BY <1>3 DEF Collect
  <2>2. summary \in Messages /\ TellsOf(summary, j)
    BY <1>1, <1>3, CollectedTells
  <2>3. at \in {"reduce", "store", "ended"}
    OBVIOUS
  <2> HIDE DEF at, summary
  <2>4. job' = [job EXCEPT ![j].at = at, ![j].summary = summary]
    BY <2>1, CtxTypes DEF Jobs
  <2>5. QED
    BY <1>1, <2>2, <2>3, <2>4, JobAt
<1>4. QED
  BY <1>2, <1>3

\* The merged summary is the parts in order.
LEMMA ReduceKeeps == ASSUME ContextInv, NEW j \in Compressions, Reduce(j) PROVE ContextInv'
<1>1. job[j].at = "reduce" /\ UNCHANGED <<contexts, current, op, appended, kept>>
  BY DEF Reduce
<1>2. job[j].summary = <<>> \/ TellsOf(job[j].summary, j)
  BY <1>1 DEF ContextInv, JobsTrue, JobTrue
<1>3. CASE Goes(j, "store")
  BY <1>1, <1>2, <1>3, GoesIs, JobAt
<1>4. CASE job' = [job EXCEPT ![j].at = "store", ![j].summary = <<>>]
  <2>1. <<>> \in Messages
    BY DEF Messages
  <2>2. QED
    BY <1>1, <1>4, <2>1, JobAt
<1>5. CASE Goes(j, "ended")
  <2>1. /\ job' = [job EXCEPT ![j].at = "ended", ![j].summary = job[j].summary]
        /\ job[j].summary \in Messages
    BY <1>5, GoesIs
  <2>2. QED
    BY <1>1, <2>1, JobAt
<1>6. QED
  BY <1>3, <1>4, <1>5 DEF Reduce

\* What is stored tells of the copy, and of messages still there unless it was overtaken.
LEMMA StoreSummaryKeeps == ASSUME ContextInv, NEW j \in Compressions, Store(j) PROVE ContextInv'
<1>1. /\ job[j].at = "store" /\ Goes(j, "ended") /\ UNCHANGED <<current, op, appended, kept>>
  BY DEF Store
<1>2. op[j].sc = 1 /\ current = 1 /\ Len(contexts) = 1 /\ contexts[1] \in Contexts /\ job[j] \in Jobs
  BY <1>1, JobHas
<1>3. CASE job[j].summary = <<>>
  <2>1. contexts' = contexts
    BY <1>3 DEF Store
  <2>2. /\ job' = [job EXCEPT ![j].at = "ended", ![j].summary = job[j].summary]
        /\ job[j].summary \in Messages
    BY <1>1, GoesIs
  <2>3. QED
    BY <1>1, <2>1, <2>2, JobAt
<1>4. CASE job[j].summary # <<>>
  <2> DEFINE summary == job[j].summary
             c == [contexts[1] EXCEPT !.summary = summary]
             n == [job[j] EXCEPT !.at = "ended"]
  <2>1. contexts' = [contexts EXCEPT ![1] = c]
    BY <1>2, <1>4, CtxTypes DEF Store
  <2>2. c \in Contexts /\ c.messages = contexts[1].messages /\ c.summary = summary
    BY <1>2 DEF Contexts, Jobs
  <2>3. job' = [job EXCEPT ![j] = n]
    BY <1>1, CtxTypes DEF Goes
  <2>4. /\ n \in Jobs /\ n.at = "ended" /\ n.copy = job[j].copy /\ n.working = job[j].working
        /\ n.results = job[j].results /\ n.summary = summary /\ n.blank = job[j].blank
        /\ n.overtaken = job[j].overtaken
    BY <1>2 DEF Jobs
  <2> HIDE DEF c, n
  <2>5. \A i \in Compressions : job'[i] = IF i = j THEN n ELSE job[i]
    BY <2>3, CtxTypes
  <2>6. contexts' \in Seq(Contexts) /\ Len(contexts') = 1 /\ contexts'[1] = c
    <3>1. contexts \in Seq(Contexts) /\ 1 \in 1 .. Len(contexts)
      BY <1>2, CtxTypes
    <3>2. c \in Contexts
      BY <2>2
    <3>3. /\ contexts' \in Seq(Contexts) /\ Len(contexts') = Len(contexts)
          /\ contexts'[1] = c
      BY <2>1, <3>1, <3>2, ExceptSeq
    <3>4. QED
      BY <1>2, <3>3
  <2>7. ContextTypes'
    BY <1>1, <2>3, <2>4, <2>6, CtxTypes DEF ContextTypes, ContextInv
  <2>8. OneContext'
    BY <1>1, <1>2, <2>4, <2>5, <2>6 DEF OneContext, ContextInv
  <2>9. JobsTrue'
    <3>1. ASSUME NEW i \in Compressions PROVE ResultsTrue(i)' /\ JobTrue(i)'
      <4>1. ResultsTrue(i) /\ JobTrue(i)
        BY DEF ContextInv, JobsTrue
      <4>2. CASE i = j
        BY <2>4, <2>5, <4>1, <4>2 DEF ResultsTrue, JobTrue
      <4>3. CASE i # j
        BY <2>2, <2>5, <2>6, <4>1, <4>3 DEF ResultsTrue, JobTrue, TellsOf, Count
      <4>4. QED
        BY <4>2, <4>3
    <3>2. QED
      BY <3>1 DEF JobsTrue
  <2>10. StoredTrue'
    <3>1. JobTrue(j) /\ TellsOf(summary, j)
      BY <1>1, <1>4 DEF ContextInv, JobsTrue, JobTrue
    <3>2. job'[j].at = "ended" /\ TellsOf(summary, j)'
      BY <3>1, <2>4, <2>5 DEF TellsOf
    <3>3. contexts'[1].summary = summary /\ contexts'[1].messages = contexts[1].messages
      BY <2>2, <2>6
    <3>4. ASSUME ~job[j].overtaken PROVE Range(summary) \subseteq Range(contexts[1].messages)
      <4>1. Range(job[j].copy) \subseteq Range(contexts[1].messages)
        BY <1>1, <3>1, <3>4 DEF JobTrue
      <4>2. Range(summary) \subseteq Range(OldMessages(job[j].copy))
        BY <3>1 DEF TellsOf
      <4>3. Range(OldMessages(job[j].copy)) \subseteq Range(job[j].copy)
        BY <1>2, OldIs DEF Jobs
      <4>4. QED
        BY <4>1, <4>2, <4>3
    <3>5. job'[j].overtaken = job[j].overtaken
      BY <2>4, <2>5
    <3>6. \E i \in Compressions : job'[i].at = "ended" /\ TellsOf(contexts[1].summary, i)'
      <4>1. contexts'[1].summary = job'[j].summary
        BY <2>4, <2>5, <3>3
      <4>2. TellsOf(contexts[1].summary, j)'
        BY <3>2, <4>1 DEF TellsOf
      <4>3. QED
        BY <3>2, <4>2
    <3>7. (\A i \in Compressions : ~job'[i].overtaken)
              => Range(contexts'[1].summary) \subseteq Range(contexts'[1].messages)
      BY <3>3, <3>4, <3>5
    <3>8. QED
      BY <3>6, <3>7 DEF StoredTrue
  <2>11. KeptTrue'
    BY <1>1, <2>2, <2>6 DEF KeptTrue, ContextInv
  <2>12. QED
    BY <2>7, <2>8, <2>9, <2>10, <2>11 DEF ContextInv
<1>5. QED
  BY <1>3, <1>4

\* At the start there is no context.
LEMMA ContextStart == ContextInit => ContextInv
<1> SUFFICES ASSUME ContextInit PROVE ContextInv
  OBVIOUS
<1>1. NewJob \in Jobs /\ NewJob.at = "no" /\ NewJob.results = <<>>
  BY DEF NewJob, Jobs, Messages
<1>2. \A j \in Compressions : job[j] = NewJob
  BY DEF ContextInit
<1>3. ContextTypes
  BY <1>1, ContextAssumption DEF ContextInit, ContextTypes, OpStates
<1>4. OneContext
  BY <1>1, <1>2 DEF ContextInit, OneContext
<1>5. JobsTrue
  <2>1. Range(NewJob.results) = {}
    BY <1>1 DEF Range
  <2>2. QED
    BY <1>1, <1>2, <2>1 DEF JobsTrue, ResultsTrue, JobTrue
<1>6. StoredTrue /\ KeptTrue
  BY DEF ContextInit, StoredTrue, KeptTrue
<1>7. QED
  BY <1>3, <1>4, <1>5, <1>6 DEF ContextInv

\* The invariant of the contexts is inductive.
LEMMA ContextStep == ContextInv /\ [ContextNext]_contextVars => ContextInv'
<1> SUFFICES ASSUME ContextInv, [ContextNext]_contextVars PROVE ContextInv'
  OBVIOUS
<1>1. CASE UNCHANGED contextVars
  <2>1. UNCHANGED <<contexts, current, op, job, appended, kept>>
    BY <1>1 DEF contextVars
  <2>2. ContextTypes' /\ OneContext' /\ KeptTrue'
    BY <2>1 DEF ContextTypes, OneContext, KeptTrue, ContextInv
  <2>3. JobsTrue' /\ StoredTrue'
    BY <2>1 DEF JobsTrue, ResultsTrue, JobTrue, StoredTrue, TellsOf, Count, ContextInv
  <2>4. QED
    BY <2>2, <2>3 DEF ContextInv
<1>2. ASSUME NEW o \in Ops, Find(o) \/ Make(o) PROVE ContextInv'
  BY <1>2, FindKeeps, MakeKeeps
<1>3. ASSUME NEW a \in Appenders, AppendMessage(a) PROVE ContextInv'
  BY <1>3, AppendMessageKeeps
<1>4. ASSUME NEW c \in Clearers, Clear(c) PROVE ContextInv'
  BY <1>4, ClearKeeps
<1>5. ASSUME NEW j \in Compressions, Compress(j) \/ JobStep(j) PROVE ContextInv'
  BY <1>5, CompressKeeps, CopyJobKeeps, CollectKeeps, ReduceKeeps, StoreSummaryKeeps, SummarizeKeeps
     DEF JobStep
<1>6. QED
  BY <1>1, <1>2, <1>3, <1>4, <1>5 DEF ContextNext

\* A session has one context, and what its compressions have in hand is of its messages.
THEOREM ContextInvariant == ContextSpec => []ContextInv
<1>1. ContextInit => ContextInv
  BY ContextStart
<1>2. ContextInv /\ [ContextNext]_contextVars => ContextInv'
  BY ContextStep
<1>3. QED
  BY <1>1, <1>2, PTL DEF ContextSpec

\* The context manager keeps its types.
THEOREM ContextTypesAlways == ContextSpec => []ContextTypeOK
<1>1. ContextInv => ContextTypeOK
  <2> SUFFICES ASSUME ContextInv PROVE ContextTypeOK
    OBVIOUS
  <2>1. current \in 0 .. Len(contexts)
    BY CtxTypes
  <2>2. \A k \in DOMAIN contexts : contexts[k] \in Contexts
    BY CtxTypes
  <2>3. \A o \in Ops : op[o] \in OpStates /\ (op[o].sc = 1 => current = 1)
    BY CtxTypes DEF ContextInv, OneContext
  <2>4. \A j \in Compressions : job[j] \in Jobs
    BY CtxTypes
  <2>5. \A o \in Ops : op[o].at \in {"idle", "missed", "has", "done"} /\ op[o].sc \in 0 .. Len(contexts)
    BY <2>3, CtxTypes DEF OpStates
  <2>6. \A k \in DOMAIN contexts : contexts[k].messages \in Seq(Nat) /\ contexts[k].summary \in Seq(Nat)
    BY <2>2 DEF Contexts, Messages
  <2>7. \A j \in Compressions :
            job[j].at \in {"no", "started", "map", "reduce", "store", "ended"} /\ job[j].copy \in Seq(Nat)
    BY <2>4 DEF Jobs, Messages
  <2>8. appended \in 0 .. MaxMessages /\ kept \subseteq 1 .. MaxMessages
    BY CtxTypes, ContextAssumption
  <2>9. QED
    BY <2>1, <2>5, <2>6, <2>7, <2>8 DEF ContextTypeOK
<1>2. QED
  BY <1>1, ContextInvariant, PTL

\* What was appended and not cleared is in the context, however the first operations race.
THEOREM NothingLostAlways == ContextSpec => []NothingLost
<1>1. ContextInv => NothingLost
  <2> SUFFICES ASSUME ContextInv PROVE NothingLost
    OBVIOUS
  <2>1. current \in {0, 1} /\ KeptTrue
    BY CtxTypes DEF ContextInv
  <2>2. QED
    BY <2>1 DEF KeptTrue, NothingLost
<1>2. QED
  BY <1>1, ContextInvariant, PTL

\* A context that was made is the one of the map.
LEMMA OnlyOne ==
  ASSUME ContextInv, NEW k \in DOMAIN contexts
  PROVE  k = 1 /\ current = 1
BY CtxTypes

\* A stored summary tells of every old message of its copy, in order, whatever order the
\* segments end in; only an answer with nothing in it leaves a gap.
THEOREM SummaryWholeAlways == ContextSpec => []SummaryWhole
<1>1. ContextInv => SummaryWhole
  <2> SUFFICES ASSUME ContextInv, NEW k \in DOMAIN contexts, contexts[k].summary # <<>>
               PROVE  \E j \in Compressions : TellsOf(contexts[k].summary, j)
    BY DEF SummaryWhole, TellsOf
  <2>1. k = 1 /\ current = 1
    BY OnlyOne
  <2>2. QED
    BY <2>1 DEF ContextInv, StoredTrue
<1>2. QED
  BY <1>1, ContextInvariant, PTL

\* A stored summary tells of messages the context still has, unless a Clear came while its
\* compression was running.
THEOREM SummaryOfTheseAlways == ContextSpec => []SummaryOfThese
<1>1. ContextInv => SummaryOfThese
  <2> SUFFICES ASSUME ContextInv, \A j \in Compressions : ~job[j].overtaken,
                      NEW k \in DOMAIN contexts
               PROVE  Range(contexts[k].summary) \subseteq Range(contexts[k].messages)
    BY DEF SummaryOfThese
  <2>1. k = 1 /\ current = 1
    BY OnlyOne
  <2>2. CASE contexts[1].summary = <<>>
    BY <2>1, <2>2 DEF Range
  <2>3. CASE contexts[1].summary # <<>>
    BY <2>1, <2>3 DEF ContextInv, StoredTrue
  <2>4. QED
    BY <2>1, <2>2, <2>3
<1>2. QED
  BY <1>1, ContextInvariant, PTL
=============================================================================
