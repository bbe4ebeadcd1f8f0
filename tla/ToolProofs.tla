----------------------------- MODULE ToolProofs -----------------------------
(***************************************************************************)
(* What a tool call relies on: its audit log, whose Sync and Close may     *)
(* trust what is on its way, and its pipeline, where a veto, a once-only   *)
(* answer, the hooks after a tool and the report of every run hold, for    *)
(* any records, tools, hooks and rules, and any number of goroutines that  *)
(* call and register.                                                      *)
(***************************************************************************)
EXTENDS AuditLog, ToolPipeline, SequenceTheorems, WellFoundedInduction, TLAPS

\* Nothing is in the channel twice, nor there and in the writer's hand.
OnceInTransit ==
    /\ \A i, j \in 1 .. Len(insertCh) : insertCh[i] = insertCh[j] => i = j
    /\ \A i \in 1 .. Len(insertCh) : insertCh[i] \notin inHand

\* What is on its way is counted in the wait group, and was accepted.
TransitCounted ==
    /\ \A i \in 1 .. Len(insertCh) :
          insertCh[i] \in pendingWg /\ logged[insertCh[i]] = "accepted"
    /\ inHand \subseteq pendingWg
    /\ \A r \in Records : logged[r] = "counted" => r \in pendingWg

\* What the writer holds: nothing, a record to insert, or one it has dealt with.
InHandKnown ==
    /\ writer \notin {"insert", "inserted"} => inHand = {}
    /\ \A r \in inHand : logged[r] \in {"accepted", "failed"}
    /\ writer = "inserted" => \A r \in inHand : Settled(r)

\* An accepted record is on its way until it is in the table.
AcceptedSomewhere ==
    \A r \in Records : logged[r] = "accepted" =>
        r \in table \/ r \in inHand \/ \E i \in 1 .. Len(insertCh) : insertCh[i] = r

\* What a Sync waits for was accepted when it began.
OwedAccepted == \A s \in Syncers : \A r \in syncs[s].owes : logged[r] \in {"accepted", "failed"}

\* The writer goes when the channel is closed and empty; a Close returns then.
GoneIsEmpty ==
    /\ writer = "gone" => chClosed /\ insertCh = <<>>
    /\ \A c \in Closers : closes[c] = "returned" => writer \in {"gone", "broken"}

AInv ==
    /\ AuditTypeOK
    /\ OnceInTransit /\ TransitCounted /\ InHandKnown
    /\ AcceptedSomewhere /\ OwedAccepted /\ GoneIsEmpty
    /\ SyncStored

-----------------------------------------------------------------------------
\* Before anything is logged.
THEOREM AuditInitOK == AuditInit => AInv
<1> SUFFICES ASSUME AuditInit PROVE AInv
  OBVIOUS
<1>1. insertCh \in Seq(Records) /\ Len(insertCh) = 0
  BY EmptySeq DEF AuditInit
<1>2. AuditTypeOK
  <2>1. syncs \in [Syncers -> [at : {"idle", "waiting", "returned"}, owes : SUBSET Records]]
        /\ closes \in [Closers -> {"idle", "closing", "waiting", "returned", "again"}]
        /\ logged \in [Records -> Fates]
    BY DEF AuditInit, Fates
  <2>2. Len(insertCh) <= Capacity
    BY <1>1, CapacityAssumption
  <2>3. QED
    BY <1>1, <2>1, <2>2 DEF AuditInit, AuditTypeOK, WriterPlaces
<1>3. OnceInTransit /\ TransitCounted /\ InHandKnown /\ AcceptedSomewhere
  BY <1>1 DEF AuditInit, OnceInTransit, TransitCounted, InHandKnown, AcceptedSomewhere
<1>4. OwedAccepted /\ GoneIsEmpty /\ SyncStored
  BY DEF AuditInit, OwedAccepted, GoneIsEmpty, SyncStored
<1>5. QED
  BY <1>2, <1>3, <1>4 DEF AInv

-----------------------------------------------------------------------------
\* A record that is settled stays so, and one that was accepted stays accepted
\* or has failed.
LEMMA SettledStays ==
  ASSUME AInv, AuditNext
  PROVE  \A r \in Records :
            /\ Settled(r) => Settled(r)'
            /\ logged[r] \in {"accepted", "failed"} => logged'[r] \in {"accepted", "failed"}
<1> USE DEF AInv, AuditTypeOK, Settled
<1>1. CASE Insert
  BY <1>1 DEF Insert, InHandKnown
<1>2. ASSUME NEW r \in Records, Count(r) \/ Hand(r) \/ DropRecord(r) \/ SendOnClosed(r)
      PROVE  table' = table
             /\ \E s \in Fates :
                   \/ logged' = [logged EXCEPT ![r] = s] /\ logged[r] \in {"no", "counted"}
                   \/ logged' = logged
  BY <1>2 DEF Count, Hand, DropRecord, SendOnClosed, Fates
<1>3. CASE \E r \in Records : Count(r) \/ Hand(r) \/ DropRecord(r) \/ SendOnClosed(r)
  BY <1>3, <1>2 DEF Fates
<1>4. CASE table' = table /\ logged' = logged
  BY <1>4
<1>5. QED
  BY <1>1, <1>3, <1>4
     DEF AuditNext, Running, PrepareFails, Prepared, Receive, Done, RangeEnds, SyncBegins,
         SyncReturns, CloseAgain, CloseBegins, CloseChannel, CloseReturns

\* Every step keeps the types.
LEMMA AuditTypeStep ==
  ASSUME AInv, AuditNext
  PROVE  AuditTypeOK'
<1> USE DEF AInv, AuditTypeOK
<1>1. ASSUME NEW r \in Records, Count(r) \/ DropRecord(r) \/ SendOnClosed(r) PROVE AuditTypeOK'
  BY <1>1 DEF Count, DropRecord, Uncounted, SendOnClosed, Fates
<1>2. ASSUME NEW r \in Records, Hand(r) PROVE AuditTypeOK'
  <2>1. insertCh' \in Seq(Records) /\ Len(insertCh') <= Capacity
    BY <1>2, AppendProperties, CapacityAssumption, LenProperties DEF Hand
  <2>2. QED
    BY <1>2, <2>1 DEF Hand, Fates
<1>3. CASE Receive
  <2>1. Head(insertCh) \in Records /\ Tail(insertCh) \in Seq(Records)
        /\ Len(Tail(insertCh)) <= Capacity
    BY <1>3, HeadTailProperties, CapacityAssumption, LenProperties DEF Receive
  <2>2. QED
    BY <1>3, <2>1 DEF Receive, WriterPlaces
<1>4. CASE PrepareFails \/ Prepared \/ Done \/ RangeEnds
  BY <1>4 DEF PrepareFails, Prepared, Done, RangeEnds, WriterPlaces
<1>5. CASE Insert
  BY <1>5 DEF Insert, WriterPlaces, Fates
<1>6. ASSUME NEW s \in Syncers, SyncBegins(s) \/ SyncReturns(s) PROVE AuditTypeOK'
  BY <1>6 DEF SyncBegins, SyncReturns, Accepted
<1>7. ASSUME NEW c \in Closers, CloseAgain(c) \/ CloseBegins(c) \/ CloseChannel(c) \/ CloseReturns(c)
      PROVE  AuditTypeOK'
  BY <1>7 DEF CloseAgain, CloseBegins, CloseChannel, CloseReturns
<1>8. QED
  BY <1>1, <1>2, <1>3, <1>4, <1>5, <1>6, <1>7 DEF AuditNext, Running

-----------------------------------------------------------------------------
\* The records' way: from LogAction through the channel and the writer's hand.
Transit == OnceInTransit /\ TransitCounted /\ InHandKnown /\ AcceptedSomewhere

\* A step of the log moves one record on and keeps count of it.
LEMMA TransitStep ==
  ASSUME AInv, AuditNext
  PROVE  Transit'
<1> USE DEF Transit
<1>0. AuditTypeOK /\ Transit /\ Len(insertCh) \in Nat
      /\ \A i \in 1 .. Len(insertCh) : insertCh[i] \in Records
  BY LenProperties, ElementOfSeq DEF AInv, AuditTypeOK
<1>1. ASSUME NEW r \in Records, Count(r) PROVE Transit'
  BY <1>0, <1>1 DEF Count, AuditTypeOK, OnceInTransit, TransitCounted, InHandKnown,
                    AcceptedSomewhere, Settled
<1>2. ASSUME NEW r \in Records, Hand(r) PROVE Transit'
  <2>1. /\ Len(insertCh') = Len(insertCh) + 1
        /\ \A i \in 1 .. Len(insertCh) : insertCh'[i] = insertCh[i]
        /\ insertCh'[Len(insertCh) + 1] = r
    BY <1>0, <1>2, AppendProperties DEF Hand, AuditTypeOK
  <2>2. logged[r] = "counted" /\ logged' = [logged EXCEPT ![r] = "accepted"]
        /\ UNCHANGED <<writer, inHand, pendingWg, table>>
    BY <1>2 DEF Hand
  <2>3. OnceInTransit'
    BY <1>0, <2>1, <2>2 DEF OnceInTransit, TransitCounted, InHandKnown
  <2>4. TransitCounted'
    BY <1>0, <2>1, <2>2 DEF TransitCounted, AuditTypeOK
  <2>5. InHandKnown'
    BY <1>0, <2>2 DEF InHandKnown, AuditTypeOK, Settled
  <2>6. AcceptedSomewhere'
    BY <1>0, <2>1, <2>2 DEF AcceptedSomewhere, AuditTypeOK
  <2>7. QED
    BY <2>3, <2>4, <2>5, <2>6
<1>3. ASSUME NEW r \in Records, DropRecord(r) PROVE Transit'
  BY <1>0, <1>3 DEF DropRecord, Uncounted, AuditTypeOK, OnceInTransit, TransitCounted,
                    InHandKnown, AcceptedSomewhere, Settled
<1>4. CASE Receive
  <2>1. /\ Head(insertCh) = insertCh[1] /\ Len(insertCh) > 0
        /\ Len(insertCh') = Len(insertCh) - 1
        /\ \A i \in 1 .. Len(insertCh') : insertCh'[i] = insertCh[i + 1]
    BY <1>0, <1>4, HeadTailProperties, EmptySeq, LenProperties DEF Receive, AuditTypeOK
  <2>2. inHand' = {insertCh[1]} /\ writer' = "insert"
        /\ UNCHANGED <<pendingWg, table, logged>>
    BY <1>4, <2>1 DEF Receive
  <2>3. OnceInTransit'
    BY <1>0, <2>1, <2>2 DEF OnceInTransit
  <2>4. TransitCounted'
    BY <1>0, <2>1, <2>2 DEF TransitCounted
  <2>5. InHandKnown'
    BY <1>0, <2>1, <2>2 DEF InHandKnown, TransitCounted
  <2>6. AcceptedSomewhere'
    <3>1. inHand = {}
      BY <1>0, <1>4 DEF Receive, InHandKnown
    <3>2. ASSUME NEW r \in Records, NEW i \in 1 .. Len(insertCh), insertCh[i] = r
          PROVE  r \in inHand' \/ \E j \in 1 .. Len(insertCh') : insertCh'[j] = r
      <4>1. CASE i = 1
        BY <3>2, <4>1, <2>2
      <4>2. CASE i # 1
        <5>1. i - 1 \in 1 .. Len(insertCh')
          BY <1>0, <2>1, <4>2
        <5>2. insertCh'[i - 1] = r
          BY <1>0, <5>1, <2>1, <3>2
        <5>3. QED
          BY <5>1, <5>2
      <4>3. QED
        BY <4>1, <4>2
    <3>3. QED
      BY <1>0, <2>2, <3>1, <3>2 DEF AcceptedSomewhere
  <2>7. QED
    BY <2>3, <2>4, <2>5, <2>6
<1>5. CASE Insert
  BY <1>0, <1>5 DEF Insert, AuditTypeOK, OnceInTransit, TransitCounted, InHandKnown,
                    AcceptedSomewhere, Settled
<1>6. CASE Done
  BY <1>0, <1>6 DEF Done, AuditTypeOK, OnceInTransit, TransitCounted, InHandKnown,
                    AcceptedSomewhere, Settled
<1>7. CASE PrepareFails \/ Prepared \/ RangeEnds
  BY <1>0, <1>7 DEF PrepareFails, Prepared, RangeEnds, AuditTypeOK, OnceInTransit,
                    TransitCounted, InHandKnown, AcceptedSomewhere
<1>8. CASE UNCHANGED <<insertCh, writer, inHand, pendingWg, table, logged>>
  BY <1>0, <1>8 DEF OnceInTransit, TransitCounted, InHandKnown, AcceptedSomewhere, Settled
<1>9. QED
  BY <1>1, <1>2, <1>3, <1>4, <1>5, <1>6, <1>7, <1>8
     DEF AuditNext, Running, SendOnClosed, SyncBegins, SyncReturns, CloseAgain, CloseBegins,
         CloseChannel, CloseReturns

-----------------------------------------------------------------------------
\* A writer that is gone has nothing left, and nothing comes any more.
LEMMA GoneStep ==
  ASSUME AInv, AuditNext
  PROVE  GoneIsEmpty'
<1> USE DEF AInv, AuditTypeOK, GoneIsEmpty
<1>1. ASSUME NEW r \in Records, Count(r) \/ Hand(r) \/ DropRecord(r) \/ SendOnClosed(r)
      PROVE  GoneIsEmpty'
  BY <1>1 DEF Count, Hand, DropRecord, SendOnClosed
<1>2. CASE PrepareFails \/ Prepared \/ Receive \/ Insert \/ Done \/ RangeEnds
  BY <1>2 DEF PrepareFails, Prepared, Receive, Insert, Done, RangeEnds
<1>3. ASSUME NEW c \in Closers, CloseAgain(c) \/ CloseBegins(c) \/ CloseChannel(c) \/ CloseReturns(c)
      PROVE  GoneIsEmpty'
  BY <1>3 DEF CloseAgain, CloseBegins, CloseChannel, CloseReturns, WriterStopped
<1>4. CASE \E s \in Syncers : SyncBegins(s) \/ SyncReturns(s)
  BY <1>4 DEF SyncBegins, SyncReturns
<1>5. QED
  BY <1>1, <1>2, <1>3, <1>4 DEF AuditNext, Running

\* A Sync returns when nothing is counted: then nothing is on its way, and what
\* it waits for is settled; later steps keep it so.
LEMMA SyncStep ==
  ASSUME AInv, AuditNext
  PROVE  OwedAccepted' /\ SyncStored'
<1> USE DEF AInv
<1>0. \A s \in Syncers : syncs[s].owes \subseteq Records
  BY DEF AuditTypeOK
<1>1. ASSUME NEW s \in Syncers, SyncBegins(s) PROVE OwedAccepted' /\ SyncStored'
  BY <1>1 DEF SyncBegins, Accepted, OwedAccepted, SyncStored, AuditTypeOK, Settled
<1>2. ASSUME NEW s \in Syncers, SyncReturns(s) PROVE OwedAccepted' /\ SyncStored'
  <2>1. ASSUME NEW r \in syncs[s].owes PROVE Settled(r)
    <3>1. r \in Records /\ logged[r] \in {"accepted", "failed"}
      BY <1>0 DEF OwedAccepted
    <3>2. pendingWg = {}
      BY <1>2 DEF SyncReturns
    <3>3. inHand = {} /\ ~\E i \in 1 .. Len(insertCh) : insertCh[i] = r
      BY <3>2 DEF TransitCounted
    <3>4. QED
      BY <3>1, <3>3 DEF AcceptedSomewhere, Settled
  <2>2. OwedAccepted'
    BY <1>2 DEF SyncReturns, OwedAccepted, AuditTypeOK
  <2>3. SyncStored'
    BY <1>2, <2>1 DEF SyncReturns, SyncStored, AuditTypeOK, Settled
  <2>4. QED
    BY <2>2, <2>3
<1>3. CASE UNCHANGED syncs
  BY <1>3, <1>0, SettledStays DEF OwedAccepted, SyncStored
<1>4. QED
  BY <1>1, <1>2, <1>3
     DEF AuditNext, Running, Count, Hand, DropRecord, SendOnClosed, PrepareFails, Prepared,
         Receive, Insert, Done, RangeEnds, CloseAgain, CloseBegins, CloseChannel, CloseReturns

\* The invariant of the log is inductive.
LEMMA AuditStep == AInv /\ [AuditNext]_auditVars => AInv'
<1> SUFFICES ASSUME AInv, [AuditNext]_auditVars PROVE AInv'
  OBVIOUS
<1>1. CASE AuditNext
  BY <1>1, AuditTypeStep, TransitStep, GoneStep, SyncStep DEF AInv, Transit
<1>2. CASE UNCHANGED auditVars
  BY <1>2 DEF auditVars, AInv, AuditTypeOK, OnceInTransit, TransitCounted, InHandKnown,
              AcceptedSomewhere, OwedAccepted, GoneIsEmpty, SyncStored, Settled
<1>3. QED
  BY <1>1, <1>2

-----------------------------------------------------------------------------
\* The audit log's types hold, for any records and any capacity (audit.go:49).
THEOREM AuditType == AuditSpec => []AuditTypeOK
<1>1. AInv => AuditTypeOK
  BY DEF AInv
<1>2. QED
  BY <1>1, AuditInitOK, AuditStep, PTL DEF AuditSpec

\* Whatever goroutines log, sync and close at once, a Sync that has returned
\* finds every record accepted before it in the table or reported as failed
\* (audit.go:114).
THEOREM AuditSyncStored == AuditSpec => []SyncStored
<1>1. AInv => SyncStored
  BY DEF AInv
<1>2. QED
  BY <1>1, AuditInitOK, AuditStep, PTL DEF AuditSpec

\* The Close that closed the channel returns when every accepted record is in
\* the table or was reported as failed (audit.go:168).
THEOREM AuditCloseStored == AuditSpec => []CloseStored
<1>1. AInv => CloseStored
  <2> SUFFICES ASSUME AInv, NEW c \in Closers, closes[c] = "returned", writer # "broken",
                      NEW r \in Accepted
               PROVE  Settled(r)
    BY DEF CloseStored
  <2>1. writer = "gone" /\ insertCh = <<>>
    BY DEF AInv, GoneIsEmpty
  <2>2. inHand = {} /\ Len(insertCh) = 0
    BY <2>1, EmptySeq DEF AInv, InHandKnown
  <2>3. r \in Records /\ logged[r] \in {"accepted", "failed"}
    BY DEF Accepted
  <2>4. QED
    BY <2>2, <2>3 DEF AInv, AcceptedSomewhere, Settled
<1>2. QED
  BY <1>1, AuditInitOK, AuditStep, PTL DEF AuditSpec

-----------------------------------------------------------------------------
(***************** what the helpers on sequences give **********************)

\* RemoveFirst takes one element out and leaves the others in their order.
LEMMA RemoveFirstAt ==
  ASSUME NEW S, NEW s \in Seq(S), NEW e, NEW i \in 1 .. Len(s), s[i] = e,
         \A j \in 1 .. Len(s) : s[j] = e => i <= j
  PROVE  /\ RemoveFirst(s, e) \in Seq(S)
         /\ Len(RemoveFirst(s, e)) = Len(s) - 1
         /\ \A j \in 1 .. Len(s) - 1 :
               RemoveFirst(s, e)[j] = IF j < i THEN s[j] ELSE s[j + 1]
<1> DEFINE a == SubSeq(s, 1, i - 1)
           b == SubSeq(s, i + 1, Len(s))
<1>1. SelectInSeq(s, LAMBDA v : v = e) = i
  <2>1. DEFINE I == {k \in 1 .. Len(s) : s[k] = e}
  <2>2. i \in I /\ \A k \in I : i <= k
    OBVIOUS
  <2>3. \A x \in I : (\A k \in I : x <= k) => x = i
    <3>1. \A x \in I : x \in Int /\ i \in Int
      BY DEF I
    <3>2. QED
      BY <2>2, <3>1
  <2>4. Min(I) = i
    <3>1. Min(I) \in I /\ \A k \in I : Min(I) <= k
      BY <2>2 DEF Min
    <3>2. QED
      BY <3>1, <2>3
  <2>5. QED
    BY <2>2, <2>4 DEF SelectInSeq
<1>2. RemoveFirst(s, e) = a \o b
  BY <1>1 DEF RemoveFirst, RemoveAt
<1>3. i \in Nat /\ Len(s) \in Nat /\ i >= 1 /\ i <= Len(s)
  OBVIOUS
<1>4. /\ a \in Seq(S) /\ Len(a) = i - 1
      /\ \A j \in 1 .. i - 1 : a[j] = s[j]
  <2>1. \A j \in 1 .. i - 1 : s[j] \in S
    BY <1>3, ElementOfSeq
  <2>2. QED
    BY <2>1, <1>3, SubSeqProperties
<1>5. /\ b \in Seq(S) /\ Len(b) = Len(s) - i
      /\ \A j \in 1 .. Len(s) - i : b[j] = s[i + j]
  <2>1. \A j \in i + 1 .. Len(s) : s[j] \in S
    BY <1>3, ElementOfSeq
  <2>2. QED
    BY <2>1, <1>3, SubSeqProperties
<1> HIDE DEF a, b
<1>6. /\ a \o b \in Seq(S) /\ Len(a \o b) = Len(a) + Len(b)
      /\ \A j \in 1 .. Len(a) + Len(b) :
            (a \o b)[j] = IF j <= Len(a) THEN a[j] ELSE b[j - Len(a)]
  BY <1>4, <1>5, ConcatProperties
<1>7. ASSUME NEW j \in 1 .. Len(s) - 1
      PROVE  (a \o b)[j] = IF j < i THEN s[j] ELSE s[j + 1]
  <2>1. CASE j < i
    BY <2>1, <1>3, <1>4, <1>5, <1>6
  <2>2. CASE ~(j < i)
    <3>1. j - Len(a) \in 1 .. Len(s) - i /\ i + (j - Len(a)) = j + 1 /\ ~(j <= Len(a))
      BY <2>2, <1>3, <1>4
    <3>2. (a \o b)[j] = b[j - Len(a)]
      BY <3>1, <1>3, <1>4, <1>5, <1>6
    <3>3. QED
      BY <3>1, <3>2, <2>2, <1>5
  <2>3. QED
    BY <2>1, <2>2
<1>8. Len(a \o b) = Len(s) - 1
  BY <1>3, <1>4, <1>5, <1>6
<1>9. QED
  BY <1>2, <1>6, <1>7, <1>8

\* Every nonempty set of numbers has a least one.
LEMMA LeastNumber ==
  ASSUME NEW T, T \subseteq Nat, T # {}
  PROVE  \E x \in T : \A y \in T : x <= y
<1>1. PICK x \in T : \A y \in T : ~ (<<y, x>> \in OpToRel(<, Nat))
  BY NatLessThanWellFounded, WFMin
<1>2. \A y \in T : ~ (y < x)
  BY <1>1 DEF OpToRel
<1>3. QED
  BY <1>2

\* What is in a sequence is there a first time.
LEMMA FirstExists ==
  ASSUME NEW S, NEW s \in Seq(S), NEW e, NEW k \in 1 .. Len(s), s[k] = e
  PROVE  \E i \in 1 .. Len(s) : s[i] = e /\ \A j \in 1 .. Len(s) : s[j] = e => i <= j
<1> DEFINE I == {j \in 1 .. Len(s) : s[j] = e}
<1>1. I \subseteq Nat /\ I # {}
  OBVIOUS
<1>2. \E i \in I : \A j \in I : i <= j
  BY <1>1, LeastNumber
<1>3. QED
  BY <1>2

\* What RemoveFirst does to a sequence without repetitions, as a set: e goes.
LEMMA RemoveFirstOf ==
  ASSUME NEW S, NEW s \in Seq(S), NEW e
  PROVE  /\ RemoveFirst(s, e) \in Seq(S)
         /\ Range(RemoveFirst(s, e)) \subseteq Range(s)
         /\ Range(s) \ {e} \subseteq Range(RemoveFirst(s, e))
         /\ IsInjective(s) => /\ IsInjective(RemoveFirst(s, e))
                              /\ e \notin Range(RemoveFirst(s, e))
<1>1. CASE ~ \E i \in 1 .. Len(s) : s[i] = e
  BY <1>1 DEF RemoveFirst, Range
<1>2. CASE \E i \in 1 .. Len(s) : s[i] = e
  <2>1. PICK i \in 1 .. Len(s) :
            s[i] = e /\ \A j \in 1 .. Len(s) : s[j] = e => i <= j
    BY <1>2, FirstExists
  <2> DEFINE t == RemoveFirst(s, e)
  <2>2. /\ t \in Seq(S) /\ Len(t) = Len(s) - 1
        /\ \A j \in 1 .. Len(s) - 1 : t[j] = IF j < i THEN s[j] ELSE s[j + 1]
    BY <2>1, RemoveFirstAt
  <2> HIDE DEF t
  <2>3. /\ Len(s) \in Nat /\ i \in Nat /\ DOMAIN s = 1 .. Len(s)
        /\ DOMAIN t = 1 .. Len(s) - 1
    BY <2>2
  <2>4. Range(t) \subseteq Range(s)
    <3>1. ASSUME NEW j \in 1 .. Len(s) - 1
          PROVE  t[j] \in Range(s)
      <4>1. j \in 1 .. Len(s) /\ j + 1 \in 1 .. Len(s)
        BY <2>3
      <4>2. QED
        BY <4>1, <2>2, <2>3 DEF Range
    <3>2. QED
      BY <3>1, <2>3 DEF Range
  <2>5. Range(s) \ {e} \subseteq Range(t)
    <3>1. ASSUME NEW j \in 1 .. Len(s), s[j] # e
          PROVE  s[j] \in Range(t)
      <4>1. CASE j < i
        <5>1. j \in 1 .. Len(s) - 1 /\ t[j] = s[j]
          BY <4>1, <2>2, <2>3
        <5>2. QED
          BY <5>1, <2>3 DEF Range
      <4>2. CASE j > i
        <5>1. j - 1 \in 1 .. Len(s) - 1 /\ ~(j - 1 < i) /\ (j - 1) + 1 = j
          BY <4>2, <2>3
        <5>2. t[j - 1] = s[j]
          BY <5>1, <2>2
        <5>3. QED
          BY <5>1, <5>2, <2>3 DEF Range
      <4>3. QED
        BY <4>1, <4>2, <3>1, <2>1, <2>3
    <3>2. QED
      BY <3>1, <2>3 DEF Range
  <2>6. ASSUME IsInjective(s)
        PROVE  IsInjective(t) /\ e \notin Range(t)
    <3>1. \A j, k \in 1 .. Len(s) : s[j] = s[k] => j = k
      BY <2>6, <2>3 DEF IsInjective
    <3>2. ASSUME NEW j \in 1 .. Len(s) - 1
          PROVE  t[j] # e
      <4>1. /\ j \in 1 .. Len(s) /\ j + 1 \in 1 .. Len(s)
            /\ j < i => j # i
            /\ ~(j < i) => j + 1 # i
        BY <2>3
      <4>2. QED
        BY <4>1, <2>1, <2>2, <3>1
    <3>3. ASSUME NEW j \in 1 .. Len(s) - 1, NEW k \in 1 .. Len(s) - 1, t[j] = t[k]
          PROVE  j = k
      <4>1. /\ j \in 1 .. Len(s) /\ j + 1 \in 1 .. Len(s)
            /\ k \in 1 .. Len(s) /\ k + 1 \in 1 .. Len(s)
        BY <2>3
      <4>2. t[j] = (IF j < i THEN s[j] ELSE s[j + 1]) /\ t[k] = IF k < i THEN s[k] ELSE s[k + 1]
        BY <2>2
      <4>3. QED
        BY <4>1, <4>2, <3>1, <3>3, <2>3
    <3>4. QED
      BY <3>2, <3>3, <2>3 DEF Range, IsInjective
  <2>7. QED
    BY <2>2, <2>4, <2>5, <2>6 DEF t
<1>3. QED
  BY <1>1, <1>2

\* A sequence without repetitions stays one when something new is appended.
LEMMA AppendNew ==
  ASSUME NEW S, NEW s \in Seq(S), NEW e \in S
  PROVE  /\ Append(s, e) \in Seq(S)
         /\ Range(Append(s, e)) = Range(s) \union {e}
         /\ IsInjective(s) /\ e \notin Range(s) => IsInjective(Append(s, e))
<1>1. /\ Append(s, e) \in Seq(S) /\ Len(Append(s, e)) = Len(s) + 1 /\ Len(s) \in Nat
      /\ \A i \in 1 .. Len(s) : Append(s, e)[i] = s[i]
      /\ Append(s, e)[Len(s) + 1] = e
  BY AppendProperties
<1>2. /\ DOMAIN s = 1 .. Len(s) /\ DOMAIN Append(s, e) = 1 .. Len(s) + 1
      /\ 1 .. Len(s) + 1 = (1 .. Len(s)) \union {Len(s) + 1}
  BY <1>1
<1>3. Range(Append(s, e)) = Range(s) \union {e}
  BY <1>1, <1>2 DEF Range
<1>4. ASSUME IsInjective(s), e \notin Range(s)
      PROVE  IsInjective(Append(s, e))
  BY <1>1, <1>2, <1>4 DEF Range, IsInjective
<1>5. QED
  BY <1>1, <1>3, <1>4

\* The head and the tail of a sequence that is not empty.
LEMMA HeadAndTail ==
  ASSUME NEW S, NEW s \in Seq(S), s # <<>>
  PROVE  /\ Head(s) \in S /\ Tail(s) \in Seq(S) /\ Head(s) \in Range(s)
         /\ Range(s) = {Head(s)} \union Range(Tail(s))
<1>1. /\ Head(s) \in S /\ Tail(s) \in Seq(S) /\ Len(Tail(s)) = Len(s) - 1
      /\ \A i \in 1 .. Len(Tail(s)) : Tail(s)[i] = s[i + 1]
  BY HeadTailProperties
<1>2. Len(s) \in Nat \ {0} /\ Head(s) = s[1]
  BY EmptySeq
<1>3. DOMAIN s = 1 .. Len(s) /\ DOMAIN Tail(s) = 1 .. Len(s) - 1
  BY <1>1, <1>2
<1>4. \A i \in 1 .. Len(s) : i = 1 \/ i - 1 \in 1 .. Len(s) - 1
  BY <1>2
<1>5. \A i \in 1 .. Len(s) - 1 : i + 1 \in 1 .. Len(s)
  BY <1>2
<1>6. ASSUME NEW i \in 1 .. Len(s), i # 1
      PROVE  s[i] \in Range(Tail(s))
  <2>1. i - 1 \in 1 .. Len(Tail(s)) /\ (i - 1) + 1 = i
    BY <1>1, <1>2, <1>6
  <2>2. Tail(s)[i - 1] = s[i]
    BY <2>1, <1>1
  <2>3. QED
    BY <2>1, <2>2, <1>1, <1>3 DEF Range
<1>7. Head(s) \in Range(s) /\ Range(Tail(s)) \subseteq Range(s)
  BY <1>1, <1>2, <1>3, <1>5 DEF Range
<1>8. QED
  BY <1>1, <1>2, <1>3, <1>6, <1>7 DEF Range

\* An element of a sequence that has at most one is that one.
LEMMA OnlyElement ==
  ASSUME NEW S, NEW s \in Seq(S), Len(s) <= 1, NEW e \in Range(s)
  PROVE  Len(s) = 1 /\ s[1] = e
<1>1. PICK i \in 1 .. Len(s) : s[i] = e
  BY DEF Range
<1>2. PICK n \in Nat : n = Len(s)
  OBVIOUS
<1>3. n = 1 /\ i = 1
  BY <1>2
<1>4. QED
  BY <1>1, <1>2, <1>3

-----------------------------------------------------------------------------
(******************************** the bus **********************************)

\* Nothing is listed twice.
ListedOnce == \A e \in Events : IsInjective(listeners[e])

\* What was removed is not listed any more.
GoneForGood == \A l \in removed : ~Registered(l)

\* A Once listener that a dispatch has called is removed, or has not returned.
CalledIsOpen ==
    \A g \in Goroutines : \A l \in dispatch[g].called :
        IsOnce[l] /\ (l \in removed \/ l \in Range(dispatch[g].open))

BusInv == BusTypeOK /\ ListedOnce /\ GoneForGood /\ CalledIsOpen /\ spent \subseteq removed

\* What a step may do to the bus.
BusStep ==
    \/ UNCHANGED busVars
    \/ \E l \in Listeners : On(l) \/ Off(l)
    \/ \E g \in Goroutines, m \in Modes, e \in Events : Dispatch(g, m, e)
    \/ \E g \in Goroutines, l \in Listeners, r \in Replies : Invoke(g, l, r)
    \/ \E g \in Goroutines, l \in Listeners, r \in Replies : Leave(g, l, r)

\* A listener that is removed is listed nowhere, since it was listed once.
LEMMA RemoveListenerKeeps ==
  ASSUME BusInv, NEW l \in Listeners, RemoveListener(l)
  PROVE  /\ listeners' \in [Events -> Seq(Listeners)] /\ removed' \subseteq Listeners
         /\ ListedOnce' /\ GoneForGood' /\ removed \subseteq removed' /\ l \in removed'
<1> DEFINE ev == EventOf[l]
<1>1. ev \in Events
  BY ListenersAssumption
<1>2. /\ listeners \in [Events -> Seq(Listeners)] /\ removed \subseteq Listeners
      /\ \A e \in Events : IsInjective(listeners[e])
      /\ \A x \in removed : x \notin Range(listeners[EventOf[x]])
  BY DEF BusInv, BusTypeOK, ListedOnce, GoneForGood, Registered
<1>3. /\ listeners' = [listeners EXCEPT ![ev] = RemoveFirst(listeners[ev], l)]
      /\ removed' = removed \union {l}
  BY DEF RemoveListener
<1>4. /\ RemoveFirst(listeners[ev], l) \in Seq(Listeners)
      /\ Range(RemoveFirst(listeners[ev], l)) \subseteq Range(listeners[ev])
      /\ IsInjective(RemoveFirst(listeners[ev], l))
      /\ l \notin Range(RemoveFirst(listeners[ev], l))
  BY <1>1, <1>2, RemoveFirstOf
<1>5. \A e \in Events : /\ listeners'[e] \in Seq(Listeners) /\ IsInjective(listeners'[e])
                        /\ Range(listeners'[e]) \subseteq Range(listeners[e])
  BY <1>1, <1>2, <1>3, <1>4
<1>6. l \notin Range(listeners'[ev])
  BY <1>1, <1>2, <1>3, <1>4
<1>7. GoneForGood'
  <2>1. \A x \in removed' : x \in Listeners /\ EventOf[x] \in Events
    BY <1>2, <1>3, ListenersAssumption
  <2>2. \A x \in removed' : x \notin Range(listeners'[EventOf[x]])
    BY <2>1, <1>2, <1>3, <1>5, <1>6
  <2>3. QED
    BY <2>2 DEF GoneForGood, Registered
<1>8. QED
  BY <1>2, <1>3, <1>5, <1>7 DEF ListedOnce

\* The invariant of the bus is inductive, whatever the listeners answer.
LEMMA BusStepKeeps ==
  ASSUME BusInv, BusStep
  PROVE  BusInv'
<1> USE ListenersAssumption
<1>0. /\ listeners \in [Events -> Seq(Listeners)] /\ removed \subseteq Listeners
      /\ dispatch \in [Goroutines -> Dispatches] /\ spent \subseteq removed
      /\ ListedOnce /\ GoneForGood /\ CalledIsOpen
  BY DEF BusInv, BusTypeOK
<1>1. CASE UNCHANGED busVars
  BY <1>0, <1>1 DEF busVars, BusInv, BusTypeOK, ListedOnce, GoneForGood, CalledIsOpen, Registered
<1>2. ASSUME NEW l \in Listeners, On(l)
      PROVE  BusInv'
  <2>1. /\ listeners' = [listeners EXCEPT ![EventOf[l]] = Append(listeners[EventOf[l]], l)]
        /\ UNCHANGED <<removed, dispatch, spent>> /\ l \notin removed
        /\ l \notin Range(listeners[EventOf[l]])
    BY <1>2 DEF On, Registered
  <2>2. /\ EventOf[l] \in Events
        /\ Append(listeners[EventOf[l]], l) \in Seq(Listeners)
        /\ Range(Append(listeners[EventOf[l]], l)) = Range(listeners[EventOf[l]]) \union {l}
        /\ IsInjective(Append(listeners[EventOf[l]], l))
    BY <2>1, <1>0, AppendNew DEF ListedOnce
  <2>3. ListedOnce'
    BY <2>1, <2>2, <1>0 DEF ListedOnce
  <2>4. GoneForGood'
    <3>1. \A x \in removed : Range(listeners'[EventOf[x]]) \subseteq Range(listeners[EventOf[x]]) \union {l}
      BY <2>1, <2>2, <1>0
    <3>2. QED
      BY <3>1, <2>1, <1>0 DEF GoneForGood, Registered
  <2>5. CalledIsOpen'
    BY <2>1, <1>0 DEF CalledIsOpen
  <2>6. QED
    BY <2>1, <2>2, <2>3, <2>4, <2>5, <1>0 DEF BusInv, BusTypeOK
<1>3. ASSUME NEW l \in Listeners, Off(l)
      PROVE  BusInv'
  <2>1. RemoveListener(l) /\ UNCHANGED <<dispatch, spent>>
    BY <1>3 DEF Off
  <2>2. /\ listeners' \in [Events -> Seq(Listeners)] /\ removed' \subseteq Listeners
        /\ ListedOnce' /\ GoneForGood' /\ removed \subseteq removed'
    BY <2>1, RemoveListenerKeeps
  <2>3. CalledIsOpen'
    BY <2>1, <2>2, <1>0 DEF CalledIsOpen
  <2>4. QED
    BY <2>1, <2>2, <2>3, <1>0 DEF BusInv, BusTypeOK
<1>4. ASSUME NEW g \in Goroutines, NEW m \in Modes, NEW e \in Events, Dispatch(g, m, e)
      PROVE  BusInv'
  <2> DEFINE d == [NoDispatch EXCEPT !.mode = m, !.todo = listeners[e]]
  <2>1. /\ dispatch' = [dispatch EXCEPT ![g] = d]
        /\ UNCHANGED <<listeners, removed, spent>>
    BY <1>4 DEF Dispatch
  <2>2. d \in Dispatches /\ d.called = {}
    <3>1. <<>> \in Seq(Listeners) /\ listeners[e] \in Seq(Listeners)
      BY <1>0
    <3>2. QED
      BY <3>1 DEF NoDispatch, Dispatches, Replies, Modes
  <2>3. CalledIsOpen'
    BY <2>1, <2>2, <1>0 DEF CalledIsOpen
  <2>4. ListedOnce' /\ GoneForGood'
    BY <2>1, <1>0 DEF ListedOnce, GoneForGood, Registered
  <2>5. QED
    BY <2>1, <2>2, <2>3, <2>4, <1>0 DEF BusInv, BusTypeOK
<1>5. ASSUME NEW g \in Goroutines, NEW l \in Listeners, NEW r \in Replies, Invoke(g, l, r)
      PROVE  BusInv'
  <2> DEFINE d == dispatch[g]
             n == [d EXCEPT !.todo = IF Stops(d.mode, r) THEN <<>> ELSE RemoveFirst(d.todo, l),
                            !.open = Append(d.open, l),
                            !.called = IF IsOnce[l] THEN d.called \union {l} ELSE d.called,
                            !.result = Result(d, r)]
  <2>1. /\ dispatch' = [dispatch EXCEPT ![g] = n]
        /\ UNCHANGED <<listeners, removed, spent>>
    BY <1>5 DEF Invoke
  <2>2. d \in Dispatches
    BY <1>0
  <2>3. Result(d, r) \in Replies
    BY <2>2 DEF Result, Replies, Dispatches, Modes
  <2>4. /\ RemoveFirst(d.todo, l) \in Seq(Listeners) /\ Append(d.open, l) \in Seq(Listeners)
        /\ Range(Append(d.open, l)) = Range(d.open) \union {l}
    BY <2>2, RemoveFirstOf, AppendNew DEF Dispatches
  <2>5. n \in Dispatches
    <3>1. <<>> \in Seq(Listeners) /\ d.called \union {l} \subseteq Listeners
      BY <2>2 DEF Dispatches
    <3>2. (IF Stops(d.mode, r) THEN <<>> ELSE RemoveFirst(d.todo, l)) \in Seq(Listeners)
      BY <3>1, <2>4
    <3>3. QED
      BY <3>1, <3>2, <2>2, <2>3, <2>4 DEF Dispatches
  <2>6. \A x \in n.called : IsOnce[x] /\ (x \in removed \/ x \in Range(n.open))
    <3>1. n.open = Append(d.open, l) /\ n.called = IF IsOnce[l] THEN d.called \union {l} ELSE d.called
      BY <2>2 DEF Dispatches
    <3>2. QED
      BY <3>1, <2>4, <1>0 DEF CalledIsOpen
  <2> HIDE DEF n
  <2>7. CalledIsOpen'
    BY <2>1, <2>5, <2>6, <1>0 DEF CalledIsOpen
  <2>8. ListedOnce' /\ GoneForGood'
    BY <2>1, <1>0 DEF ListedOnce, GoneForGood, Registered
  <2>9. QED
    BY <2>1, <2>5, <2>7, <2>8, <1>0 DEF BusInv, BusTypeOK
<1>6. ASSUME NEW g \in Goroutines, NEW l \in Listeners, NEW r \in Replies, Leave(g, l, r)
      PROVE  BusInv'
  <2> DEFINE d == dispatch[g]
             waits == d.mode = "waterfall" /\ ~(d.todo = <<>> /\ Len(d.open) = 1)
             n == [d EXCEPT !.open = RemoveFirst(d.open, l),
                            !.unwinding = waits,
                            !.result = IF r = "next" THEN d.result ELSE r]
  <2>1. /\ l \in MayReturn(d) /\ dispatch' = [dispatch EXCEPT ![g] = n]
        /\ spent' = IF d.todo = <<>> /\ Len(d.open) = 1 THEN spent \union d.called ELSE spent
        /\ IF IsOnce[l] THEN RemoveListener(l) ELSE UNCHANGED <<listeners, removed>>
    BY <1>6 DEF Leave, RemovedOnReturn, waits
  <2>2. d \in Dispatches
    BY <1>0
  <2>3. /\ listeners' \in [Events -> Seq(Listeners)] /\ removed' \subseteq Listeners
        /\ ListedOnce' /\ GoneForGood' /\ removed \subseteq removed'
        /\ IsOnce[l] => l \in removed'
    <3>1. CASE IsOnce[l]
      BY <3>1, <2>1, RemoveListenerKeeps
    <3>2. CASE ~IsOnce[l]
      BY <3>2, <2>1, <1>0 DEF ListedOnce, GoneForGood, Registered
    <3>3. QED
      BY <3>1, <3>2
  <2>4. /\ RemoveFirst(d.open, l) \in Seq(Listeners)
        /\ Range(d.open) \ {l} \subseteq Range(RemoveFirst(d.open, l))
    BY <2>2, RemoveFirstOf DEF Dispatches
  <2>5. n \in Dispatches /\ n.open = RemoveFirst(d.open, l) /\ n.called = d.called
    <3>1. waits \in BOOLEAN
      OBVIOUS
    <3> HIDE DEF waits
    <3>2. QED
      BY <3>1, <2>2, <2>4 DEF Dispatches
  <2>6. \A x \in d.called : IsOnce[x] /\ (x \in removed \/ x \in Range(d.open))
    BY <1>0 DEF CalledIsOpen
  <2>7. \A x \in n.called : IsOnce[x] /\ (x \in removed' \/ x \in Range(n.open))
    BY <2>3, <2>4, <2>5, <2>6
  <2>8. ASSUME Len(d.open) = 1
        PROVE  d.called \subseteq removed'
    <3>1. l \in Range(d.open) /\ DOMAIN d.open = {1}
      <4>1. d.open \in Seq(Listeners)
        BY <2>2 DEF Dispatches
      <4>2. DOMAIN d.open = 1 .. 1
        BY <4>1, <2>8
      <4>3. QED
        BY <4>2, <2>1 DEF MayReturn
    <3>2. Range(d.open) = {l}
      BY <3>1 DEF Range
    <3>3. QED
      BY <3>2, <2>6, <2>3
  <2>9. spent' \subseteq removed'
    BY <2>1, <2>3, <2>8, <1>0
  <2> HIDE DEF n
  <2>10. CalledIsOpen'
    <3>1. \A h \in Goroutines : dispatch'[h] = IF h = g THEN n ELSE dispatch[h]
      BY <2>1, <1>0
    <3>2. QED
      BY <3>1, <2>3, <2>7, <1>0 DEF CalledIsOpen
  <2>11. dispatch' \in [Goroutines -> Dispatches]
    BY <2>1, <2>5, <1>0
  <2>12. QED
    BY <2>3, <2>9, <2>10, <2>11 DEF BusInv, BusTypeOK
<1>7. QED
  BY <1>1, <1>2, <1>3, <1>4, <1>5, <1>6 DEF BusStep

\* What a dispatch that returned has called is removed.
LEMMA SpentIsOver == BusInv => OnceIsOver
  BY DEF BusInv, GoneForGood, OnceIsOver

-----------------------------------------------------------------------------
(******************************* the rules *********************************)

\* Sorted rules are rules.
LEMMA SortKeeps ==
  ASSUME NEW s \in Seq(Rules), NEW t \in SortRules(s)
  PROVE  t \in Seq(Rules) /\ SortedByPriority(t)
<1>1. t \in [1 .. Len(s) -> Range(s)] /\ SortedByPriority(t) /\ Len(s) \in Nat
  BY DEF SortRules
<1>2. Range(s) \subseteq Rules
  BY DEF Range
<1>3. t \in [1 .. Len(s) -> Rules]
  BY <1>1, <1>2
<1>4. QED
  BY <1>1, <1>3, SeqDef

\* Rules stay sorted when one is taken out.
LEMMA WithoutKeeps ==
  ASSUME NEW s \in Seq(Rules), SortedByPriority(s), NEW r, NEW t \in Without(s, r)
  PROVE  t \in Seq(Rules) /\ SortedByPriority(t)
<1>1. PICK n \in 0 .. Len(s) : t \in [1 .. n -> Range(s)]
  BY DEF Without
<1>2. PICK f \in [DOMAIN t -> DOMAIN s] :
         /\ \A i, j \in DOMAIN t : i < j => f[i] < f[j]
         /\ \A i \in DOMAIN t : t[i] = s[f[i]]
  BY DEF Without
<1>3. Range(s) \subseteq Rules /\ n \in Nat
  BY DEF Range
<1>4. t \in [1 .. n -> Rules]
  BY <1>1, <1>3
<1>5. t \in Seq(Rules)
  BY <1>3, <1>4, SeqDef
<1>6. SortedByPriority(t)
  BY <1>2 DEF SortedByPriority
<1>7. QED
  BY <1>5, <1>6

\* What the rules deny by their priorities is what Check denies.
LEMMA DeniedIsRefused ==
  ASSUME rules \in Seq(Rules), SortedByPriority(rules), NEW t, Denied(t)
  PROVE  Check(TRUE, t) = "deny"
<1> DEFINE M == {r \in Range(rules) : t \in r.covers}
           m == Min(Matching(t))
<1>1. M # {} /\ \A r \in M : (\A q \in M : r.priority <= q.priority) => r.decision = "deny"
  BY DEF Denied
<1>2. Matching(t) \subseteq Nat /\ Matching(t) # {} /\ Matching(t) \subseteq DOMAIN rules
  BY <1>1 DEF Matching, Range
<1>3. \E x \in Matching(t) : \A y \in Matching(t) : x <= y
  BY <1>2, LeastNumber
<1>4. m \in Matching(t) /\ \A y \in Matching(t) : m <= y
  BY <1>3 DEF Min
<1> HIDE DEF m
<1>5. rules[m] \in M
  BY <1>2, <1>4 DEF Matching, Range
<1>6. ASSUME NEW q \in M
      PROVE  rules[m].priority <= q.priority
  <2>1. PICK y \in DOMAIN rules : rules[y] = q
    BY DEF Range
  <2>2. y \in Matching(t) /\ m <= y
    BY <2>1, <1>4 DEF Matching
  <2>3. CASE m = y
    <3>1. rules[m] \in Rules
      BY <1>2, <1>4
    <3>2. rules[m].priority \in Nat
      BY <3>1, PipelineAssumption
    <3>3. QED
      BY <2>1, <2>3, <3>2
  <2>4. CASE m < y
    BY <2>1, <2>2, <2>4, <1>2, <1>4 DEF SortedByPriority
  <2>5. QED
    BY <2>2, <2>3, <2>4, <1>2, <1>4
<1>7. rules[m].decision = "deny"
  BY <1>1, <1>5, <1>6
<1>8. QED
  BY <1>2, <1>7 DEF Check, m

-----------------------------------------------------------------------------
(*************************** the inductive invariant ***********************)

Pcs == {"idle", "pre-execute", "execute", "lookup", "check", "before", "after",
        "post-execute", "result", "returned", "announce"}

CallStates ==
    [pc : Pcs, asked : Tools, tool : Tools, cancelled : BOOLEAN, snapshot : Seq(Hooks),
     left : Seq(Hooks), ran : BOOLEAN, ok : BOOLEAN, after : SUBSET Hooks]

\* The types, the states of the calls and the order of the rules.
ConfigOK ==
    /\ tools \subseteq Tools
    /\ hooks \in Seq(Hooks)
    /\ rules \in Seq(Rules)
    /\ SortedByPriority(rules)
    /\ authorized \subseteq Tools

PipelineTypeOK ==
    /\ ConfigOK
    /\ calls \in [Goroutines -> CallStates]
    /\ records \subseteq Goroutines \X {"permission", "listener", "hook"}
    /\ uses \subseteq {"execute", "announce"}
    /\ changes \in 0 .. MaxChanges
    /\ vetoed \subseteq Goroutines \X Tools
    /\ guarded \subseteq Goroutines
    /\ heard \subseteq Goroutines

\* What is so of every call.  Where it is when its tool has run; which hooks ran
\* after the tool: those that ran and those that are left are the ones of the
\* snapshot, and in the end none is left but of a cancelled call.
CallInv(c) ==
    /\ c.ran => c.pc \in {"after", "post-execute", "result", "returned"}
    /\ ~c.ran => c.after = {}
    /\ c.pc = "after" => c.ran /\ Range(c.snapshot) = c.after \union Range(c.left)
    /\ c.ran /\ ~c.cancelled /\ c.pc \in {"post-execute", "result", "returned"}
          => c.after = Range(c.snapshot)

CallsInv == \A g \in Goroutines : CallInv(calls[g])

\* The permission plugin is the next to be called.
Fresh(d) ==
    d.todo # <<>> /\ d.open = <<>> /\ ~d.unwinding /\ RoleOf[Head(d.todo)] = "permission"

\* It was called, and has denied: nobody waits in next for its answer.
Refused(d) == d.todo = <<>> /\ d.result = "error" /\ ~d.unwinding /\ Len(d.open) <= 1

\* A call for a tool denied all the while comes no further than pre-execute, where
\* the permission plugin is asked before anyone can rename it.
GuardedCall(c, d) ==
    /\ ~c.ran
    /\ c.pc \in {"pre-execute", "returned", "announce"}
    /\ c.pc = "pre-execute" =>
          d.mode = "waterfall" /\ ((Fresh(d) /\ c.tool = c.asked) \/ Refused(d))

Guarded ==
    \A g \in guarded : <<g, calls[g].asked>> \in vetoed => GuardedCall(calls[g], dispatch[g])

\* The result of a call is emitted to every listener.
ResultEmitted == \A g \in Goroutines : calls[g].pc = "result" => dispatch[g].mode = "emit"

\* An audit plugin that stood all the while has been called, or will be.
Told(g) == <<g, "listener">> \in records

WillBeTold(g) == \E l \in Range(dispatch[g].todo) : RoleOf[l] = "audit"

Hears(g) ==
    calls[g].ran => /\ calls[g].pc = "result" => Told(g) \/ WillBeTold(g)
                    /\ calls[g].pc = "returned" => Told(g)

Hearing == \A g \in heard : Hears(g)

PipelineInv ==
    /\ BusInv /\ PipelineTypeOK /\ CallsInv
    /\ Guarded /\ ResultEmitted /\ Hearing

\* What goroutine g may do.
Act(g) ==
    \/ Step(g)
    \/ Cancel(g)
    \/ \E t \in Tools : Execute(g, t)
    \/ \E m \in Modes, e \in Events \ PipelineEvents : Announce(g, m, e)

\* Before a call nothing has run.
LEMMA NoCallIsACall == NoCall \in CallStates /\ CallInv(NoCall)
<1>1. (CHOOSE t \in Tools : TRUE) \in Tools
  BY PipelineAssumption
<1>2. <<>> \in Seq(Hooks) /\ {} \subseteq Hooks
  OBVIOUS
<1>3. NoCall \in CallStates
  BY <1>1, <1>2 DEF NoCall, CallStates, Pcs
<1>4. CallInv(NoCall)
  BY DEF NoCall, CallInv
<1>5. QED
  BY <1>3, <1>4

-----------------------------------------------------------------------------
(******************************* the steps *********************************)

\* What a handler may reply is a reply.
LEMMA RepliesAreReplies ==
  ASSUME NEW g, NEW l \in Listeners
  PROVE  RepliesOf(l, g) \subseteq Replies /\ RepliesAfterNext(l) \subseteq Replies
<1>1. Answers[l] \subseteq Replies
  BY PipelineAssumption
<1>2. PermissionReplies(g) \subseteq Replies /\ GitReplies \subseteq Replies
      /\ AuditReplies \subseteq Replies
  BY DEF PermissionReplies, GitReplies, AuditReplies, Replies
<1>3. QED
  BY <1>1, <1>2 DEF RepliesOf, RepliesAfterNext, Replies

\* A handler that renames the tool changes nothing else of the call.
LEMMA RenamedIs ==
  ASSUME calls \in [Goroutines -> CallStates], NEW g \in Goroutines, NEW l \in Listeners,
         Renamed(g, l) \/ UNCHANGED calls
  PROVE  /\ \E v : calls' = [calls EXCEPT ![g] = v]
         /\ \A h \in Goroutines \ {g} : calls'[h] = calls[h]
         /\ calls'[g] \in CallStates
         /\ calls'[g].pc = calls[g].pc /\ calls'[g].ran = calls[g].ran
         /\ calls'[g].asked = calls[g].asked
         /\ CallInv(calls[g]) => CallInv(calls'[g])
<1> DEFINE c == calls[g]
<1>0. c \in CallStates
  OBVIOUS
<1>1. CASE UNCHANGED calls
  BY <1>1
<1>2. ASSUME NEW name \in Tools, calls' = [calls EXCEPT ![g].tool = name]
      PROVE  /\ \E v : calls' = [calls EXCEPT ![g] = v]
             /\ \A h \in Goroutines \ {g} : calls'[h] = calls[h]
             /\ calls'[g] \in CallStates
             /\ calls'[g].pc = c.pc /\ calls'[g].ran = c.ran /\ calls'[g].asked = c.asked
             /\ CallInv(c) => CallInv(calls'[g])
  <2> DEFINE n == [c EXCEPT !.tool = name]
  <2>1. calls' = [calls EXCEPT ![g] = n]
    BY <1>2
  <2>2. /\ n \in CallStates
        /\ n.pc = c.pc /\ n.ran = c.ran /\ n.asked = c.asked /\ n.after = c.after
        /\ n.snapshot = c.snapshot /\ n.left = c.left /\ n.cancelled = c.cancelled
    BY <1>0 DEF CallStates
  <2>3. CallInv(c) => CallInv(n)
    BY <2>2 DEF CallInv
  <2> HIDE DEF n
  <2>4. calls'[g] = n
    BY <2>1
  <2>5. QED
    BY <2>1, <2>2, <2>3, <2>4
<1>3. CASE Renamed(g, l)
  <2>1. PICK name \in {c.tool} \union (IF RoleOf[l] = "other" THEN Renames[l] ELSE {}) :
           calls' = [calls EXCEPT ![g].tool = name]
    BY <1>3 DEF Renamed
  <2>2. name \in Tools
    <3>1. c.tool \in Tools /\ Renames[l] \subseteq Tools
      BY <1>0, PipelineAssumption DEF CallStates
    <3>2. QED
      BY <3>1, <2>1
  <2>3. QED
    BY <2>1, <2>2, <1>2
<1>4. QED
  BY <1>1, <1>3

\* A change of the configuration leaves calls and dispatches alone.
LEMMA ChangeIsAside ==
  ASSUME ConfigOK, changes \in 0 .. MaxChanges, Change
  PROVE  /\ UNCHANGED <<calls, records, uses, dispatch>> /\ BusStep
         /\ ConfigOK' /\ (changes \in 0 .. MaxChanges)'
<1>1. UNCHANGED <<calls, records, uses>> /\ changes' \in 0 .. MaxChanges
  BY PipelineAssumption DEF Change
<1>2. CASE UNCHANGED busVars
  <2>1. CASE UNCHANGED configVars
    BY <2>1, <1>1, <1>2 DEF BusStep, ConfigOK, configVars, busVars
  <2>2. ASSUME NEW r \in Rules, AddRule(r)
        PROVE  ConfigOK'
    <3>1. Append(rules, r) \in Seq(Rules)
      BY DEF ConfigOK
    <3>2. PICK t \in SortRules(Append(rules, r)) : rules' = t
      BY <2>2 DEF AddRule
    <3>3. QED
      BY <2>2, <3>1, <3>2, SortKeeps DEF ConfigOK, AddRule
  <2>3. ASSUME NEW r \in Rules, RemoveRule(r)
        PROVE  ConfigOK'
    <3>1. PICK t \in Without(rules, r) : rules' = t
      BY <2>3 DEF RemoveRule
    <3>2. QED
      BY <2>3, <3>1, WithoutKeeps DEF ConfigOK, RemoveRule
  <2>4. ASSUME NEW t \in Tools, Authorize(t) \/ Register(t) \/ Unregister(t)
        PROVE  ConfigOK'
    BY <2>4 DEF Authorize, Register, Unregister, ConfigOK
  <2>5. ASSUME NEW h \in Hooks, RegisterHook(h) \/ UnregisterHook(h)
        PROVE  ConfigOK'
    BY <2>5, RemoveFirstOf DEF RegisterHook, UnregisterHook, ConfigOK
  <2>6. ConfigOK'
    BY <1>2, <2>1, <2>2, <2>3, <2>4, <2>5 DEF Change, On, Off, RemoveListener, busVars, configVars
  <2>7. QED
    BY <2>6, <1>1, <1>2 DEF BusStep, busVars
<1>3. ASSUME NEW l \in Listeners, On(l) \/ Off(l), UNCHANGED configVars
      PROVE  BusStep /\ dispatch' = dispatch /\ ConfigOK'
  BY <1>3 DEF On, Off, BusStep, configVars, ConfigOK
<1>4. CASE ~ UNCHANGED busVars
  <2>1. PICK l \in Listeners : (On(l) \/ Off(l)) /\ UNCHANGED configVars
    BY <1>4 DEF Change
  <2>2. QED
    BY <2>1, <1>1, <1>3
<1>5. QED
  BY <1>2, <1>4

\* What a step of g leaves alone, and that it is one of the bus.
LEMMA StepIsOnes ==
  ASSUME BusInv, PipelineTypeOK, NEW g \in Goroutines, Act(g)
  PROVE  /\ \A h \in Goroutines \ {g} : calls'[h] = calls[h] /\ dispatch'[h] = dispatch[h]
         /\ records \subseteq records'
         /\ UNCHANGED <<tools, hooks, rules, authorized, uses, changes>>
         /\ BusStep
<1>0. /\ calls \in [Goroutines -> CallStates] /\ dispatch \in [Goroutines -> Dispatches]
      /\ PipelineEvents \subseteq Events
      /\ {"waterfall", "emit"} \subseteq Modes
  BY PipelineAssumption DEF PipelineTypeOK, BusInv, BusTypeOK, Modes
<1>1. ASSUME NEW l \in Listeners, CallListener(g, l)
      PROVE  /\ \A h \in Goroutines \ {g} : calls'[h] = calls[h] /\ dispatch'[h] = dispatch[h]
             /\ records \subseteq records' /\ BusStep
             /\ UNCHANGED <<tools, hooks, rules, authorized, uses, changes>>
  <2>1. PICK reply \in RepliesOf(l, g) :
            /\ Invoke(g, l, reply)
            /\ Renamed(g, l)
            /\ records' = records \union LogsOf(l, g, reply)
            /\ UNCHANGED <<configVars, uses, changes>>
    BY <1>1 DEF CallListener
  <2>2. reply \in Replies
    BY RepliesAreReplies
  <2>3. \A h \in Goroutines \ {g} : dispatch'[h] = dispatch[h]
    BY <2>1, <1>0 DEF Invoke
  <2>4. BusStep
    BY <2>1, <2>2 DEF BusStep
  <2>5. \A h \in Goroutines \ {g} : calls'[h] = calls[h]
    BY <2>1, <1>0, RenamedIs
  <2>6. QED
    BY <2>1, <2>3, <2>4, <2>5 DEF configVars
<1>2. ASSUME NEW l \in Listeners, ListenerReturns(g, l)
      PROVE  /\ \A h \in Goroutines \ {g} : calls'[h] = calls[h] /\ dispatch'[h] = dispatch[h]
             /\ records \subseteq records' /\ BusStep
             /\ UNCHANGED <<tools, hooks, rules, authorized, uses, changes>>
  <2>1. PICK reply \in RepliesAfterNext(l) :
            /\ Leave(g, l, reply)
            /\ Renamed(g, l) \/ UNCHANGED calls
            /\ UNCHANGED <<configVars, records, uses, changes>>
    BY <1>2 DEF ListenerReturns
  <2>2. \A h \in Goroutines \ {g} : calls'[h] = calls[h] /\ dispatch'[h] = dispatch[h]
    BY <2>1, <1>0, RenamedIs DEF Leave
  <2>3. reply \in Replies
    BY RepliesAreReplies
  <2>4. BusStep
    BY <2>1, <2>3 DEF BusStep
  <2>5. QED
    BY <2>1, <2>2, <2>4 DEF configVars
<1>3. ASSUME \/ UNCHANGED busVars
             \/ \E m \in Modes, e \in Events : Dispatch(g, m, e)
      PROVE  BusStep /\ \A h \in Goroutines \ {g} : dispatch'[h] = dispatch[h]
  BY <1>3, <1>0 DEF BusStep, Dispatch, busVars
<1>4. CASE Cancel(g) \/ (\E t \in Tools : Execute(g, t)) \/ AfterPreExecute(g) \/ AfterExecute(g)
  <2>1. UNCHANGED busVars \/ \E m \in Modes, e \in Events : Dispatch(g, m, e)
    BY <1>4, <1>0 DEF Cancel, Execute, AfterPreExecute, AfterExecute, PipelineEvents
  <2>2. \A h \in Goroutines \ {g} : calls'[h] = calls[h]
    BY <1>4, <1>0 DEF Cancel, Execute, AfterPreExecute, AfterExecute, Moved
  <2>3. UNCHANGED <<records, tools, hooks, rules, authorized, uses, changes>>
    BY <1>4 DEF Cancel, Execute, AfterPreExecute, AfterExecute, configVars
  <2>4. QED
    BY <2>1, <2>2, <2>3, <1>3
<1>5. CASE Lookup(g) \/ CheckTool(g) \/ BeforeTool(g) \/ RunTool(g) \/ AfterTool(g)
  <2>1. UNCHANGED busVars \/ \E m \in Modes, e \in Events : Dispatch(g, m, e)
    BY <1>5, <1>0 DEF Lookup, CheckTool, BeforeTool, RunTool, AfterTool, Fails, PipelineEvents
  <2>2. \A h \in Goroutines \ {g} : calls'[h] = calls[h]
    BY <1>5, <1>0 DEF Lookup, CheckTool, BeforeTool, RunTool, AfterTool, Fails
  <2>3. records \subseteq records' /\ UNCHANGED <<tools, hooks, rules, authorized, uses, changes>>
    BY <1>5 DEF Lookup, CheckTool, BeforeTool, RunTool, AfterTool, configVars
  <2>4. QED
    BY <2>1, <2>2, <2>3, <1>3
<1>6. CASE \/ InnerReturns(g) \/ AfterPostExecute(g) \/ Return(g) \/ Announced(g)
           \/ \E m \in Modes, e \in Events \ PipelineEvents : Announce(g, m, e)
  <2>1. UNCHANGED busVars \/ \E m \in Modes, e \in Events : Dispatch(g, m, e)
    BY <1>6, <1>0 DEF InnerReturns, AfterPostExecute, Return, Announced, Announce, PipelineEvents
  <2>2. \A h \in Goroutines \ {g} : calls'[h] = calls[h]
    BY <1>6, <1>0 DEF InnerReturns, AfterPostExecute, Return, Announced, Announce, Moved
  <2>3. UNCHANGED <<records, tools, hooks, rules, authorized, uses, changes>>
    BY <1>6 DEF InnerReturns, AfterPostExecute, Return, Announced, Announce, configVars
  <2>4. QED
    BY <2>1, <2>2, <2>3, <1>3
<1>7. QED
  BY <1>1, <1>2, <1>4, <1>5, <1>6 DEF Act, Step

\* A step of g keeps what is so of its call.
LEMMA CallsKeep ==
  ASSUME PipelineTypeOK, CallsInv, NEW g \in Goroutines, Act(g)
  PROVE  calls'[g] \in CallStates /\ CallInv(calls'[g])
<1> DEFINE c == calls[g]
           n == calls'[g]
<1>0. /\ calls \in [Goroutines -> CallStates] /\ c \in CallStates /\ CallInv(c)
      /\ hooks \in Seq(Hooks)
  BY DEF PipelineTypeOK, ConfigOK, CallsInv
<1>1. CASE \E l \in Listeners : CallListener(g, l) \/ ListenerReturns(g, l)
  <2>1. \E l \in Listeners : Renamed(g, l) \/ UNCHANGED calls
    BY <1>1 DEF CallListener, ListenerReturns
  <2>2. QED
    BY <2>1, <1>0, RenamedIs
<1>2. CASE Cancel(g)
  <2>1. n = [c EXCEPT !.cancelled = TRUE]
    BY <1>2, <1>0 DEF Cancel
  <2>2. QED
    BY <2>1, <1>0 DEF CallStates, CallInv
<1>3. ASSUME NEW t \in Tools, Execute(g, t)
      PROVE  n \in CallStates /\ CallInv(n)
  <2>1. n = [NoCall EXCEPT !.pc = "pre-execute", !.asked = t, !.tool = t]
    BY <1>3, <1>0 DEF Execute
  <2>2. NoCall \in CallStates /\ ~NoCall.ran /\ NoCall.after = {}
    BY NoCallIsACall DEF NoCall
  <2>3. n \in CallStates /\ ~n.ran /\ n.after = {} /\ n.pc = "pre-execute"
    BY <2>1, <2>2 DEF CallStates, Pcs
  <2>4. QED
    BY <2>3 DEF CallInv
<1>4. ASSUME NEW pc \in {"execute", "lookup", "returned", "announce"}, n = [c EXCEPT !.pc = pc],
             c.pc \in {"idle", "pre-execute", "execute", "announce"}
      PROVE  n \in CallStates /\ CallInv(n)
  BY <1>4, <1>0 DEF CallStates, CallInv, Pcs
<1>5. CASE AfterPreExecute(g) \/ AfterExecute(g) \/ Announced(g)
  <2>1. \E pc \in {"execute", "lookup", "returned", "announce"} : n = [c EXCEPT !.pc = pc]
    BY <1>5, <1>0 DEF AfterPreExecute, AfterExecute, Announced, Moved
  <2>2. c.pc \in {"idle", "pre-execute", "execute", "announce"}
    BY <1>5 DEF AfterPreExecute, AfterExecute, Announced, At
  <2>3. QED
    BY <2>1, <2>2, <1>4
<1>6. CASE \E m \in Modes, e \in Events \ PipelineEvents : Announce(g, m, e)
  <2>1. n = [c EXCEPT !.pc = "announce"] /\ c.pc = "idle"
    BY <1>6, <1>0 DEF Announce, Moved, At
  <2>2. QED
    BY <2>1, <1>4
<1>7. ASSUME Fails(g), ~c.ran
      PROVE  n \in CallStates /\ CallInv(n)
  <2>1. n = [c EXCEPT !.pc = "result", !.ok = FALSE]
    BY <1>7, <1>0 DEF Fails
  <2>2. QED
    BY <2>1, <1>7, <1>0 DEF CallStates, CallInv, Pcs
<1>8. CASE Lookup(g)
  <2>1. ~c.ran
    BY <1>8, <1>0 DEF Lookup, At, CallInv
  <2>2. CASE n = [c EXCEPT !.pc = "check", !.snapshot = hooks]
    BY <2>1, <2>2, <1>0 DEF CallStates, CallInv, Pcs
  <2>3. QED
    BY <2>1, <2>2, <1>7, <1>8, <1>0 DEF Lookup
<1>9. CASE CheckTool(g)
  <2>1. ~c.ran
    BY <1>9, <1>0 DEF CheckTool, At, CallInv
  <2>2. CASE n = [c EXCEPT !.pc = "before", !.left = c.snapshot]
    BY <2>1, <2>2, <1>0 DEF CallStates, CallInv, Pcs
  <2>3. QED
    BY <2>1, <2>2, <1>7, <1>9, <1>0 DEF CheckTool
<1>10. CASE BeforeTool(g)
  <2>1. ~c.ran /\ c.left # <<>> /\ c.pc = "before"
    BY <1>10, <1>0 DEF BeforeTool, At, CallInv
  <2>2. Tail(c.left) \in Seq(Hooks)
    BY <2>1, <1>0, HeadAndTail DEF CallStates
  <2>3. CASE n = [c EXCEPT !.left = Tail(c.left)]
    BY <2>1, <2>2, <2>3, <1>0 DEF CallStates, CallInv, Pcs
  <2>4. QED
    BY <2>1, <2>3, <1>7, <1>10, <1>0 DEF BeforeTool
<1>11. CASE RunTool(g)
  <2>1. /\ ~c.ran /\ c.after = {} /\ c.pc = "before"
    BY <1>11, <1>0 DEF RunTool, At, CallInv
  <2>2. PICK ok \in BOOLEAN :
            n = [c EXCEPT !.pc = "after", !.ran = TRUE, !.ok = ok, !.left = c.snapshot]
    BY <1>11, <1>0 DEF RunTool, HooksAtLookup
  <2>3. /\ n \in CallStates /\ n.ran /\ n.after = {} /\ n.pc = "after"
        /\ n.left = n.snapshot
    BY <2>1, <2>2, <1>0 DEF CallStates, Pcs
  <2>4. QED
    BY <2>3 DEF CallInv
<1>12. CASE AfterTool(g)
  <2>1. /\ c.pc = "after" /\ c.left # <<>> /\ c.ran
        /\ Range(c.snapshot) = c.after \union Range(c.left)
    BY <1>12, <1>0 DEF AfterTool, At, CallInv
  <2>2. n = [c EXCEPT !.left = Tail(c.left), !.after = c.after \union {Head(c.left)}]
    BY <1>12, <1>0 DEF AfterTool
  <2>3. /\ Tail(c.left) \in Seq(Hooks) /\ Head(c.left) \in Hooks
        /\ Range(c.left) = {Head(c.left)} \union Range(Tail(c.left))
    BY <2>1, <1>0, HeadAndTail DEF CallStates
  <2>4. /\ n \in CallStates /\ n.ran /\ n.pc = "after" /\ n.snapshot = c.snapshot
        /\ n.after = c.after \union {Head(c.left)} /\ n.left = Tail(c.left)
    <3> DEFINE a == c.after \union {Head(c.left)}
               r == Tail(c.left)
    <3>1. a \in SUBSET Hooks /\ r \in Seq(Hooks)
      BY <2>3, <1>0 DEF CallStates
    <3> HIDE DEF a, r
    <3>2. n = [c EXCEPT !.left = r, !.after = a]
      BY <2>2 DEF a, r
    <3>3. n \in CallStates /\ n.ran = c.ran /\ n.pc = c.pc /\ n.snapshot = c.snapshot
          /\ n.after = a /\ n.left = r
      BY <3>1, <3>2, <1>0 DEF CallStates
    <3>4. QED
      BY <3>3, <2>1 DEF a, r
  <2>5. Range(n.snapshot) = n.after \union Range(n.left)
    BY <2>1, <2>3, <2>4
  <2>6. QED
    BY <2>4, <2>5 DEF CallInv
<1>13. CASE InnerReturns(g)
  <2>1. /\ c.pc = "after" /\ c.ran /\ (c.left = <<>> \/ c.cancelled)
        /\ Range(c.snapshot) = c.after \union Range(c.left)
    BY <1>13, <1>0 DEF InnerReturns, At, CallInv
  <2>2. PICK pc \in {"post-execute", "result"} : n = [c EXCEPT !.pc = pc]
    BY <1>13, <1>0 DEF InnerReturns, Moved
  <2>3. Range(<<>>) = {}
    BY DEF Range
  <2>4. c.cancelled \/ c.after = Range(c.snapshot)
    BY <2>1, <2>3
  <2>5. n \in CallStates /\ n.pc = pc /\ n.ran /\ n.cancelled = c.cancelled
        /\ n.after = c.after /\ n.snapshot = c.snapshot
    BY <2>1, <2>2, <1>0 DEF CallStates, Pcs
  <2>6. QED
    BY <2>4, <2>5 DEF CallInv
<1>14. CASE AfterPostExecute(g) \/ Return(g)
  <2>1. PICK pc \in {"result", "returned"} : n = [c EXCEPT !.pc = pc]
    BY <1>14, <1>0 DEF AfterPostExecute, Return, Moved
  <2>2. c.pc \in {"post-execute", "result"}
    BY <1>14 DEF AfterPostExecute, Return, At
  <2>3. n \in CallStates /\ n.pc = pc /\ n.ran = c.ran /\ n.cancelled = c.cancelled
        /\ n.after = c.after /\ n.snapshot = c.snapshot
    BY <2>1, <1>0 DEF CallStates, Pcs
  <2>4. QED
    BY <2>2, <2>3, <1>0 DEF CallInv
<1>15. QED
  BY <1>1, <1>2, <1>3, <1>5, <1>6, <1>8, <1>9, <1>10, <1>11, <1>12, <1>13, <1>14 DEF Act, Step

\* A goroutine's step changes its own call only.
LEMMA ActOnCalls ==
  ASSUME PipelineTypeOK, NEW g \in Goroutines, Act(g)
  PROVE  calls' = [calls EXCEPT ![g] = calls'[g]]
<1>0. calls \in [Goroutines -> CallStates]
  BY DEF PipelineTypeOK
<1>1. CASE \E v : calls' = [calls EXCEPT ![g] = v]
  BY <1>1, <1>0
<1>2. CASE calls' = calls
  BY <1>2, <1>0
<1>3. QED
  BY <1>0, <1>1, <1>2 DEF Act, Step, CallListener, ListenerReturns, Cancel, Execute, Announce,
     AfterPreExecute, AfterExecute, Lookup, CheckTool, BeforeTool, RunTool, AfterTool, InnerReturns,
     AfterPostExecute, Return, Announced, Moved, Fails, Renamed

\* The records are of calls, and a step that logs in a call of g says so.
LEMMA RecordsKeep ==
  ASSUME PipelineTypeOK, NEW g \in Goroutines, Act(g)
  PROVE  records' \subseteq Goroutines \X {"permission", "listener", "hook"}
<1>1. CASE \E l \in Listeners : CallListener(g, l)
  BY <1>1 DEF CallListener, LogsOf, PipelineTypeOK
<1>2. CASE AfterTool(g)
  BY <1>2 DEF AfterTool, PipelineTypeOK
<1>3. CASE records' = records
  BY <1>3 DEF PipelineTypeOK
<1>4. QED
  BY <1>1, <1>2, <1>3 DEF Act, Step, ListenerReturns, Cancel, Execute, Announce, AfterPreExecute,
     AfterExecute, Lookup, CheckTool, BeforeTool, RunTool, InnerReturns, AfterPostExecute, Return,
     Announced

\* Where a step of g that dispatches or ends a dispatch leaves its call.
LEMMA Emitted ==
  ASSUME BusInv, PipelineTypeOK, NEW g \in Goroutines, Act(g),
         calls[g].pc = "result" => dispatch[g].mode = "emit"
  PROVE  calls'[g].pc = "result" => dispatch'[g].mode = "emit"
<1>0. /\ calls \in [Goroutines -> CallStates] /\ dispatch \in [Goroutines -> Dispatches]
  BY DEF PipelineTypeOK, BusInv, BusTypeOK
<1>1. ASSUME NEW l \in Listeners, CallListener(g, l) \/ ListenerReturns(g, l)
      PROVE  dispatch'[g].mode = dispatch[g].mode /\ calls'[g].pc = calls[g].pc
  <2>1. Renamed(g, l) \/ UNCHANGED calls
    BY <1>1 DEF CallListener, ListenerReturns
  <2>2. dispatch'[g].mode = dispatch[g].mode
    BY <1>1, <1>0 DEF CallListener, ListenerReturns, Invoke, Leave, Dispatches
  <2>3. QED
    BY <2>1, <2>2, <1>0, RenamedIs
<1>2. ASSUME NEW e, Dispatch(g, "emit", e)
      PROVE  dispatch'[g].mode = "emit"
  BY <1>2, <1>0 DEF Dispatch, NoDispatch
<1>3. CASE Lookup(g) \/ CheckTool(g) \/ BeforeTool(g)
  BY <1>3, <1>2, <1>0 DEF Lookup, CheckTool, BeforeTool, Fails, At, CallStates
<1>4. CASE InnerReturns(g) \/ AfterPostExecute(g)
  BY <1>4, <1>2, <1>0 DEF InnerReturns, AfterPostExecute, Moved, At, CallStates
<1>5. CASE Cancel(g)
  BY <1>5, <1>0 DEF Cancel, CallStates, busVars
<1>6. CASE \E t \in Tools : Execute(g, t)
  BY <1>6, <1>0 DEF Execute, NoCall
<1>7. CASE AfterPreExecute(g) \/ AfterExecute(g)
  BY <1>7, <1>0 DEF AfterPreExecute, AfterExecute, Moved, At, CallStates
<1>10. CASE RunTool(g) \/ AfterTool(g)
  <2> DEFINE c == calls[g]
             r == Tail(c.left)
             a == c.after \union {Head(c.left)}
  <2>1. c \in CallStates
    BY <1>0
  <2>2. CASE RunTool(g)
    BY <2>2, <2>1, <1>0 DEF RunTool, CallStates
  <2>3. CASE AfterTool(g)
    <3>1. calls' = [calls EXCEPT ![g] = [c EXCEPT !.left = r, !.after = a]] /\ c.pc = "after"
      BY <2>3, <1>0 DEF AfterTool, At
    <3> HIDE DEF r, a
    <3>2. calls'[g].pc = "after"
      BY <3>1, <2>1, <1>0 DEF CallStates
    <3>3. QED
      BY <3>2
  <2>4. QED
    BY <1>10, <2>2, <2>3
<1>8. CASE \/ Return(g) \/ Announced(g)
           \/ \E m \in Modes, e \in Events \ PipelineEvents : Announce(g, m, e)
  BY <1>8, <1>0 DEF Return, Announced, Announce, Moved, At, CallStates
<1>9. QED
  BY <1>1, <1>3, <1>4, <1>5, <1>6, <1>7, <1>8, <1>10 DEF Act, Step

\* What a call came for is settled when it begins.
LEMMA AskedStays ==
  ASSUME PipelineTypeOK, NEW g \in Goroutines, Act(g), calls[g].pc # "idle"
  PROVE  calls'[g].asked = calls[g].asked
<1> DEFINE c == calls[g]
<1>0. calls \in [Goroutines -> CallStates] /\ c \in CallStates
  BY DEF PipelineTypeOK
<1>1. CASE \E l \in Listeners : CallListener(g, l) \/ ListenerReturns(g, l)
  <2>1. \E l \in Listeners : Renamed(g, l) \/ UNCHANGED calls
    BY <1>1 DEF CallListener, ListenerReturns
  <2>2. QED
    BY <2>1, <1>0, RenamedIs
<1>2. CASE Lookup(g) \/ CheckTool(g) \/ BeforeTool(g) \/ Cancel(g)
  BY <1>2, <1>0 DEF Lookup, CheckTool, BeforeTool, Cancel, Fails, CallStates
<1>3. CASE \/ AfterPreExecute(g) \/ AfterExecute(g) \/ InnerReturns(g) \/ AfterPostExecute(g)
           \/ Return(g) \/ Announced(g)
  BY <1>3, <1>0 DEF AfterPreExecute, AfterExecute, InnerReturns, AfterPostExecute, Return,
     Announced, Moved, CallStates
<1>4. CASE RunTool(g)
  BY <1>4, <1>0 DEF RunTool, CallStates
<1>5. CASE AfterTool(g)
  <2> DEFINE rest == Tail(c.left)
             ran == c.after \union {Head(c.left)}
  <2>1. calls' = [calls EXCEPT ![g] = [c EXCEPT !.left = rest, !.after = ran]]
    BY <1>5, <1>0 DEF AfterTool
  <2> HIDE DEF rest, ran
  <2>2. QED
    BY <2>1, <1>0 DEF CallStates
<1>6. QED
  BY <1>1, <1>2, <1>3, <1>4, <1>5 DEF Act, Step, Execute, Announce, At

\* What a step does to a call that is denied all the while.
LEMMA StaysGuarded ==
  ASSUME BusInv, PipelineTypeOK, CallsInv, Guarded, NEW p \in Goroutines, Act(p),
         NEW g \in Goroutines, NEW a \in Tools, calls'[g].asked = a, calls'[g].pc # "idle",
         calls[g].pc # "idle" => g \in guarded /\ <<g, a>> \in vetoed,
         Guarding, Denied(a)
  PROVE  GuardedCall(calls'[g], dispatch'[g])
<1> DEFINE c == calls[g]
           d == dispatch[g]
<1>0. /\ calls \in [Goroutines -> CallStates] /\ dispatch \in [Goroutines -> Dispatches]
      /\ c \in CallStates /\ d \in Dispatches /\ CallInv(c)
      /\ rules \in Seq(Rules) /\ SortedByPriority(rules)
  BY DEF PipelineTypeOK, ConfigOK, BusInv, BusTypeOK, CallsInv
<1>1. c.pc # "idle" => GuardedCall(c, d) /\ c.asked = a
  <2>1. CASE p = g
    BY <2>1, AskedStays DEF Guarded
  <2>2. CASE p # g
    BY <2>2, StepIsOnes DEF Guarded
  <2>3. QED
    BY <2>1, <2>2
<1>2. CASE p # g
  <2>1. calls'[g] = c /\ dispatch'[g] = d
    BY <1>2, StepIsOnes
  <2>2. QED
    BY <2>1, <1>1
<1>3. CASE p = g
  <2>1. ASSUME NEW l \in Listeners, CallListener(g, l)
        PROVE  GuardedCall(calls'[g], dispatch'[g])
    <3>1. PICK reply \in RepliesOf(l, g) : Invoke(g, l, reply) /\ Renamed(g, l)
      BY <2>1 DEF CallListener
    <3>0. calls'[g].pc = c.pc /\ calls'[g].ran = c.ran
      BY <3>1, <1>0, RenamedIs
    <3>2. GuardedCall(c, d) /\ c.asked = a
      BY <3>0, <1>1
    <3>3. CASE c.pc # "pre-execute"
      BY <3>0, <3>2, <3>3 DEF GuardedCall
    <3>4. CASE c.pc = "pre-execute"
      <4>1. d.mode = "waterfall" /\ l \in Range(d.todo) /\ l = Head(d.todo)
        BY <3>1, <3>2, <3>4 DEF Invoke, Turn, GuardedCall
      <4>2. d.todo # <<>>
        BY <4>1 DEF Range
      <4>3. /\ RoleOf[l] = "permission" /\ c.tool = c.asked
            /\ ~d.unwinding /\ d.open = <<>>
        BY <4>1, <4>2, <3>2, <3>4 DEF GuardedCall, Fresh, Refused
      <4>4. Check(TRUE, c.tool) = "deny"
        BY <3>2, <4>3, <1>0, DeniedIsRefused
      <4>5. reply = "error"
        BY <4>3, <4>4 DEF RepliesOf, PermissionReplies
      <4>6. Stops(d.mode, reply) /\ Result(d, reply) = "error"
        BY <4>1, <4>5 DEF Stops, Result
      <4>7. /\ dispatch'[g].mode = "waterfall" /\ dispatch'[g].todo = <<>>
            /\ dispatch'[g].result = "error" /\ ~dispatch'[g].unwinding
            /\ dispatch'[g].open = Append(d.open, l)
        BY <3>1, <4>1, <4>3, <4>6, <1>0 DEF Invoke, Dispatches
      <4>8. Len(dispatch'[g].open) = 1
        <5>1. d.open \in Seq(Listeners) /\ Len(d.open) = 0
          BY <4>3, EmptySeq, <1>0 DEF Dispatches
        <5>2. QED
          BY <4>7, <5>1, AppendProperties
      <4>9. QED
        BY <4>7, <4>8, <3>0, <3>2 DEF GuardedCall, Refused
    <3>5. QED
      BY <3>3, <3>4
  <2>2. ASSUME NEW l \in Listeners, ListenerReturns(g, l)
        PROVE  GuardedCall(calls'[g], dispatch'[g])
    <3>1. PICK reply \in RepliesAfterNext(l) :
             Leave(g, l, reply) /\ (Renamed(g, l) \/ UNCHANGED calls)
      BY <2>2 DEF ListenerReturns
    <3>2. calls'[g].pc = c.pc /\ calls'[g].ran = c.ran
      BY <3>1, <1>0, RenamedIs
    <3>3. GuardedCall(c, d)
      BY <3>2, <1>1
    <3>4. CASE c.pc # "pre-execute"
      BY <3>2, <3>3, <3>4 DEF GuardedCall
    <3>5. CASE c.pc = "pre-execute"
      <4>1. l \in Range(d.open) /\ d.open \in Seq(Listeners)
        BY <3>1, <1>0 DEF Leave, MayReturn, Dispatches
      <4>2. d.open # <<>>
        BY <4>1 DEF Range
      <4>3. d.mode = "waterfall" /\ Refused(d)
        BY <4>2, <3>3, <3>5 DEF GuardedCall, Fresh
      <4>4. Len(d.open) = 1 /\ d.open[1] = l
        BY <4>1, <4>3, OnlyElement DEF Refused
      <4>5. Len(RemoveFirst(d.open, l)) = 0
        BY <4>1, <4>4, RemoveFirstAt
      <4>6. reply = "next"
        BY <3>1, <4>3 DEF Leave, Refused
      <4>7. /\ dispatch'[g].mode = d.mode /\ dispatch'[g].todo = d.todo
            /\ dispatch'[g].open = RemoveFirst(d.open, l) /\ ~dispatch'[g].unwinding
            /\ dispatch'[g].result = d.result
        BY <3>1, <4>3, <4>4, <4>6, <1>0 DEF Leave, Refused, Dispatches
      <4>8. QED
        BY <4>3, <4>5, <4>7, <3>2, <3>3 DEF GuardedCall, Refused
    <3>6. QED
      BY <3>4, <3>5
  <2>3. CASE Cancel(g)
    <3>1. /\ calls'[g].pc = c.pc /\ calls'[g].ran = c.ran /\ dispatch' = dispatch /\ c.pc # "idle"
          /\ calls'[g].tool = c.tool /\ calls'[g].asked = c.asked
      BY <2>3, <1>0 DEF Cancel, CallStates, busVars
    <3>2. QED
      BY <3>1, <1>1 DEF GuardedCall
  <2>4. ASSUME NEW t \in Tools, Execute(g, t)
        PROVE  GuardedCall(calls'[g], dispatch'[g])
    <3>1. /\ calls'[g].pc = "pre-execute" /\ ~calls'[g].ran
          /\ calls'[g].asked = t /\ calls'[g].tool = t
      BY <2>4, <1>0 DEF Execute, NoCall
    <3>2. /\ dispatch'[g].mode = "waterfall" /\ dispatch'[g].todo = listeners["pre-execute"]
          /\ dispatch'[g].open = <<>> /\ ~dispatch'[g].unwinding
      BY <2>4, <1>0 DEF Execute, Dispatch, NoDispatch
    <3>3. QED
      BY <3>1, <3>2 DEF Guarding, Fresh, GuardedCall
  <2>5. ASSUME NEW m \in Modes, NEW e \in Events \ PipelineEvents, Announce(g, m, e)
        PROVE  GuardedCall(calls'[g], dispatch'[g])
    <3>1. calls'[g].pc = "announce" /\ calls'[g].ran = c.ran /\ c.pc = "idle"
      BY <2>5, <1>0 DEF Announce, Moved, At, CallStates
    <3>2. QED
      BY <3>1, <1>0 DEF GuardedCall, CallInv
  <2>6. CASE AfterPreExecute(g)
    <3>1. c.pc = "pre-execute" /\ d.todo = <<>>
      BY <2>6 DEF AfterPreExecute, At, Idle
    <3>2. d.result = "error" /\ ~c.ran
      BY <3>1, <1>1 DEF GuardedCall, Fresh, Refused
    <3>3. calls'[g].pc = "returned" /\ calls'[g].ran = c.ran
      BY <3>2, <2>6, <1>0 DEF AfterPreExecute, Moved, CallStates
    <3>4. QED
      BY <3>2, <3>3 DEF GuardedCall
  <2>7. CASE Announced(g)
    <3>1. calls'[g].pc = "returned" /\ calls'[g].ran = c.ran /\ c.pc = "announce"
      BY <2>7, <1>0 DEF Announced, Moved, At, CallStates
    <3>2. QED
      BY <3>1, <1>0 DEF GuardedCall, CallInv
  <2>8. ASSUME c.pc \in {"execute", "lookup", "check", "before", "after", "post-execute", "result"}
        PROVE  FALSE
    BY <2>8, <1>1 DEF GuardedCall
  <2>9. QED
    BY <1>3, <2>1, <2>2, <2>3, <2>4, <2>5, <2>6, <2>7, <2>8 DEF Act, Step, AfterExecute, Lookup,
       CheckTool, BeforeTool, RunTool, AfterTool, InnerReturns, AfterPostExecute, Return, At
<1>4. QED
  BY <1>2, <1>3

\* What a step does to a call during which an audit listener stands.
LEMMA StaysHeard ==
  ASSUME BusInv, PipelineTypeOK, CallsInv, ResultEmitted, Hearing, NEW p \in Goroutines, Act(p),
         NEW g \in Goroutines, calls'[g].pc # "idle", calls[g].pc # "idle" => g \in heard,
         AuditorStands
  PROVE  Hears(g)'
<1> DEFINE c == calls[g]
           d == dispatch[g]
<1>0. /\ calls \in [Goroutines -> CallStates] /\ dispatch \in [Goroutines -> Dispatches]
      /\ c \in CallStates /\ d \in Dispatches /\ CallInv(c)
      /\ listeners \in [Events -> Seq(Listeners)]
      /\ records \subseteq records'
  BY StepIsOnes DEF PipelineTypeOK, BusInv, BusTypeOK, CallsInv
<1>1. c.pc # "idle" => Hears(g)
  BY DEF Hearing
<1>2. CASE p # g
  <2>1. calls'[g] = c /\ dispatch'[g] = d
    BY <1>2, StepIsOnes
  <2>2. QED
    BY <2>1, <1>0, <1>1 DEF Hears, Told, WillBeTold
<1>3. CASE p = g
  <2>1. ASSUME NEW l \in Listeners, CallListener(g, l)
        PROVE  Hears(g)'
    <3>1. PICK reply \in RepliesOf(l, g) :
             /\ Invoke(g, l, reply) /\ Renamed(g, l)
             /\ records' = records \union LogsOf(l, g, reply)
      BY <2>1 DEF CallListener
    <3>0. calls'[g].pc = c.pc /\ calls'[g].ran = c.ran
      BY <3>1, <1>0, RenamedIs
    <3>2. CASE c.pc # "result"
      BY <3>0, <3>1, <3>2, <1>0, <1>1 DEF Hears, Told
    <3>3. CASE c.pc = "result"
      <4>1. d.mode = "emit"
        BY <3>3 DEF ResultEmitted
      <4>2. dispatch'[g].todo = RemoveFirst(d.todo, l)
        BY <3>1, <4>1, <1>0 DEF Invoke, Stops, Dispatches
      <4>3. Range(d.todo) \ {l} \subseteq Range(dispatch'[g].todo)
        BY <4>2, <1>0, RemoveFirstOf DEF Dispatches
      <4>4. RoleOf[l] = "audit" => Told(g)'
        BY <3>1 DEF LogsOf, Told
      <4>5. WillBeTold(g) => Told(g)' \/ WillBeTold(g)'
        BY <4>3, <4>4 DEF WillBeTold
      <4>6. Told(g) => Told(g)'
        BY <1>0 DEF Told
      <4>7. QED
        BY <3>0, <3>3, <4>5, <4>6, <1>1 DEF Hears
    <3>4. QED
      BY <3>2, <3>3
  <2>2. ASSUME NEW l \in Listeners, ListenerReturns(g, l)
        PROVE  Hears(g)'
    <3>1. records' = records /\ dispatch'[g].todo = d.todo
      BY <2>2, <1>0 DEF ListenerReturns, Leave, Dispatches
    <3>2. calls'[g].pc = c.pc /\ calls'[g].ran = c.ran
      <4>1. Renamed(g, l) \/ UNCHANGED calls
        BY <2>2 DEF ListenerReturns
      <4>2. QED
        BY <4>1, <1>0, RenamedIs
    <3>3. QED
      BY <3>1, <3>2, <1>1 DEF Hears, Told, WillBeTold
  <2>3. CASE Cancel(g)
    <3>1. calls'[g].pc = c.pc /\ calls'[g].ran = c.ran /\ dispatch' = dispatch /\ c.pc # "idle"
      BY <2>3, <1>0 DEF Cancel, CallStates, busVars
    <3>2. QED
      BY <3>1, <1>0, <1>1 DEF Hears, Told, WillBeTold
  <2>4. CASE \/ \E t \in Tools : Execute(g, t)
             \/ \E m \in Modes, e \in Events \ PipelineEvents : Announce(g, m, e)
    <3>1. calls'[g].pc \in {"pre-execute", "announce"}
      BY <2>4, <1>0 DEF Execute, NoCall, Announce, Moved, CallStates
    <3>2. QED
      BY <3>1 DEF Hears
  <2>5. ASSUME ~c.ran, calls'[g].ran = c.ran
        PROVE  Hears(g)'
    BY <2>5 DEF Hears
  <2>6. CASE AfterPreExecute(g) \/ AfterExecute(g) \/ Announced(g)
    <3>1. ~c.ran
      BY <2>6, <1>0 DEF AfterPreExecute, AfterExecute, Announced, At, CallInv
    <3>2. calls'[g].ran = c.ran
      BY <2>6, <1>0 DEF AfterPreExecute, AfterExecute, Announced, Moved, CallStates
    <3>3. QED
      BY <3>1, <3>2, <2>5
  <2>7. CASE Lookup(g) \/ CheckTool(g) \/ BeforeTool(g)
    <3>1. ~c.ran
      BY <2>7, <1>0 DEF Lookup, CheckTool, BeforeTool, At, CallInv
    <3>2. calls'[g].ran = c.ran
      BY <2>7, <1>0 DEF Lookup, CheckTool, BeforeTool, Fails, CallStates
    <3>3. QED
      BY <3>1, <3>2, <2>5
  <2>8. CASE RunTool(g) \/ AfterTool(g)
    <3> DEFINE r == Tail(c.left)
               a == c.after \union {Head(c.left)}
    <3>1. CASE RunTool(g)
      BY <3>1, <1>0 DEF RunTool, CallStates, Hears
    <3>2. CASE AfterTool(g)
      <4>1. calls' = [calls EXCEPT ![g] = [c EXCEPT !.left = r, !.after = a]] /\ c.pc = "after"
        BY <3>2, <1>0 DEF AfterTool, At
      <4> HIDE DEF r, a
      <4>2. calls'[g].pc = "after"
        BY <4>1, <1>0 DEF CallStates
      <4>3. QED
        BY <4>2 DEF Hears
    <3>3. QED
      BY <2>8, <3>1, <3>2
  <2>9. ASSUME Dispatch(g, "emit", "result")
        PROVE  WillBeTold(g)'
    <3>1. dispatch'[g].todo = listeners["result"]
      BY <2>9, <1>0 DEF Dispatch, NoDispatch
    <3>2. PICK l \in Listeners : RoleOf[l] = "audit" /\ l \in Range(listeners[EventOf[l]])
      BY DEF AuditorStands, Registered
    <3>3. EventOf[l] = "result"
      BY <3>2, PipelineAssumption
    <3>4. QED
      BY <3>1, <3>2, <3>3 DEF WillBeTold
  <2>10. CASE InnerReturns(g) \/ AfterPostExecute(g)
    <3>1. \/ calls'[g].pc = "post-execute"
          \/ calls'[g].pc = "result" /\ Dispatch(g, "emit", "result")
      BY <2>10, <1>0 DEF InnerReturns, AfterPostExecute, Moved, CallStates
    <3>2. QED
      BY <3>1, <2>9 DEF Hears
  <2>11. CASE Return(g)
    <3>1. c.pc = "result" /\ d.todo = <<>> /\ calls'[g].ran = c.ran /\ records' = records
      BY <2>11, <1>0 DEF Return, At, Idle, Moved, CallStates
    <3>2. ~WillBeTold(g)
      BY <3>1 DEF WillBeTold, Range
    <3>3. QED
      BY <3>1, <3>2, <1>1 DEF Hears, Told
  <2>12. QED
    BY <1>3, <2>1, <2>2, <2>3, <2>4, <2>6, <2>7, <2>8, <2>10, <2>11 DEF Act, Step
<1>4. QED
  BY <1>2, <1>3

-----------------------------------------------------------------------------
(****************************** the invariant ******************************)

\* At the start no call is under way.
LEMMA PipelineInit == Init => PipelineInv
<1> SUFFICES ASSUME Init PROVE PipelineInv
  OBVIOUS
<1>1. PICK s \in Setups :
         /\ uses = s.uses /\ tools = s.tools /\ listeners = s.listeners /\ hooks = s.hooks
         /\ rules \in SortRules(s.rules)
  BY DEF Init
<1>2. ConfigOK
  BY <1>1, SortKeeps, PipelineAssumption DEF ConfigOK, Init
<1>3. NoDispatch \in Dispatches /\ NoDispatch.called = {}
  <2>1. <<>> \in Seq(Listeners)
    OBVIOUS
  <2>2. QED
    BY <2>1 DEF NoDispatch, Dispatches, Modes, Replies
<1>4. BusInv
  BY <1>1, <1>3, PipelineAssumption
     DEF Init, BusInv, BusTypeOK, ListedOnce, GoneForGood, CalledIsOpen
<1>5. PipelineTypeOK
  BY <1>1, <1>2, NoCallIsACall, PipelineAssumption DEF Init, PipelineTypeOK
<1>6. CallsInv /\ Guarded /\ ResultEmitted /\ Hearing
  <2>1. NoCall.pc = "idle"
    BY DEF NoCall
  <2>2. QED
    BY <2>1, NoCallIsACall DEF Init, CallsInv, Guarded, ResultEmitted, Hearing
<1>7. QED
  BY <1>4, <1>5, <1>6 DEF PipelineInv

\* The invariant of the pipeline is inductive.
LEMMA PipelineStep == PipelineInv /\ [Next]_vars => PipelineInv'
<1> SUFFICES ASSUME PipelineInv, [Next]_vars
             PROVE  PipelineInv'
  OBVIOUS
<1>0. /\ BusInv /\ PipelineTypeOK /\ ConfigOK /\ CallsInv /\ Guarded /\ ResultEmitted /\ Hearing
      /\ changes \in 0 .. MaxChanges
      /\ calls \in [Goroutines -> CallStates] /\ dispatch \in [Goroutines -> Dispatches]
  BY DEF PipelineInv, PipelineTypeOK, BusInv, BusTypeOK
<1>1. CASE UNCHANGED vars
  <2>1. BusStep
    BY <1>1 DEF vars, BusStep
  <2>2. BusInv'
    BY <2>1, <1>0, BusStepKeeps
  <2>3. UNCHANGED <<dispatch, listeners, pipelineVars>>
    BY <1>1 DEF vars, busVars
  <2>4. QED
    BY <2>2, <2>3, <1>0 DEF PipelineInv, pipelineVars, configVars, PipelineTypeOK, ConfigOK,
       CallsInv, Guarded, ResultEmitted, Hearing, Hears, Told, WillBeTold
<1>2. CASE Change /\ Remember
  <2>1. /\ UNCHANGED <<calls, records, uses, dispatch>> /\ BusStep
        /\ ConfigOK' /\ changes' \in 0 .. MaxChanges
    BY <1>2, <1>0, ChangeIsAside
  <2>2. BusInv'
    BY <2>1, <1>0, BusStepKeeps
  <2>3. /\ vetoed' \subseteq Goroutines \X Tools /\ guarded' \subseteq Goroutines
        /\ \A v \in vetoed' : calls[v[1]].pc # "idle" => v \in vetoed
        /\ \A g \in guarded' : calls'[g].pc # "idle" /\ (calls[g].pc # "idle" => g \in guarded)
    BY <1>2 DEF Remember, InCall
  <2>4. \A g \in heard' : g \in Goroutines /\ calls'[g].pc # "idle" /\ (calls[g].pc # "idle" => g \in heard)
    BY <1>2 DEF Remember, InCall
  <2>5. PipelineTypeOK'
    BY <2>1, <2>3, <2>4, <1>0 DEF PipelineTypeOK
  <2>6. CallsInv' /\ ResultEmitted'
    BY <2>1, <1>0 DEF CallsInv, ResultEmitted
  <2>7. Guarded'
    BY <2>1, <2>3, <1>0 DEF Guarded
  <2>9. Hearing'
    BY <2>1, <2>4, <1>0 DEF Hearing, Hears, Told, WillBeTold
  <2>8. QED
    BY <2>2, <2>5, <2>6, <2>7, <2>9 DEF PipelineInv
<1>3. ASSUME NEW p \in Goroutines, Act(p), Remember
      PROVE  PipelineInv'
  <2>1. /\ \A h \in Goroutines \ {p} : calls'[h] = calls[h] /\ dispatch'[h] = dispatch[h]
        /\ UNCHANGED <<tools, hooks, rules, authorized, uses, changes>>
        /\ BusStep
    BY <1>0, <1>3, StepIsOnes
  <2>2. BusInv'
    BY <2>1, <1>0, BusStepKeeps
  <2>3. calls'[p] \in CallStates /\ CallInv(calls'[p])
    BY <1>0, <1>3, CallsKeep
  <2>4. calls' \in [Goroutines -> CallStates] /\ CallsInv'
    <3>1. calls' = [calls EXCEPT ![p] = calls'[p]]
      BY <1>0, <1>3, ActOnCalls
    <3>2. QED
      BY <2>1, <2>3, <3>1, <1>0 DEF CallsInv
  <2>5. ResultEmitted'
    <3>1. calls[p].pc = "result" => dispatch[p].mode = "emit"
      BY <1>0 DEF ResultEmitted
    <3>2. calls'[p].pc = "result" => dispatch'[p].mode = "emit"
      BY <3>1, <1>0, <1>3, Emitted
    <3>3. QED
      BY <2>1, <3>2, <1>0 DEF ResultEmitted
  <2>6. /\ vetoed' \subseteq Goroutines \X Tools /\ guarded' \subseteq Goroutines
        /\ \A h \in Goroutines, t \in Tools :
              <<h, t>> \in vetoed' => Denied(t) /\ (calls[h].pc # "idle" => <<h, t>> \in vetoed)
    BY <1>3 DEF Remember, InCall
  <2>12. \A h \in guarded' : /\ calls'[h].pc # "idle" /\ Guarding
                             /\ calls[h].pc # "idle" => h \in guarded
    BY <1>3 DEF Remember, InCall
  <2>7. \A g \in heard' :
           /\ g \in Goroutines /\ calls'[g].pc # "idle" /\ (calls[g].pc # "idle" => g \in heard)
           /\ AuditorStands
    BY <1>3 DEF Remember, InCall
  <2>8. Guarded'
    <3>1. ASSUME NEW g \in guarded', <<g, calls'[g].asked>> \in vetoed'
          PROVE  GuardedCall(calls'[g], dispatch'[g])
      <4>1. g \in Goroutines /\ calls'[g].asked \in Tools
        BY <2>4, <2>6, <3>1 DEF CallStates
      <4>2. PICK a \in Tools : calls'[g].asked = a
        BY <4>1
      <4>3. <<g, a>> \in vetoed'
        BY <3>1, <4>2
      <4>4. Denied(a) /\ (calls[g].pc # "idle" => <<g, a>> \in vetoed)
        BY <2>6, <4>1, <4>3
      <4>5. Guarding /\ calls'[g].pc # "idle" /\ (calls[g].pc # "idle" => g \in guarded)
        BY <2>12
      <4>6. QED
        BY <4>1, <4>2, <4>4, <4>5, <1>0, <1>3, StaysGuarded
    <3>2. QED
      BY <3>1 DEF Guarded
  <2>9. Hearing'
    <3>1. \A g \in heard' : Hears(g)'
      BY <2>7, <1>0, <1>3, StaysHeard
    <3>2. QED
      BY <3>1 DEF Hearing
  <2>10. PipelineTypeOK'
    <3>1. records' \subseteq Goroutines \X {"permission", "listener", "hook"}
      BY <1>0, <1>3, RecordsKeep
    <3>2. /\ vetoed' \subseteq Goroutines \X Tools /\ guarded' \subseteq Goroutines
          /\ heard' \subseteq Goroutines
      BY <2>6, <2>7
    <3>3. QED
      BY <2>1, <2>4, <3>1, <3>2, <1>0 DEF PipelineTypeOK, ConfigOK
  <2>11. QED
    BY <2>2, <2>4, <2>5, <2>8, <2>9, <2>10 DEF PipelineInv
<1>4. QED
  BY <1>1, <1>2, <1>3 DEF Next, Act

\* The invariant holds in every state of the pipeline.
THEOREM PipelineInvariant == Spec => []PipelineInv
  BY PipelineInit, PipelineStep, PTL DEF Spec

\* The bus, the registry, the rules and the calls keep their types.
THEOREM PipelineTypes == Spec => []TypeOK
<1>1. PipelineInv => TypeOK
  BY DEF PipelineInv, BusInv, PipelineTypeOK, ConfigOK, CallStates, TypeOK
<1>2. QED
  BY <1>1, PipelineInvariant, PTL

\* Once a dispatch that called a Once listener has returned, no later one calls it.
THEOREM OnceIsOverAlways == Spec => []OnceIsOver
<1>1. PipelineInv => OnceIsOver
  BY SpentIsOver DEF PipelineInv
<1>2. QED
  BY <1>1, PipelineInvariant, PTL

\* A call that comes for a tool the rules deny all the while runs nothing, under whatever name,
\* as long as the permission plugin is first on its event (plugin/permission/plugin.go:57).
THEOREM VetoHoldsAlways == Spec => []VetoHolds
<1>1. PipelineInv => VetoHolds
  <2> SUFFICES ASSUME PipelineInv, NEW v \in vetoed, calls[v[1]].asked = v[2], v[1] \in guarded
               PROVE  ~calls[v[1]].ran
    BY DEF VetoHolds
  <2>1. v = <<v[1], calls[v[1]].asked>>
    BY DEF PipelineInv, PipelineTypeOK
  <2>2. QED
    BY <2>1 DEF PipelineInv, Guarded, GuardedCall
<1>2. QED
  BY <1>1, PipelineInvariant, PTL

\* A run that is not cancelled has run AfterTool of every hook of its look-up.
THEOREM AfterHooksRunAlways == Spec => []AfterHooksRun
<1>1. PipelineInv => AfterHooksRun
  BY DEF PipelineInv, CallsInv, CallInv, AfterHooksRun
<1>2. QED
  BY <1>1, PipelineInvariant, PTL

\* A tool that ran is reported to an audit plugin that stood all the while.
THEOREM EveryRunReportedAlways == Spec => []EveryRunReported
<1>1. PipelineInv => EveryRunReported
  BY DEF PipelineInv, Hearing, Hears, Told, EveryRunReported, At
<1>2. QED
  BY <1>1, PipelineInvariant, PTL
=============================================================================
