--------------------------- MODULE ContextManager ---------------------------
(***************************************************************************)
(* One session's short-term context (internal/contextmgr): messages are    *)
(* appended and cleared, and a compression runs in the background: it      *)
(* copies the messages, has the LLM summarise segments of the older ones   *)
(* in parallel, has the summaries merged and stores the result.            *)
(*                                                                         *)
(* A message is the number of its append.  A summary is the sequence of    *)
(* the messages it tells of; the cards are cut from it under the same lock *)
(* and stand for nothing else.  Left out: token counts, texts.             *)
(***************************************************************************)
EXTENDS Naturals, Sequences, FiniteSets, SequencesExt

CONSTANTS
    Appenders,      \* the goroutines that append
    Clearers,       \* each calls Clear once
    Compressions,   \* each calls Compress once
    SegSize,        \* messages to a segment, 10 in the code
    KeepRecent,     \* messages that are not summarised, 20 in the code
    MaxMessages     \* bound: messages appended in all

ASSUME ContextAssumption ==
    /\ SegSize \in Nat \ {0}
    /\ KeepRecent \in Nat
    /\ MaxMessages \in Nat

VARIABLES
    contexts,   \* the sessionContexts made so far
    current,    \* Manager.sessions[id]: which of them, 0 for none
    op,         \* where each operation is, and the context it has got
    job,        \* what each compression's goroutine does
    appended,   \* how many messages have been appended
    kept        \* those no Clear has taken since

contextVars == <<contexts, current, op, job, appended, kept>>

Ops == Appenders \union Clearers \union Compressions

NewContext == [messages |-> <<>>, summary |-> <<>>]

(* results is the channel of the segments' summaries; overtaken: a Clear    *)
(* came after the messages were copied; blank: the LLM gave an empty        *)
(* summary for a segment.                                                   *)
NewJob ==
    [at |-> "no", copy |-> <<>>, working |-> {}, results |-> <<>>, summary |-> <<>>,
     overtaken |-> FALSE, blank |-> FALSE]

ContextInit ==
    /\ contexts = <<>>
    /\ current = 0
    /\ op = [o \in Ops |-> [at |-> "idle", sc |-> 0]]
    /\ job = [j \in Compressions |-> NewJob]
    /\ appended = 0
    /\ kept = {}

-----------------------------------------------------------------------------
(* getOrCreateSession: a look under the read lock, and under the write lock *)
(* another one before a context is made.                                    *)
Has(o, sc) == op' = [op EXCEPT ![o] = [at |-> "has", sc |-> sc]]

Find(o) ==
    /\ op[o].at = "idle"
    /\ IF current # 0 THEN Has(o, current) ELSE op' = [op EXCEPT ![o].at = "missed"]
    /\ UNCHANGED <<contexts, current, job, appended, kept>>

(* The variant: no second look under the write lock.                       *)
TrustsFirstLook(o) == FALSE

SeesOneNow(o) == current # 0

Make(o) ==
    /\ op[o].at = "missed"
    /\ IF SeesOneNow(o)
       THEN Has(o, current) /\ UNCHANGED <<contexts, current>>
       ELSE /\ contexts' = Append(contexts, NewContext)
            /\ current' = Len(contexts')
            /\ Has(o, current')
    /\ UNCHANGED <<job, appended, kept>>

Over(o, at) == op' = [op EXCEPT ![o] = [at |-> at, sc |-> 0]]

(* AppendMessage; when the tokens cannot be counted nothing is appended.    *)
AppendMessage(a) ==
    /\ op[a].at = "has"
    /\ \/ /\ appended < MaxMessages
          /\ appended' = appended + 1
          /\ kept' = kept \union {appended'}
          /\ contexts' = [contexts EXCEPT ![op[a].sc].messages = Append(@, appended')]
       \/ UNCHANGED <<contexts, appended, kept>>
    /\ Over(a, "idle")
    /\ UNCHANGED <<current, job>>

Overtaken(j) ==
    [job[j] EXCEPT !.overtaken = @ \/ job[j].at \notin {"no", "started", "ended"}]

(* The variant: Clear leaves the summary.                                  *)
ClearedMessages(sc) == [contexts[sc] EXCEPT !.messages = <<>>]

Cleared(sc) == NewContext

Clear(c) ==
    /\ op[c].at = "has"
    /\ contexts' = [contexts EXCEPT ![op[c].sc] = Cleared(op[c].sc)]
    /\ kept' = {}
    /\ job' = [j \in Compressions |-> Overtaken(j)]
    /\ Over(c, "done")
    /\ UNCHANGED <<current, appended>>

(* Compress starts the goroutine and returns.                               *)
Compress(j) ==
    /\ op[j].at = "has"
    /\ job' = [job EXCEPT ![j].at = "started"]
    /\ op' = [op EXCEPT ![j].at = "done"]
    /\ UNCHANGED <<contexts, current, appended, kept>>

-----------------------------------------------------------------------------
OldMessages(messages) == SubSeq(messages, 1, Len(messages) - KeepRecent)

Segments(n) == (n + SegSize - 1) \div SegSize

Least(a, b) == IF a < b THEN a ELSE b

(* splitSegments.                                                           *)
Segment(messages, i) ==
    SubSeq(messages, (i - 1) * SegSize + 1, Least(i * SegSize, Len(messages)))

Count(j) == Segments(Len(OldMessages(job[j].copy)))

Goes(j, at) == job' = [job EXCEPT ![j].at = at]

Copy(j) ==
    LET messages == contexts[op[j].sc].messages
    IN  /\ job[j].at = "started"
        /\ job' = [job EXCEPT ![j].copy = messages,
                              ![j].at = IF Len(messages) <= KeepRecent THEN "ended" ELSE "map",
                              ![j].working = 1 .. Segments(Len(OldMessages(messages)))]
        /\ UNCHANGED <<contexts, current, op, appended, kept>>

(* The variant: a channel that holds one result.                           *)
RoomForOne(j) == 1

Room(j) == Count(j)

(* A segment's goroutine: its summary, an empty one, or an error (no        *)
(* summary) goes into the channel, which has room for all.                  *)
Summarize(j, i) ==
    /\ job[j].at = "map"
    /\ i \in job[j].working
    /\ Len(job[j].results) < Room(j)
    /\ \E text \in {"whole", "blank", "error"} :
          job' = [job EXCEPT
                    ![j].working = @ \ {i},
                    ![j].blank = @ \/ text = "blank",
                    ![j].results = Append(@, [index |-> i, text |-> text])]
    /\ UNCHANGED <<contexts, current, op, appended, kept>>

(* What a segment's result contributes.                                     *)
Told(j, result) ==
    IF result.text = "whole" THEN Segment(OldMessages(job[j].copy), result.index) ELSE <<>>

(* The variant: the summaries in the order the goroutines ended.           *)
AsTheyCame(j) == FlattenSeq([k \in 1 .. Count(j) |-> Told(j, job[j].results[k])])

(* summaries[res.index] = res.sum.                                          *)
InOrder(j) ==
    FlattenSeq([i \in 1 .. Count(j) |->
        Told(j, CHOOSE r \in Range(job[j].results) : r.index = i)])

(* After wg.Wait: an error ends the compression; one summary is the result, *)
(* several are merged.                                                      *)
Collect(j) ==
    /\ job[j].at = "map"
    /\ job[j].working = {}
    /\ IF \E r \in Range(job[j].results) : r.text = "error"
       THEN Goes(j, "ended")
       ELSE job' = [job EXCEPT ![j].summary = InOrder(j),
                               ![j].at = IF Count(j) = 1 THEN "store" ELSE "reduce"]
    /\ UNCHANGED <<contexts, current, op, appended, kept>>

(* reduceSummaries: merged, merged into nothing, or an error.               *)
Reduce(j) ==
    /\ job[j].at = "reduce"
    /\ \/ Goes(j, "store")
       \/ job' = [job EXCEPT ![j].at = "store", ![j].summary = <<>>]
       \/ Goes(j, "ended")
    /\ UNCHANGED <<contexts, current, op, appended, kept>>

(* setCompressAsyncResult, unless the summary is empty.                     *)
Store(j) ==
    /\ job[j].at = "store"
    /\ contexts' =
          IF job[j].summary = <<>> THEN contexts
          ELSE [contexts EXCEPT ![op[j].sc].summary = job[j].summary]
    /\ Goes(j, "ended")
    /\ UNCHANGED <<current, op, appended, kept>>

-----------------------------------------------------------------------------
JobStep(j) ==
    \/ Copy(j) \/ Collect(j) \/ Reduce(j) \/ Store(j)
    \/ \E i \in job[j].working : Summarize(j, i)

ContextNext ==
    \/ \E o \in Ops : Find(o) \/ Make(o)
    \/ \E a \in Appenders : AppendMessage(a)
    \/ \E c \in Clearers : Clear(c)
    \/ \E j \in Compressions : Compress(j) \/ JobStep(j)

(* The goroutines of a compression run, and the LLM answers or fails.       *)
ContextSpec ==
    /\ ContextInit /\ [][ContextNext]_contextVars
    /\ \A j \in Compressions : WF_contextVars(JobStep(j))

-----------------------------------------------------------------------------
ContextTypeOK ==
    /\ current \in 0 .. Len(contexts)
    /\ \A k \in DOMAIN contexts :
          contexts[k].messages \in Seq(Nat) /\ contexts[k].summary \in Seq(Nat)
    /\ \A o \in Ops :
          op[o].at \in {"idle", "missed", "has", "done"} /\ op[o].sc \in 0 .. Len(contexts)
    /\ \A j \in Compressions :
          /\ job[j].at \in {"no", "started", "map", "reduce", "store", "ended"}
          /\ job[j].copy \in Seq(Nat)
    /\ appended \in 0 .. MaxMessages
    /\ kept \subseteq 1 .. MaxMessages

(* What was appended and not cleared is in the session's context, also when *)
(* the first operations of a session race to make it (manager.go:78).       *)
NothingLost ==
    kept = IF current = 0 THEN {} ELSE Range(contexts[current].messages)

(* A stored summary tells of every message that was old when the messages   *)
(* were copied, in order and of no other: whatever order the segments'      *)
(* goroutines end in (compressor.go:67).  Only an LLM that answers a        *)
(* segment with nothing leaves a gap.                                       *)
SummaryWhole ==
    \A k \in DOMAIN contexts :
        contexts[k].summary # <<>> =>
            \E j \in Compressions :
                \/ contexts[k].summary = OldMessages(job[j].copy)
                \/ job[j].blank /\ Range(contexts[k].summary) \subseteq Range(OldMessages(job[j].copy))

(* A summary tells of messages the context still has, unless a Clear came   *)
(* while its compression was running (manager.go:183): one Clear before or  *)
(* after a compression leaves nothing behind.                               *)
SummaryOfThese ==
    (\A j \in Compressions : ~job[j].overtaken)
        => \A k \in DOMAIN contexts :
              Range(contexts[k].summary) \subseteq Range(contexts[k].messages)

(* A compression ends, whatever its segments' goroutines run into: none     *)
(* blocks on the channel that is read only after all have ended             *)
(* (compressor.go:63).                                                      *)
CompressionEnds == \A j \in Compressions : job[j].at = "started" ~> job[j].at = "ended"

(* Not so: after a Clear no summary of what was cleared.                    *)
ClearedIsGone ==
    \A k \in DOMAIN contexts :
        Range(contexts[k].summary) \subseteq Range(contexts[k].messages)
=============================================================================
