------------------------------ MODULE EventFeed ------------------------------
(***************************************************************************)
(* The event log as a feed: writers append events under sequence numbers   *)
(* of AutoId, a consumer tails the log with get_events_since.              *)
(*                                                                         *)
(* A sequence number is the present millisecond followed by a counter that *)
(* wraps. The in-memory store takes it and appends under one lock. The SQL *)
(* store takes it first; the row becomes visible later, when the insert or *)
(* the transaction it belongs to commits, if it ever does.                 *)
(*                                                                         *)
(* The consumer is external: it asks for what follows the last sequence    *)
(* number it got. late and wraps are history, for the properties: the      *)
(* numbers whose append was under way while the consumer read past them,   *)
(* and the milliseconds that were present, or read by an append still      *)
(* without a number, when the counter wrapped.                             *)
(***************************************************************************)
EXTENDS Naturals, Sequences, FiniteSets, SequencesExt, FiniteSetsExt, Sorting

CONSTANTS Writer,      \* concurrent callers of append_event
          Keyed,       \* events with a dedup key: transfers and transitions
          Unkeyed,     \* events without one: AccountCreated
          Stores,      \* the stores to run on
          TailRange,   \* 2^23: values of the counter part
          Limit,       \* the consumer's page size
          MaxMs,       \* bound: how far the clock advances
          MaxAppends   \* bound: numbers asked for, too few to use one twice

ASSUME FeedStores == Stores \subseteq {"InMemory", "Sql"}
ASSUME FeedBounds ==
    /\ TailRange \in Nat \ {0} /\ Limit \in Nat \ {0}
    /\ MaxMs \in Nat \ {0} /\ MaxAppends \in 0..TailRange
ASSUME FeedWriters == IsFiniteSet(Writer)

VARIABLES store,
          now,        \* SystemTime in milliseconds; it does not step back here
          counter,    \* AutoId.counter modulo TailRange
          log,        \* the rows, in the order they became visible: [seq, event]
          draft,      \* writer -> the append it is in, or None
          answers,    \* {[seq, event]}: what append_event returned
          appends,
          cursor,     \* the last sequence number the consumer got
          delivered,  \* the sequence numbers it got
          late, wraps

logVars == <<log, answers>>
consumerVars == <<cursor, delivered>>
vars == <<store, now, counter, logVars, draft, appends, consumerVars, late, wraps>>

Event == Keyed \cup Unkeyed

\* An append to the SQL store: the time it read, its number (0: none yet), and
\* whether the consumer has read meanwhile.
None == [event |-> "none", ms |-> 0, seq |-> 0, late |-> FALSE]

Init ==
    /\ store \in Stores
    /\ now = 1
    /\ counter \in 0..(TailRange - 1)
    /\ log = <<>> /\ answers = {}
    /\ draft = [w \in Writer |-> None]
    /\ appends = 0
    /\ cursor = 0 /\ delivered = {}
    /\ late = {} /\ wraps = {}

-----------------------------------------------------------------------------
(* AutoId. *)

pack(ms, tail) == ms * TailRange + tail
Ms(seq) == seq \div TailRange

\* (Mutant: the counter is read and not advanced.)
FetchAdd_NoAdd == UNCHANGED <<counter, wraps>>

\* counter.fetch_add(1), masked.
FetchAdd ==
    /\ counter' = (counter + 1) % TailRange
    /\ wraps' = IF counter = TailRange - 1
                  THEN wraps \cup {now} \cup {draft[w].ms : w \in {v \in Writer : draft[v].seq = 0}}
                  ELSE wraps

Tick ==
    /\ now < MaxMs
    /\ now' = now + 1
    /\ UNCHANGED <<store, counter, logVars, draft, appends, consumerVars, late, wraps>>

-----------------------------------------------------------------------------
(* append_event. *)

\* The rows an event with a key collides with.
Known(e) == IF e \in Keyed THEN {r \in ToSet(log) : r.event = e} ELSE {}

StartAppend == appends < MaxAppends /\ appends' = appends + 1

\* The row is appended, or the rows it collides with answer for it.
AppendOrAnswer(row) ==
    \/ /\ Known(row.event) = {}
       /\ log' = Append(log, row)
       /\ answers' = answers \cup {row}
    \/ /\ Known(row.event) # {}
       /\ answers' = answers \cup Known(row.event)
       /\ UNCHANGED log

\* In memory: look for the key, take a number and append, under one lock.
AppendLocked ==
    /\ store = "InMemory"
    /\ StartAppend
    /\ \E e \in Event :
          /\ AppendOrAnswer([seq |-> pack(now, counter), event |-> e])
          /\ IF Known(e) = {} THEN FetchAdd ELSE UNCHANGED <<counter, wraps>>
    /\ UNCHANGED <<store, now, draft, consumerVars, late>>

\* A cache point takes a number of the same counter; its row is not in the log.
append_balance_projection ==
    /\ StartAppend
    /\ FetchAdd
    /\ UNCHANGED <<store, now, logVars, draft, consumerVars, late>>

\* SQL: AutoId::next reads the clock ...
ReadClock(w) ==
    /\ store = "Sql" /\ draft[w] = None
    /\ StartAppend
    /\ \E e \in Event : draft' = [draft EXCEPT ![w] = [None EXCEPT !.event = e, !.ms = now]]
    /\ UNCHANGED <<store, now, counter, logVars, consumerVars, late, wraps>>

\* ... and then takes the counter, before the INSERT is sent.
TakeCounter(w) ==
    /\ draft[w] # None /\ draft[w].seq = 0
    /\ draft' = [draft EXCEPT ![w].seq = pack(draft[w].ms, counter)]
    /\ FetchAdd
    /\ UNCHANGED <<store, now, logVars, appends, consumerVars, late>>

\* The consumer has read since the append began, and is past its number.
ReadPast(w) == draft[w].late /\ draft[w].seq <= cursor

\* (Mutant: a replayed event is answered with the number that was not used.)
InsertRow_OwnSeq(w) ==
    /\ draft[w].seq # 0
    /\ \E row \in {[seq |-> draft[w].seq, event |-> draft[w].event]} :
          /\ log' = IF Known(row.event) = {} THEN Append(log, row) ELSE log
          /\ answers' = answers \cup {row}
    /\ draft' = [draft EXCEPT ![w] = None]
    /\ late' = IF ReadPast(w) THEN late \cup {draft[w].seq} ELSE late
    /\ UNCHANGED <<store, now, counter, appends, consumerVars, wraps>>

\* The INSERT becomes visible, ON CONFLICT (dedup_key) DO NOTHING; when it did nothing
\* the number of the row in place is read and returned.
InsertRow(w) ==
    /\ draft[w].seq # 0
    /\ AppendOrAnswer([seq |-> draft[w].seq, event |-> draft[w].event])
    /\ draft' = [draft EXCEPT ![w] = None]
    /\ late' = IF ReadPast(w) THEN late \cup {draft[w].seq} ELSE late
    /\ UNCHANGED <<store, now, counter, appends, consumerVars, wraps>>

\* The connection fails, or the transaction the event belongs to is rolled back.
Abandon(w) ==
    /\ draft[w] # None
    /\ draft' = [draft EXCEPT ![w] = None]
    /\ UNCHANGED <<store, now, counter, logVars, appends, consumerVars, late, wraps>>

-----------------------------------------------------------------------------
(* get_events_since. *)

\* (Mutant: the events at the cursor are not skipped.)
After_Inclusive(seq) == {i \in DOMAIN log : log[i].seq >= seq}

\* The rows after a sequence number.
After(seq) == {i \in DOMAIN log : log[i].seq > seq}

\* (Mutant: the SQL page is not ordered before it is cut.)
Page_Unordered == LET all == SortedSeq(After(cursor), LAMBDA i, j : i > j)
                  IN SubSeq(all, 1, IF Len(all) < Limit THEN Len(all) ELSE Limit)

\* A page: in memory in the order of the log, in SQL by sequence number.
Page ==
    LET Before(i, j) == IF store = "InMemory" THEN i < j ELSE log[i].seq < log[j].seq
        all == SortedSeq(After(cursor), Before)
    IN SubSeq(all, 1, IF Len(all) < Limit THEN Len(all) ELSE Limit)

Consume ==
    /\ After(cursor) # {}
    /\ \E page \in {Page} :
          /\ delivered' = delivered \cup {log[i].seq : i \in ToSet(page)}
          /\ cursor' = log[Last(page)].seq
    /\ draft' = [w \in Writer |-> IF draft[w] = None THEN None
                                    ELSE [draft[w] EXCEPT !.late = TRUE]]
    /\ UNCHANGED <<store, now, counter, logVars, appends, late, wraps>>

-----------------------------------------------------------------------------
Next ==
    \/ Tick \/ Consume \/ AppendLocked \/ append_balance_projection
    \/ \E w \in Writer : ReadClock(w) \/ TakeCounter(w) \/ InsertRow(w) \/ Abandon(w)

\* The consumer keeps reading.
Spec == Init /\ [][Next]_vars /\ WF_vars(Consume)

-----------------------------------------------------------------------------
(* Correctness. *)

Seq64 == 0..pack(MaxMs, TailRange - 1)
Logged == {r.seq : r \in ToSet(log)}

\* Types; a sequence number belongs to one row, the primary key of events.
FeedTypeOK ==
    /\ store \in Stores /\ now \in 1..MaxMs
    /\ counter \in 0..(TailRange - 1)
    /\ \A w \in Writer : draft[w].seq \in Seq64
    /\ ToSet(log) \cup answers \subseteq [seq : Seq64, event : Event]
    /\ Cardinality(Logged) = Len(log)
    /\ cursor \in Seq64 /\ delivered \subseteq Logged

\* However often an event with a key is appended, and by whom, there is one row, and
\* everybody is answered with its number.
ReplaysAgree ==
    /\ answers \subseteq ToSet(log)
    /\ \A e \in Keyed : Cardinality({r \in ToSet(log) : r.event = e}) <= 1

\* Its append was under way while the consumer read past it, or the counter wrapped in
\* its millisecond.
Excused(seq) == seq \in late \/ Ms(seq) \in wraps

\* The consumer misses nothing it could have got: an event behind its cursor that it
\* did not get is excused. In memory no append is ever under way.
MissedForCause ==
    /\ \A seq \in Logged : seq <= cursor => seq \in delivered \/ Excused(seq)
    /\ store = "InMemory" => late = {}

\* Every event that is not excused reaches the consumer.
EventuallyDelivered ==
    \A seq \in Seq64 : seq \in Logged ~> seq \in delivered \/ Excused(seq)
=============================================================================
