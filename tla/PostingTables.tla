---------------------------- MODULE PostingTables ----------------------------
(***************************************************************************)
(* The posting primitives of the stores (trait PostingStore): the table    *)
(* postings, written once, and the table live_postings with its column     *)
(* reservation, shared by concurrent callers.                              *)
(*                                                                         *)
(* A primitive is one transaction of one statement per chunk of its ids. A *)
(* statement finds the rows that match, then takes them one by one: it     *)
(* waits for a row that another transaction changed, and matches again     *)
(* once it has it. Nobody sees a change before its transaction commits.    *)
(* That is what Postgres does at READ COMMITTED, and is external, like the *)
(* order of the rows and the deadlock detector. In "Serial" stores writers *)
(* come one after the other: SQLite, and the in-memory store with its one  *)
(* lock around the posting maps.                                           *)
(*                                                                         *)
(* Each caller uses one reservation id, its own. "spend" is the claim that *)
(* the SQL commit_envelope makes in its transaction: all ids or none.      *)
(* "states" is Ledger::postings_with_state, reads without a transaction.   *)
(* held and seen are history, for the properties.                          *)
(***************************************************************************)
EXTENDS Naturals, Sequences, FiniteSets, SequencesExt

CONSTANTS PostingId,        \* the ids of the postings there may be
          Caller,           \* concurrent callers, and their reservation ids
          NoCaller,         \* no owner of a lock
          Stores,           \* the stores to run on
          Calls,            \* the calls to choose from: {[op, ids]}
          MAX_IDS_PER_QUERY,\* ids one statement may match
          MaxCalls          \* bound: calls begun in a behaviour

\* Ids and callers are finite types of the code; a reservation id is not a state.
ASSUME PostingIdAssumption == IsFiniteSet(PostingId)
ASSUME CallerAssumption ==
    NoCaller \notin Caller /\ Caller \cap {"Missing", "Active", "Spent"} = {}
ASSUME StoresAssumption == Stores \subseteq {"Postgres", "Serial"}
ASSUME ChunkAssumption == MAX_IDS_PER_QUERY \in Nat \ {0}
ASSUME CallsAssumption ==
    /\ MaxCalls \in Nat
    /\ \A w \in Calls :
          /\ w.op \in {"insert", "reserve", "release", "finalize", "deactivate", "spend", "states"}
          /\ w.ids \in Seq(PostingId)

VARIABLES store,     \* the store this is
          postings,  \* the ids in the table postings
          live,      \* live_postings: id -> reservation, NULL or a caller
          locks,     \* id -> the transaction that changed or holds its row
          pc,        \* caller -> "idle", "open" (a transaction), "live", "present"
          call,      \* caller -> the call it makes
          rest,      \* caller -> the ids for the statements to come
          rows,      \* caller -> the rows its statement still has to take
          writes,    \* caller -> its uncommitted rows: id -> reservation or GONE
          found,     \* caller -> the states it has read
          reply,     \* caller -> what its last call returned
          calls,
          held,      \* caller -> the postings it was told it reserved
          seen       \* caller -> id -> the states it had since the read began

tables == <<postings, live>>
txVars == <<locks, pc, call, rest, rows, writes, found, reply, calls>>
vars == <<store, tables, txVars, held, seen>>

NULL == "Active"     \* reservation IS NULL
GONE == "Spent"      \* no row in live_postings
NoCall == [op |-> "none", ids |-> <<>>]
Empty == <<>>

Init ==
    /\ store \in Stores
    /\ postings = {}
    /\ live = Empty
    /\ locks = [id \in PostingId |-> NoCaller]
    /\ pc = [c \in Caller |-> "idle"]
    /\ call = [c \in Caller |-> NoCall]
    /\ rest = [c \in Caller |-> <<>>]
    /\ rows = [c \in Caller |-> <<>>]
    /\ writes = [c \in Caller |-> Empty]
    /\ found = [c \in Caller |-> Empty]
    /\ reply = [c \in Caller |-> "none"]
    /\ calls = 0
    /\ held = [c \in Caller |-> {}]
    /\ seen = [c \in Caller |-> [id \in PostingId |-> {}]]

\* The state a reader derives from the two tables.
StateIn(immutableRows, liveRows, id) ==
    IF id \in DOMAIN liveRows THEN liveRows[id]
    ELSE IF id \in immutableRows THEN GONE ELSE "Missing"
State(id) == StateIn(postings, live, id)

-----------------------------------------------------------------------------
(* Statements. *)

Reads(w) == w.op = "states"

\* ids.chunks(MAX_IDS_PER_QUERY): the ids of the next statement, and those after it.
Chunk(ids) == SubSeq(ids, 1, IF Len(ids) < MAX_IDS_PER_QUERY THEN Len(ids) ELSE MAX_IDS_PER_QUERY)
\* (Mutant: the loop over the chunks does not advance.)
AfterChunk_Same(ids) == ids

AfterChunk(ids) == SubSeq(ids, Len(Chunk(ids)) + 1, Len(ids))

\* Rows laid over others; TLC's f @@ g, spelled out because provers know no @@.
Overlay(new, old) ==
    [id \in DOMAIN new \cup DOMAIN old |-> IF id \in DOMAIN new THEN new[id] ELSE old[id]]

\* The row as the caller's transaction sees it now.
Row(c, id) ==
    IF id \in DOMAIN writes[c] THEN writes[c][id]
    ELSE IF id \in DOMAIN live THEN live[id] ELSE GONE

\* (Mutant: any reservation will do for a release or a finalize.)
Matches_AnyReservation(c, id) ==
    IF call[c].op \in {"release", "finalize"} THEN Row(c, id) \in Caller ELSE Row(c, id) = NULL

\* The predicate of the statement: reservation IS NULL, or reservation = rid.
Matches(c, id) ==
    Row(c, id) = (IF call[c].op \in {"release", "finalize"} THEN c ELSE NULL)

\* What it makes of a row that matches.
NewValue(c) ==
    CASE call[c].op = "reserve" -> c
      [] call[c].op = "release" -> NULL
      [] OTHER                  -> GONE

\* Callers a caller's next row or insert waits for.
NextRow(c) ==
    CASE pc[c] = "open" /\ rows[c] # <<>>                             -> {Head(rows[c])}
      [] pc[c] = "open" /\ call[c].op = "insert" /\ rest[c] # <<>>   -> {Head(rest[c])}
      [] OTHER                                                       -> {}

WaitsFor(c, d) == c # d /\ \E id \in NextRow(c) : locks[id] = d

\* A set of callers that wait in a circle.
Deadlocked(c) ==
    \E S \in SUBSET Caller :
        /\ c \in S
        /\ \A d \in S : (\E e \in S : WaitsFor(d, e)) /\ (\E e \in S : WaitsFor(e, d))

-----------------------------------------------------------------------------
(* Transactions. *)

Begin(c) ==
    /\ pc[c] = "idle"
    /\ calls < MaxCalls
    /\ \E w \in Calls :
          /\ ~Reads(w)
          /\ store = "Serial" => \A d \in Caller : pc[d] # "open"
          /\ pc' = [pc EXCEPT ![c] = "open"]
          /\ call' = [call EXCEPT ![c] = w]
          /\ rest' = [rest EXCEPT ![c] = w.ids]
    /\ reply' = [reply EXCEPT ![c] = "none"]
    /\ calls' = calls + 1
    /\ UNCHANGED <<tables, locks, rows, writes, found, held>>

\* (Mutant: the rows stay locked.)
End_KeepsLocks(c, answer) ==
    /\ pc' = [pc EXCEPT ![c] = "idle"]
    /\ call' = [call EXCEPT ![c] = NoCall]
    /\ rest' = [rest EXCEPT ![c] = <<>>]
    /\ rows' = [rows EXCEPT ![c] = <<>>]
    /\ writes' = [writes EXCEPT ![c] = Empty]
    /\ reply' = [reply EXCEPT ![c] = answer]
    /\ UNCHANGED <<locks, calls>>

\* COMMIT or ROLLBACK.
End(c, answer) ==
    /\ pc' = [pc EXCEPT ![c] = "idle"]
    /\ call' = [call EXCEPT ![c] = NoCall]
    /\ rest' = [rest EXCEPT ![c] = <<>>]
    /\ rows' = [rows EXCEPT ![c] = <<>>]
    /\ writes' = [writes EXCEPT ![c] = Empty]
    /\ locks' = [id \in PostingId |-> IF locks[id] = c THEN NoCaller ELSE locks[id]]
    /\ reply' = [reply EXCEPT ![c] = answer]
    /\ UNCHANGED calls

Rollback(c, answer) ==
    /\ End(c, answer)
    /\ UNCHANGED <<tables, found, held>>

\* The next chunk's UPDATE, DELETE or SELECT .. FOR UPDATE finds its rows; the scan
\* takes them in an order the caller cannot know.
Match(c) ==
    /\ pc[c] = "open" /\ call[c].op # "insert"
    /\ rows[c] = <<>> /\ rest[c] # <<>>
    /\ \E order \in SetToSeqs({id \in ToSet(Chunk(rest[c])) : Matches(c, id)}) :
          rows' = [rows EXCEPT ![c] = order]
    /\ rest' = [rest EXCEPT ![c] = AfterChunk(@)]
    /\ UNCHANGED <<tables, locks, pc, call, writes, found, reply, calls, held>>

\* The predicate is evaluated again on the row the statement waited for.
StillMatches(c, id) == Matches(c, id)

\* The statement gets its next row and changes it, or drops it.
TakeRow(c) ==
    /\ pc[c] = "open" /\ rows[c] # <<>>
    /\ \E id \in NextRow(c) :
          /\ locks[id] \in {NoCaller, c}
          /\ IF StillMatches(c, id)
               THEN /\ locks' = [locks EXCEPT ![id] = c]
                    /\ writes' = [writes EXCEPT ![c] = Overlay([row \in {id} |-> NewValue(c)], @)]
               ELSE UNCHANGED <<locks, writes>>
    /\ rows' = [rows EXCEPT ![c] = Tail(@)]
    /\ UNCHANGED <<tables, pc, call, rest, found, reply, calls, held>>

\* (Mutant: the posting is activated without asking whether it is new.)
IsNew_Always(c, id) == TRUE

\* INSERT INTO postings .. ON CONFLICT DO NOTHING changed a row.
IsNew(c, id) == id \notin postings /\ id \notin DOMAIN writes[c]

\* insert_postings, one posting: it waits for another inserter of the same id, and
\* only a new posting gets a row in live_postings.
InsertRow(c) ==
    /\ pc[c] = "open" /\ call[c].op = "insert" /\ rest[c] # <<>>
    /\ \E id \in NextRow(c) :
          /\ locks[id] \in {NoCaller, c}
          /\ IF IsNew(c, id)
               THEN /\ locks' = [locks EXCEPT ![id] = c]
                    /\ writes' = [writes EXCEPT ![c] = Overlay([row \in {id} |-> NULL], @)]
               ELSE UNCHANGED <<locks, writes>>
    /\ rest' = [rest EXCEPT ![c] = Tail(@)]
    /\ UNCHANGED <<tables, pc, call, rows, found, reply, calls, held>>

\* rows_affected, summed over the statements, against the number of ids: all a caller
\* reads from it.
Count(c) == IF DOMAIN writes[c] = ToSet(call[c].ids) THEN "full" ELSE "short"

Done(c) == pc[c] = "open" /\ rows[c] = <<>> /\ rest[c] = <<>>

\* (Mutant: a claim that found only some of its rows commits.)
Complete_Some(c) == TRUE

\* commit_envelope goes on only when every consumed posting was there to claim.
Complete(c) == call[c].op = "spend" => Count(c) = "full"

\* What the caller may believe after the answer: a full count of reserve_postings
\* means that it holds every id; an error tells it nothing.
HeldAfter(c, answer) ==
    CASE call[c].op = "reserve" /\ answer = "full" -> held[c] \cup ToSet(call[c].ids)
      [] call[c].op \in {"release", "finalize"}      -> held[c] \ ToSet(call[c].ids)
      [] OTHER                                       -> held[c]

\* COMMIT takes effect, even if its answer is lost.
Commit(c) ==
    /\ Done(c) /\ Complete(c)
    /\ live' = [id \in {i \in DOMAIN live \cup DOMAIN writes[c] : Row(c, i) # GONE}
                  |-> Row(c, id)]
    /\ postings' = postings \cup DOMAIN writes[c]
    /\ \E answer \in {Count(c), "error"} :
          /\ End(c, answer)
          /\ held' = [held EXCEPT ![c] = HeldAfter(c, answer)]
    /\ UNCHANGED found

\* commit_envelope returns DoubleSpend; the transaction is dropped.
Reject(c) == Done(c) /\ ~Complete(c) /\ Rollback(c, "rejected")

\* The connection fails at any statement.
Disconnect(c) == pc[c] = "open" /\ Rollback(c, "error")

\* The deadlock detector of the database picks a victim.
BreakDeadlock(c) == Deadlocked(c) /\ Rollback(c, "error")

-----------------------------------------------------------------------------
(* Ledger::postings_with_state. *)

\* The account's postings are listed, then their states asked for, chunk by chunk.
ListPostings(c) ==
    /\ pc[c] = "idle"
    /\ calls < MaxCalls
    /\ \E w \in {v \in Calls : Reads(v)} : call' = [call EXCEPT ![c] = w]
    /\ \E ids \in {SetToSeq(postings)} :
          /\ ids # <<>>
          /\ rest' = [rest EXCEPT ![c] = ids]
    /\ pc' = [pc EXCEPT ![c] = "live"]
    /\ found' = [found EXCEPT ![c] = Empty]
    /\ reply' = [reply EXCEPT ![c] = "none"]
    /\ calls' = calls + 1
    /\ UNCHANGED <<tables, locks, rows, writes, held>>

\* get_posting_states, first query of a chunk: the rows of live_postings.
ReadLive(c) ==
    /\ pc[c] = "live"
    /\ pc' = [pc EXCEPT ![c] = "present"]
    /\ found' = [found EXCEPT ![c] =
                    Overlay([id \in ToSet(Chunk(rest[c])) \cap DOMAIN live |-> live[id]], @)]
    /\ UNCHANGED <<tables, locks, call, rest, rows, writes, reply, calls, held>>

\* (Mutant: an id without a live row is missing.)
Absent_Missing(id) == "Missing"

\* Not live: spent if it is in the table postings.
Absent(id) == IF id \in postings THEN GONE ELSE "Missing"

\* Second query of the chunk: the rows of postings tell spent from missing.
ReadPresent(c) ==
    /\ pc[c] = "present"
    /\ found' = [found EXCEPT ![c] = Overlay(@, [id \in ToSet(Chunk(rest[c])) |-> Absent(id)])]
    /\ rest' = [rest EXCEPT ![c] = AfterChunk(@)]
    /\ IF AfterChunk(rest[c]) = <<>>
         THEN /\ pc' = [pc EXCEPT ![c] = "idle"]
              /\ reply' = [reply EXCEPT ![c] = "states"]
              /\ call' = [call EXCEPT ![c] = NoCall]
         ELSE pc' = [pc EXCEPT ![c] = "live"] /\ UNCHANGED <<reply, call>>
    /\ UNCHANGED <<tables, locks, rows, writes, calls, held>>

-----------------------------------------------------------------------------
\* History: the states each posting had since a reader listed it, up to its answer.
Observe ==
    seen' = [c \in Caller |->
        IF pc'[c] \in {"live", "present"} \/ pc[c] \in {"live", "present"}
          THEN [id \in PostingId |->
                   (IF pc[c] = "idle" THEN {} ELSE seen[c][id])
                       \cup {StateIn(postings', live', id)}]
          ELSE IF reply'[c] = "states" THEN seen[c] ELSE [id \in PostingId |-> {}]]

Statement(c) ==
    \/ Match(c) \/ TakeRow(c) \/ InsertRow(c) \/ Commit(c) \/ Reject(c)
    \/ BreakDeadlock(c) \/ ReadLive(c) \/ ReadPresent(c)

Next ==
    /\ \E c \in Caller : Begin(c) \/ ListPostings(c) \/ Statement(c) \/ Disconnect(c)
    /\ Observe
    /\ UNCHANGED store

\* The database runs a statement that can run, and breaks deadlocks.
Spec == Init /\ [][Next]_vars
             /\ \A c \in Caller : WF_vars(Statement(c) /\ Observe /\ UNCHANGED store)

-----------------------------------------------------------------------------
(* Correctness. *)

\* Types; live postings are postings, and only open transactions hold rows.
TablesTypeOK ==
    /\ postings \subseteq PostingId
    /\ DOMAIN live \subseteq postings
    /\ \A id \in DOMAIN live : live[id] \in {NULL} \cup Caller
    /\ pc \in [Caller -> {"idle", "open", "live", "present"}]
    /\ locks \in [PostingId -> Caller \cup {NoCaller}]
    /\ \A c \in Caller : {id \in PostingId : locks[id] = c} = DOMAIN writes[c]
    /\ \A c \in Caller : pc[c] # "open" => writes[c] = Empty
    /\ calls \in 0..MaxCalls

\* reserve_postings is a single-winner claim: a caller whose count was full holds
\* every posting until it gives it back or spends it, whatever others try meanwhile.
WinnerHolds == \A c \in Caller : \A id \in held[c] : State(id) = c

\* A commit spends all its postings or none, also when reservations race it.
ClaimIsWhole ==
    [][\A c \in Caller :
          call[c].op = "spend" /\ live' # live /\ pc'[c] = "idle" =>
              \A id \in ToSet(call[c].ids) : State(id) = NULL /\ id \notin DOMAIN live']_vars

\* Each state a reader returns is one the posting had while it read.
StatesAreTrue ==
    \A c \in Caller : reply[c] = "states" =>
        \A id \in DOMAIN found[c] : found[c][id] \in seen[c][id]

\* Call by call, postings only move along their lifecycle: nobody takes a posting
\* reserved by another, and a spent one does not come back when its insertion is
\* repeated.
Lifecycle == INSTANCE PostingLifecycle
    WITH Reservation <- Caller, state <- [id \in PostingId |-> State(id)]
ImplementsLifecycle == Lifecycle!Spec

\* Every call returns, however many chunks callers claim in whatever order.
EveryCallReturns == \A c \in Caller : pc[c] # "idle" ~> pc[c] = "idle"
=============================================================================
