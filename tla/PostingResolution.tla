-------------------------- MODULE PostingResolution -------------------------
(***************************************************************************)
(* kuatia-core/posting_resolution.rs: how a Transfer (who pays whom)       *)
(* becomes an Envelope (which postings are spent, which are created).      *)
(* Pass 1 drafts the credits and nets the debits; pass 2 covers each debit *)
(* with the payer's positive postings, largest first, returning change, or *)
(* with a negative offset posting when the payer may overdraw.             *)
(***************************************************************************)
EXTENDS LedgerTypes

\* Ids are pairs of numbers, and numbers; amounts are integers.
ASSUME IdsAssumption ==
    IsFiniteSet(Account) /\ Account \subseteq Int \X Int /\ Asset \subseteq Int

\* A transfer whose movements name accounts and assets; amounts of any sign.
WellTyped(transfer) ==
    transfer.movements \in Seq([from : Account, to : Account, asset : Asset, amount : Int])

\* The order of (AccountId, AssetId): lexicographic.
DebitBefore(d, e) ==
    LET Key(x) == <<x.account[1], x.account[2], x.asset>>
        k == Key(d)
        l == Key(e)
    IN \E i \in 1..3 : k[i] < l[i] /\ \A j \in 1..(i - 1) : k[j] = l[j]

\* The net debit of the movements on one (account, asset).
NetDebit(movements, account, asset) ==
    MapThenSumSet(LAMBDA i : movements[i].amount,
                  {i \in DOMAIN movements : /\ movements[i].from = account
                                            /\ movements[i].asset = asset})

\* Pass 1: one posting per movement destination, one debit per (account,
\* asset) whose net is positive, in (account, asset) order.
draft_movements(transfer) ==
    LET ms == transfer.movements
        Nets == {[account |-> m.from, asset |-> m.asset,
                  amount |-> NetDebit(ms, m.from, m.asset)] : m \in ToSet(ms)}
    IN [creates |-> [i \in DOMAIN ms |->
                        NewPosting(ms[i].to, ms[i].asset, ms[i].amount)],
        debits  |-> SortedSeq({d \in Nets : d.amount > 0}, DebitBefore)]

\* The positive postings of a set of candidates (available: id -> posting).
\* Negative and zero postings are never spent by a debit.
Positive(available) == {id \in DOMAIN available : available[id].value > 0}

\* Where the store lists a posting: equal values keep its (hash) order, which is
\* fixed but arbitrary.
Place(available, id) ==
    LET listed == SetToSeq(Positive(available))
    IN CHOOSE i \in DOMAIN listed : listed[i] = id

\* (Mutant: smallest first.)
LargestFirst_Reversed(available) ==
    SortedSeq(Positive(available),
              LAMBDA p, q : \/ available[p].value < available[q].value
                            \/ /\ available[p].value = available[q].value
                               /\ Place(available, p) < Place(available, q))

\* Candidates, largest first; the sort is stable.
LargestFirst(available) ==
    SortedSeq(Positive(available),
              LAMBDA p, q : \/ available[p].value > available[q].value
                            \/ /\ available[p].value = available[q].value
                               /\ Place(available, p) < Place(available, q))

\* The shortest prefix of the candidates that covers the amount.
SelectPostings(available, amount) ==
    LET c == LargestFirst(available)
        Covered(k) == SumValues(available, {c[i] : i \in 1..k}) >= amount
        n == CHOOSE k \in 1..Len(c) : Covered(k) /\ \A j \in 1..(k - 1) : ~Covered(j)
    IN SubSeq(c, 1, n)

\* (Mutant: the account's flag is not read.)
CanCover_AnyAccount(debit, available, account) == TRUE

\* Whether a debit can be covered at all.
CanCover(debit, available, account) ==
    \/ SumValues(available, Positive(available)) >= debit.amount
    \/ ~forbids_overdraft(account)

\* (Mutant: no change is returned.)
Cover_NoChange(debit, available) ==
    [consumes |-> IF SumValues(available, Positive(available)) >= debit.amount
                    THEN SelectPostings(available, debit.amount)
                    ELSE SetToSeq(Positive(available)),
     creates  |-> <<>>]

\* What covering one debit spends, and the change (or the negative offset of
\* an overdraft) it leaves: the difference, when there is one.
Cover(debit, available) ==
    LET total  == SumValues(available, Positive(available))
        spends == IF total >= debit.amount
                    THEN SelectPostings(available, debit.amount)
                    ELSE SetToSeq(Positive(available))
        rest   == SumValues(available, ToSet(spends)) - debit.amount
    IN [consumes |-> spends,
        creates  |-> IF rest = 0 THEN <<>>
                     ELSE <<NewPosting(debit.account, debit.asset, rest)>>]

\* InsufficientFunds: some debit cannot be covered.
\* available[i] and accounts[i] are what was loaded for draft.debits[i].
InsufficientFunds(draft, available, accounts) ==
    \E i \in DOMAIN draft.debits :
        ~CanCover(draft.debits[i], available[i], accounts[i])

\* Pass 2: the envelope, no account pinned.
resolve_envelope(transfer, draft, available) ==
    LET covers == [i \in DOMAIN draft.debits |-> Cover(draft.debits[i], available[i])]
    IN Envelope(FlattenSeq([i \in DOMAIN covers |-> covers[i].consumes]),
                draft.creates \o FlattenSeq([i \in DOMAIN covers |-> covers[i].creates]),
                transfer.book, transfer.metadata)
=============================================================================
