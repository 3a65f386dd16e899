-------------------------------- MODULE Listing --------------------------------
(***************************************************************************)
(* A client goes through the pages of a list while others insert, update   *)
(* and delete its rows.  Every store has a list of its own, and they       *)
(* differ: in the order of the rows, in what the cursor is, and in the     *)
(* statements that find out whether there is another page.  The rows here  *)
(* are those the list is made of: those of the client, for workflows and   *)
(* batches, of anybody for images.  The cursor comes back as it was given, *)
(* the limit is the same on every page, and nothing else of a row matters  *)
(* than its key, and its owner where the order goes by that.               *)
(***************************************************************************)
EXTENDS Naturals, FiniteSets, FiniteSetsExt, SequencesExt

CONSTANTS
    Keys,       \* the keys rows may have: ids, names; in the order of the store
    Codes,      \* key -> its place in the order of JavaScript's <
    OwnerOf,    \* key -> whose row it is
    Limit,      \* rows of a page
    MaxChanges, \* bound: rows inserted, updated or deleted
    Unset       \* no cursor; nothing read

ASSUME ListingAssumption ==
    /\ Keys \subseteq Nat /\ IsFiniteSet(Keys)
    /\ Codes \subseteq [Keys -> Nat]
    /\ OwnerOf \in [Keys -> Nat]
    /\ Limit \in Nat \ {0}
    /\ MaxChanges \in Nat
    /\ Unset \notin Nat /\ Unset \notin BOOLEAN /\ Unset \notin Seq(Keys)

(***************************************************************************)
(* The stores.  order: by key, by time of update, as inserted (the order   *)
(* of a Map), owner by owner (of a Map of Maps), or none.  from: the page  *)
(* starts at an offset, after a key, after the row of a key, after the     *)
(* code of a key, at the first or at the second row.  more: whether there  *)
(* are more rows is counted by a statement before, by one beside, or told  *)
(* from the rows themselves.                                               *)
(***************************************************************************)
PostgresWorkflows   == [order |-> "updated", from |-> "offset", more |-> "beside"]
PostgresRuntimes    == [order |-> "key", from |-> "offset", more |-> "beside"]
PostgresBatches     == [order |-> "key", from |-> "offset", more |-> "before"]
PostgresUsers       == [order |-> "key", from |-> "offset", more |-> "before"]
PostgresImages      == [order |-> "none", from |-> "offset", more |-> "before"]
PostgresCdpAccounts == [order |-> "key", from |-> "key", more |-> "rows"]
InMemoryWorkflows   == [order |-> "key", from |-> "row", more |-> "rows"]
InMemoryRuntimes    == [order |-> "key", from |-> "second", more |-> "rows"]
InMemoryBatches     == [order |-> "key", from |-> "first", more |-> "rows"]
InMemoryUsers       == [order |-> "inserted", from |-> "offset", more |-> "rows"]
InMemoryImages      == [order |-> "owners", from |-> "offset", more |-> "rows"]
InMemoryCdpAccounts == [order |-> "key", from |-> "code", more |-> "rows"]

\* What the routes list, and what only the program does.
ListWorkflows     == {PostgresWorkflows, InMemoryWorkflows}
ListBatches       == {PostgresBatches, InMemoryBatches}
ListImages        == {PostgresImages, InMemoryImages}
FetchAccountNames == {PostgresCdpAccounts, InMemoryCdpAccounts}
Internal          == {PostgresRuntimes, InMemoryRuntimes, PostgresUsers, InMemoryUsers}

Stores == ListWorkflows \cup ListBatches \cup ListImages \cup FetchAccountNames \cup Internal

VARIABLES
    store,      \* the store the client lists; never changes
    code,       \* how JavaScript orders the keys; never changes
    rows,       \* the rows, as the store keeps them
    cursor,     \* the cursor the client got last
    page,       \* the rows read for the next answer, or Unset
    more,       \* whether there are more of them, or Unset
    done,       \* the client has got an answer without cursor
    listed,     \* key -> times the client saw it: 2 stands for more
    stayed,     \* history: the rows that were there from the start
    happened,   \* history: what may have shifted the pages
    changes     \* changes so far

table    == <<store, code>>
answer   == <<cursor, page, more, done, listed>>
listVars == <<table, rows, answer, stayed, happened, changes>>

\* The rows as a list by key finds them, which stands for a list without order too, or
\* those of an owner together.
Ordered(seq) ==
    /\ store.order \in {"key", "none"} => \A i, j \in DOMAIN seq : i < j => seq[i] < seq[j]
    /\ store.order = "owners" =>
          \A i, j, m \in DOMAIN seq :
             i < j /\ j < m /\ OwnerOf[seq[i]] = OwnerOf[seq[m]]
                 => OwnerOf[seq[j]] = OwnerOf[seq[m]]

\* The places of the rows of the owner of k.
Fellows(k) == {i \in DOMAIN rows : OwnerOf[rows[i]] = OwnerOf[k]}

\* Where a new row goes: behind the others of its owner, and a new owner behind the others.
Place(k) ==
    1 + IF store.order \in {"key", "none"} THEN Cardinality({i \in DOMAIN rows : rows[i] < k})
        ELSE IF store.order = "owners" /\ Fellows(k) # {} THEN Max(Fellows(k))
        ELSE Len(rows)

ListInit ==
    /\ store \in Stores /\ code \in Codes
    /\ rows \in {seq \in UNION {SetToSeqs(S) : S \in SUBSET Keys} : Ordered(seq)}
    /\ cursor = Unset /\ page = Unset /\ more = Unset /\ done = FALSE
    /\ listed = [k \in Keys |-> 0]
    /\ stayed = ToSet(rows)
    /\ happened = {}
    /\ changes = 0
-------------------------------------------------------------------------------
\* The orders in which a statement may find the rows.
Found == IF store.order = "none" THEN SetToSeqs(ToSet(rows)) ELSE {rows}

\* How many rows come before the page.  A row that went has no place in the list, and the
\* search for it ends at the start.  The row with a greater code is the first in the order
\* of the list.
Skipped(seq) ==
    IF cursor = Unset \/ seq = <<>> THEN 0
    ELSE CASE store.from = "offset" -> cursor
           [] store.from = "key"    -> Cardinality({i \in DOMAIN seq : seq[i] <= cursor})
           [] store.from = "row"    ->
                  Cardinality({i \in DOMAIN seq : seq[i] <= cursor /\ Contains(seq, cursor)})
           [] store.from = "code"   ->
                  IF \A i \in DOMAIN seq : code[seq[i]] <= code[cursor] THEN Len(seq)
                  ELSE SelectInSeq(seq, LAMBDA k : code[k] > code[cursor]) - 1
           [] store.from = "first"  -> 0
           [] store.from = "second" -> 1

\* applyListOptions, and what the other stores do in its place.
Page(seq) == SubSeq(seq, Skipped(seq) + 1, Min({Skipped(seq) + Limit, Len(seq)}))

\* Mutant of HasMore: one row less than there are.
HasMoreLess(seq) == Skipped(seq) + Limit + 1 < Len(seq)

\* Whether there are rows behind the page: the keyed list reads one more to know.
HasMore(seq) == Skipped(seq) + Limit < Len(seq)

\* The count of a Postgres store, before or beside the rows.
Count ==
    /\ ~done /\ more = Unset
    /\ store.more # "rows"
    /\ more' = ((IF cursor = Unset THEN 0 ELSE cursor) + Limit < Len(rows))
    /\ UNCHANGED <<table, rows, cursor, page, done, listed, stayed, happened, changes>>

\* The rows of the page.
Read ==
    /\ ~done /\ page = Unset
    /\ store.more = "before" => more # Unset
    /\ \E seq \in Found :
          /\ page' = Page(seq)
          /\ more' = IF store.more = "rows" THEN HasMore(seq) ELSE more
    /\ happened' = IF store.from = "row" /\ cursor # Unset /\ ~Contains(rows, cursor)
                   THEN happened \cup {"restarted"} ELSE happened
    /\ UNCHANGED <<table, rows, cursor, done, listed, stayed, changes>>

\* Mutant of NextCursor: the cursor that came is the one that goes.
SameCursor == IF cursor = Unset THEN Limit ELSE cursor

\* nextCursor: where the next page starts, or the last row of this one.  Two stores send an
\* offset and take no notice of what comes back.
NextCursor ==
    CASE store.from \in {"key", "row", "code"} -> Last(page)
      [] store.from = "offset" -> IF cursor = Unset THEN Limit ELSE cursor + Limit
      [] store.from \in {"first", "second"} -> Limit

\* A list without rows: batches end here, and account names are answered 404.
Nothing == page = <<>> /\ store \in ListBatches \cup FetchAccountNames

\* The answer of a route.
Answer ==
    /\ page # Unset /\ more # Unset
    /\ listed' = [k \in Keys |-> IF Contains(page, k) THEN IF listed[k] = 0 THEN 1 ELSE 2
                                 ELSE listed[k]]
    /\ IF more /\ ~Nothing
       THEN cursor' = NextCursor /\ UNCHANGED done
       ELSE done' = TRUE /\ UNCHANGED cursor
    /\ page' = Unset /\ more' = Unset
    /\ UNCHANGED <<table, rows, stayed, happened, changes>>
-------------------------------------------------------------------------------
Change == ~done /\ changes < MaxChanges /\ changes' = changes + 1

\* Another client, or the worker, inserts a row ...
Insert(k) ==
    /\ Change
    /\ ~Contains(rows, k)
    /\ rows' = InsertAt(rows, Place(k), k)
    /\ happened' = happened \cup {"inserted"}
                       \cup (IF more # Unset /\ page = Unset THEN {"uncounted"} ELSE {})
    /\ UNCHANGED <<table, answer, stayed>>

\* ... updates one, which makes it the last of those ordered by time, ...
Update(i) ==
    /\ Change
    /\ store.order = "updated"
    /\ rows' = Append(RemoveAt(rows, i), rows[i])
    /\ happened' = happened \cup {"updated"}
    /\ UNCHANGED <<table, answer, stayed>>

\* ... or deletes one.
Delete(i) ==
    /\ Change
    /\ rows' = RemoveAt(rows, i)
    /\ stayed' = stayed \ {rows[i]}
    /\ happened' = happened \cup {"deleted"}
    /\ UNCHANGED <<table, answer>>
-------------------------------------------------------------------------------
Client == Count \/ Read \/ Answer

Others == (\E k \in Keys : Insert(k)) \/ \E i \in DOMAIN rows : Update(i) \/ Delete(i)

ListNext == Client \/ Others

ListSpec == ListInit /\ [][ListNext]_listVars

\* The client asks on, and is answered.
FairListSpec == ListSpec /\ WF_listVars(Client)
-------------------------------------------------------------------------------
\* The two orders of names differ: "a" comes before "B", and its code after.
Mixed == \E j, k \in Keys : j < k /\ code[j] >= code[k]

\* What may make a client miss a row: deletions and updates shift an offset; a count taken
\* before an insertion ends the list early.
MayMiss ==
    \/ store.from = "offset" /\ happened \cap {"deleted", "updated", "uncounted"} # {}
    \/ store.order = "none" /\ cursor # Unset
    \/ store.from = "code" /\ Mixed
    \/ store.from = "second" /\ "deleted" \in happened

\* What may make it see a row twice: insertions and updates before an offset, and the
\* deletion of the row that was the cursor.
MayRepeat ==
    \/ store.from = "offset" /\ store.order \in {"key", "owners"} /\ "inserted" \in happened
    \/ store.order = "updated" /\ "updated" \in happened
    \/ store.order = "none" /\ cursor # Unset
    \/ store.from = "row" /\ "restarted" \in happened
    \/ store.from = "code" /\ Mixed
    \/ store.from \in {"first", "second"} /\ cursor # Unset

(***************************************************************************)
(* A row that is there all the time is seen, and seen once, by a client    *)
(* that goes through the pages to the end, whatever others change          *)
(* meanwhile, but for what MayMiss and MayRepeat name: a list by offset    *)
(* pays for deletions, one by cursor row for the deletion of that row, and *)
(* the list by key for nothing.                                            *)
(***************************************************************************)
SeenOnce ==
    \A k \in stayed : /\ done => listed[k] > 0 \/ MayMiss
                      /\ listed[k] < 2 \/ MayRepeat

\* The in-memory stores of batches and of runtimes answer the same page to every cursor;
\* that of account names may answer a page with its cursor in it.
Stuck ==
    /\ Len(rows) > Limit
    /\ \/ store.from \in {"first", "second"}
       \/ store.from = "code" /\ Mixed

(***************************************************************************)
(* The pages come to an end when the changes do, however the rows were     *)
(* shifted, except in the in-memory stores that Stuck names.               *)
(***************************************************************************)
Ends == <>[](done \/ Stuck)
===============================================================================
