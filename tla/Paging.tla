------------------------------- MODULE Paging --------------------------------
(***************************************************************************)
(* The listing that follows a poll: poolQueryTask and                      *)
(* pollQueryExpandAction, and clusterInstances without a poll, ask for one *)
(* page after another until they have as many instances as the last answer *)
(* says there are.  Meanwhile the rows change.                             *)
(*                                                                         *)
(* A page of the table is read by two statements, the rows and then their  *)
(* number; a page of BridgX is one answer.                                 *)
(***************************************************************************)
EXTENDS Naturals, Sequences, SequencesExt

CONSTANTS
    PageSize,    \* instances on a page (50)
    MaxRows      \* bound of the model: instances there ever are

ASSUME PagingAssumption == PageSize \in Nat \ {0} /\ MaxRows \in Nat

VARIABLES
    source,   \* "nodes": the table instance; "bridgx": machines of a task or a cluster
    rows,     \* the instances with the status asked for, in their order
    loop,     \* "start", "list", "count", or how the listing ended
    page,     \* pageNum
    cnt,      \* instCnt
    batch,    \* the page between its two statements
    listed,   \* InstanceList
    moved     \* history: whether rows changed since the listing began

pagingVars == <<source, rows, loop, page, cnt, batch, listed, moved>>

InitPaging ==
    /\ source \in {"nodes", "bridgx"}
    /\ rows = <<>>
    /\ loop = "start"
    /\ page = 1
    /\ cnt = 0
    /\ batch = <<>>
    /\ listed = <<>>
    /\ moved = FALSE

Ended == {"listed", "failed", "panic"}

\* Mutants: pages are counted from 0; pages overlap.
OffsetFromZero(p) == p * PageSize

OffsetOverlaps(p) == IF p = 1 THEN 0 ELSE (p - 1) * PageSize - 1

Offset(p) == (p - 1) * PageSize

\* What a query for page p finds.
PageOf(p) == SubSeq(rows, Offset(p) + 1,
                    IF Len(rows) < Offset(p) + PageSize THEN Len(rows) ELSE Offset(p) + PageSize)

\* Mutants: the loop ends one instance late; it ends with the first full page.
EnoughLate(n, total) == n > total

EnoughOnPage(n, total) == n >= PageSize \/ n >= total

Enough(n, total) == n >= total

\* Pages behind the bound are empty alike.
NextPage == IF page <= MaxRows THEN page + 1 ELSE page

\* The body of the loop, after its query.
Take(found, total) ==
    /\ listed' = listed \o found
    /\ cnt' = cnt + Len(found)
    /\ IF page = 1 /\ found = <<>>
       THEN loop' = "failed" /\ UNCHANGED page       \* "no instances found"
       ELSE IF Enough(cnt', total)
       THEN loop' = "listed" /\ UNCHANGED page
       ELSE loop' = "list" /\ page' = NextPage

\* The listing finds some rows.
Start ==
    /\ loop = "start"
    /\ loop' = "list"
    /\ \E n \in 0..MaxRows : rows' = [i \in 1..n |-> i]
    /\ UNCHANGED <<source, page, cnt, batch, listed, moved>>

ListMachines ==
    /\ loop = "list" /\ source = "bridgx"
    /\ Take(PageOf(page), Len(rows))
    /\ UNCHANGED <<source, rows, batch, moved>>

\* db.Query: Find, and then Count.
FindRows ==
    /\ loop = "list" /\ source = "nodes"
    /\ batch' = PageOf(page)
    /\ loop' = "count"
    /\ UNCHANGED <<source, rows, page, cnt, listed, moved>>

CountRows ==
    /\ loop = "count"
    /\ Take(batch, Len(rows))
    /\ batch' = <<>>
    /\ UNCHANGED <<source, rows, moved>>

\* An error of BridgX is returned, the nil answer of a failed query dereferenced.
PageFails ==
    /\ loop \in {"list", "count"}
    /\ loop' = IF source = "nodes" THEN "panic" ELSE "failed"
    /\ UNCHANGED <<source, rows, page, cnt, batch, listed, moved>>

\* A machine is released or a row gets another status.
Leaves(i) ==
    /\ loop \in {"list", "count"}
    /\ i \in DOMAIN rows
    /\ rows' = RemoveAt(rows, i)
    /\ moved' = TRUE
    /\ UNCHANGED <<source, loop, page, cnt, batch, listed>>

\* A machine comes up, wherever BridgX lists it.  Every row of the task has had
\* the status since the poll, and nobody gives it to one again.
Enters(i) ==
    /\ loop = "list" /\ source = "bridgx"
    /\ Len(rows) < MaxRows
    /\ rows' = InsertAt(rows, i, MaxRows + 1)
    /\ moved' = TRUE
    /\ UNCHANGED <<source, loop, page, cnt, batch, listed>>

List == Start \/ ListMachines \/ FindRows \/ CountRows \/ PageFails

Move == \E i \in 1..(Len(rows) + 1) : Leaves(i) \/ Enters(i)

NextPaging == List \/ Move

SpecPaging == InitPaging /\ [][NextPaging]_pagingVars

-----------------------------------------------------------------------------
PagingTypeOK ==
    /\ source \in {"nodes", "bridgx"}
    /\ rows \in Seq(1..(MaxRows + 1)) /\ Len(rows) <= MaxRows
    /\ loop \in {"start", "list", "count"} \cup Ended
    /\ page \in Nat \ {0}
    /\ cnt \in Nat
    /\ batch \in Seq(1..(MaxRows + 1))
    /\ listed \in Seq(1..(MaxRows + 1))
    /\ moved \in BOOLEAN

(* A page is asked for only after full ones, whatever comes and goes: the    *)
(* count of instances so far is the offset of the page, so the loop neither  *)
(* repeats nor outruns the table, and ends with the first page that is short. *)
FullPages == loop = "list" => cnt = Offset(page)

(* If nothing moved, the list is what there is.                              *)
ListedIsComplete == (loop = "listed" /\ ~moved) => listed = rows

(* No node is listed twice, although rows leave between two pages: a rest of  *)
(* the rows that stay may be missed, but none is set up twice.               *)
NothingTwice == source = "nodes" => IsInjective(listed)

(* The listing ends, although the rows move under it.                        *)
ListingEnds == loop = "list" ~> loop \in Ended
=============================================================================
