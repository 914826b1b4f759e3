------------------------------ MODULE QueueOps ------------------------------
(***************************************************************************)
(* The pure functions that QueueService (queue.service.ts) applies to the  *)
(* queue and the cursor of an account while it holds the queue lock.       *)
(*                                                                         *)
(* A queue is a sequence of items; an item has a stable id (randomUUID), a *)
(* track, and a flag that says whether the track's metadata was patched.   *)
(* The cursor is the code's 0-based queueIndex, so the current item of a   *)
(* queue q is q[i + 1].                                                    *)
(*                                                                         *)
(* Each function answers with the whole outcome of the critical section:   *)
(* the queue and the cursor to write, the item handed back, and whether    *)
(* the call "ok"s, finds nothing ("null") or throws ("error").  Only an    *)
(* "ok" outcome is written.                                                *)
(***************************************************************************)
EXTENDS Integers, Sequences, FiniteSets, SequencesExt

CONSTANTS NoItem    \* the null handed back when there is no item

Lesser(a, b) == IF a < b THEN a ELSE b

\* The answers of a critical section.
Ok(q, i, item)   == [status |-> "ok", queue |-> q, index |-> i, item |-> item]
Null(q, i)       == [status |-> "null", queue |-> q, index |-> i, item |-> NoItem]
Throws(q, i)     == [status |-> "error", queue |-> q, index |-> i, item |-> NoItem]

NewItem(id, track) == [id |-> id, track |-> track, patched |-> FALSE]

IdsOf(q) == {q[k].id : k \in DOMAIN q}

\* 0-based position of the first item that plays the track, -1 if none.
FirstWithTrack(q, track) == SelectInSeq(q, LAMBDA it : it.track = track) - 1

\* queue[index] ?? null
ItemAt(q, i) == IF i + 1 \in DOMAIN q THEN q[i + 1] ELSE NoItem

-----------------------------------------------------------------------------
\* add(track): push at the end, cursor untouched.
Add(q, i, item) == Ok(Append(q, item), i, item)

\* add(track, "next"): splice right behind the cursor.
AddNext(q, i, item) == Ok(InsertAt(q, Lesser(i + 1, Len(q)) + 1, item), i, item)

\* The n-th member of a set of positions, in their order.
Nth(S, n) == CHOOSE k \in S : Cardinality({j \in S : j <= k}) = n

\* queue.filter: the items that do not carry the id, in their order.
Without(q, id) ==
  LET kept == {k \in DOMAIN q : q[k].id # id}
  IN  [n \in 1..Cardinality(kept) |-> q[Nth(kept, n)]]

\* remove(itemId): drop every item with the id; the cursor is not adjusted.
RemoveItem(q, i, id) == Ok(Without(q, id), i, NoItem)

\* clear(): empty queue and cursor 0.
ClearAll(q, i) == Ok(<<>>, 0, NoItem)

\* Mutant: the clamp forgets the empty list.
ReplaceUnclamped(q, i, items, at) == Ok(items, Lesser(at, Len(items) - 1), NoItem)

\* replace(tracks, index): new items, cursor clamped into the new queue.
Replace(q, i, items, at) ==
  LET top == IF items = <<>> THEN 0 ELSE Len(items) - 1
  IN  Ok(items, Lesser(at, top), NoItem)

\* updateTrackMetadata(trackId, patch): the first item that plays the track.
UpdateTrackMetadata(q, i, track) ==
  LET k == FirstWithTrack(q, track) + 1
  IN  Ok(IF k = 0 THEN q ELSE [q EXCEPT ![k].patched = TRUE], i, NoItem)

\* Mutant: the length of the order is not compared with the queue's.
ReorderAnyLength(q, i, order) ==
  LET byId(id) == q[SelectLastInSeq(q, LAMBDA it : it.id = id)]
  IN  IF ToSet(order) \subseteq IdsOf(q)
      THEN Ok([k \in DOMAIN order |-> byId(order[k])], i, NoItem)
      ELSE Throws(q, i)

\* reorder(order): throws unless order is as long as the queue and names
\* only ids of the queue; byId maps an id to the LAST item that carries it.
Reorder(q, i, order) ==
  LET byId(id) == q[SelectLastInSeq(q, LAMBDA it : it.id = id)]
  IN  IF Len(order) = Len(q) /\ ToSet(order) \subseteq IdsOf(q)
      THEN Ok([k \in DOMAIN order |-> byId(order[k])], i, NoItem)
      ELSE Throws(q, i)

\* Mutant: one position too far.
AdvancePastEnd(q, i) ==
  IF i + 1 > Len(q) THEN Null(q, i) ELSE Ok(q, i + 1, ItemAt(q, i + 1))

\* advance(): the next position, or null with nothing written at the end.
Advance(q, i) ==
  IF i + 1 >= Len(q) THEN Null(q, i) ELSE Ok(q, i + 1, ItemAt(q, i + 1))

\* Mutant: hands the item back without moving the cursor.
PlaceNowhere(q, i, track) ==
  LET k == FirstWithTrack(q, track)
  IN  Ok(q, i, IF k >= 0 THEN ItemAt(q, k) ELSE NoItem)

\* placeCurrent(trackId): cursor to the first item that plays the track.
PlaceCurrent(q, i, track) ==
  LET k == FirstWithTrack(q, track)
  IN  Ok(q, IF k >= 0 THEN k ELSE i, IF k >= 0 THEN ItemAt(q, k) ELSE NoItem)

\* insertAtCurrent(track): splice in front of the current item, so that the
\* unchanged cursor now points at the new one.
InsertAtCurrent(q, i, item) == Ok(InsertAt(q, Lesser(i, Len(q)) + 1, item), i, item)

-----------------------------------------------------------------------------
\* The function a call applies.  A call is a record with its kind and the
\* fields that kind needs.
Outcome(call, q, i) ==
  CASE call.kind = "add"                 -> Add(q, i, call.item)
    [] call.kind = "addNext"             -> AddNext(q, i, call.item)
    [] call.kind = "remove"              -> RemoveItem(q, i, call.id)
    [] call.kind = "clear"               -> ClearAll(q, i)
    [] call.kind = "replace"             -> Replace(q, i, call.items, call.at)
    [] call.kind = "updateTrackMetadata" -> UpdateTrackMetadata(q, i, call.track)
    [] call.kind = "reorder"             -> Reorder(q, i, call.order)
    [] call.kind = "advance"             -> Advance(q, i)
    [] call.kind = "placeCurrent"        -> PlaceCurrent(q, i, call.track)
    [] call.kind = "insertAtCurrent"     -> InsertAtCurrent(q, i, call.item)
    [] call.kind = "setIndex"            -> Ok(q, call.at, NoItem)
=============================================================================
