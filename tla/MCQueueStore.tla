---------------------------- MODULE MCQueueStore ----------------------------
(***************************************************************************)
(* Small instances of QueueStore for TLC.                                  *)
(***************************************************************************)
EXTENDS QueueStore

CONSTANTS p1, p2, a, b

MCProcs == {p1, p2}
MCTracks == {a, b}

MCStart == <<a, b>>
MCPlaylists == {<<>>, <<b, a>>}

\* The two requests are interchangeable.
MCSymmetry == Permutations(MCProcs)

\* Every mutation that goes through the lock.
MCLocked == {"add", "addNext", "remove", "clear", "replace", "reorder",
             "updateTrackMetadata", "advance", "placeCurrent", "insertAtCurrent"}

\* A few of them, and the unlocked setIndex.
MCFaultKinds == {"addNext", "reorder", "advance", "setIndex"}

\* The queues of up to three items with ids up to 2.
MCShortQueues == UNION {[1..n -> [id : 1..2, track : {a, b}]] : n \in 0..3}

\* The filter of remove(itemId) is the filter of the sequences.
ASSUME WithoutFilters ==
  \A q \in MCShortQueues : \A id \in 1..2 :
    Without(q, id) = SelectSeq(q, LAMBDA it : it.id # id)
=============================================================================
