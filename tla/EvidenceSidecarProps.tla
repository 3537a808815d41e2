------------------------ MODULE EvidenceSidecarProps ------------------------
(* What the evidence export promises, over the variables of EvidenceSidecar. *)
EXTENDS EvidenceSidecar

\* The record the export built for id is the one line stored for it.
StoredFor(x, id) == store[id] = <<x.records[id]>>

\* A hand edit, or a write that was cut short, reached the shard of id.
Damaged(id) == ShardOf[id] \in edited \cup cut

\* The export reports id: its shard was locked or tampered, or it conflicts.
Reported(x, id) ==
    ShardOf[id] \in x.locked \cup x.tampered \/ id \in x.conflicts
-----------------------------------------------------------------------------
\* "OK only when every accepted row produced a verified record and nothing was
\* refused": after an export that reports OK each accepted row has its record
\* in the store, but for shards edited by hand.
OkMeansStored ==
    \A e \in Exporters : pc[e] = "done" /\ ex[e].status = "OK" =>
        \A id \in ex[e].rows : StoredFor(ex[e], id) \/ ShardOf[id] \in edited

\* Where every write is whole and nobody edits: OK means that every accepted
\* row has its record in the store; a degraded export stored each record it
\* built or reports it; and a shard that was locked, by a live export or by a
\* dead one, costs the other shards nothing.  An export whose write was cut
\* short so that lines of other exports are gone ends in the error.
ReportIsComplete ==
    \A e \in Exporters : pc[e] = "done" =>
        /\ ex[e].status = "OK" =>
               \A id \in ex[e].rows : StoredFor(ex[e], id) \/ Damaged(id)
        /\ ex[e].status = "PARTIAL_EVIDENCE_DEGRADED" =>
               \A id \in Stored(ex[e].records) :
                   StoredFor(ex[e], id) \/ Damaged(id) \/ Reported(ex[e], id)
        /\ ex[e].lost => ex[e].status = "ERROR_NO_EFFECT_ON_HISTORY"

\* The export's temporary file holds all that was to be written.
WrittenWhole(e) ==
    \A id \in InShard(ex[e].at) : ex[e].image[id] = Whole(ex[e])[id]

\* But for the hand edits, a shard changes only by the rename of an export, and
\* only by growing if the export's two writes were whole: the lines in it stay
\* as they are, unless edited while the export ran, and all of them verify.  (A
\* write of the old lines that was cut short is renamed as well, and only then
\* found out.)
ExportsOnlyAppend ==
    [][edited' = edited => \A s \in Shards :
           (\E id \in InShard(s) : store'[id] # store[id]) =>
               \E e \in Exporters :
                   /\ pc[e] = "rename" /\ pc'[e] = "check" /\ ex[e].at = s
                   /\ WrittenWhole(e) =>
                          /\ ~Tampered(store', s)
                          /\ s \notin edited => \A id \in InShard(s) :
                                 store[id] # <<>> => store'[id] = store[id]]_store

\* A stored record verifies against history and its artifact exactly as long
\* as the artifact has the bytes it was derived from.
TrustIsEarned ==
    \A id \in RowIds : ~Damaged(id) /\ store[id] # <<>> =>
        (FullTrust(id, store[id][1]) <=> capture[id] = store[id][1].artifact)
=============================================================================
