----------------------------- MODULE AuditChain -----------------------------
(***************************************************************************)
(* The hash chain of audit.cpp: segments of one record each, linked by the *)
(* hash of their predecessor.  A digest is what was hashed, so that equal  *)
(* digests mean equal input; the zero digest starts a chain.               *)
(***************************************************************************)
EXTENDS Naturals, Sequences

ZeroDigest == <<>>

\* hash_segment over hash_record.
SegmentHash(previous, record) == <<previous, record>>

NextSequence(chain) == IF chain = <<>> THEN 1 ELSE chain[Len(chain)].sequence + 1

LastHash(chain) == IF chain = <<>> THEN ZeroDigest ELSE chain[Len(chain)].hash

\* AuditChain::append of a record that has the next sequence.
Extend(chain, record) ==
    Append(chain, [sequence |-> record.sequence, previous |-> LastHash(chain),
                   record |-> record, hash |-> SegmentHash(LastHash(chain), record)])

\* Fault: the links are not followed.
Verify_RecordsOnly(chain) ==
    \A i \in 1 .. Len(chain) :
        chain[i].hash = SegmentHash(chain[i].previous, chain[i].record)

\* AuditChain::verify, the last step of deserialize.
Verify(chain) ==
    \A i \in 1 .. Len(chain) :
        /\ chain[i].sequence = i
        /\ chain[i].previous = IF i = 1 THEN ZeroDigest ELSE chain[i - 1].hash
        /\ chain[i].hash = SegmentHash(chain[i].previous, chain[i].record)

\* AuditChain::checkpoint of a chain that is not empty; its own digest covers both fields.
CheckpointOf(chain) ==
    [sequence |-> chain[Len(chain)].sequence, root |-> chain[Len(chain)].hash]

VerifyCheckpoint(chain, checkpoint) ==
    chain # <<>> /\ checkpoint = CheckpointOf(chain)

=============================================================================
