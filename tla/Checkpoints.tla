------------------------------ MODULE Checkpoints ------------------------------
(****************************************************************************)
(* Checkpoints of the evidence of a run: when one is due                     *)
(* (CheckpointThreshold), whether the evidence may still grow                *)
(* (check_evidence_write) and what a checkpoint is                           *)
(* (write_checkpoint, read_checkpoint).  Data arrives in units of one byte;  *)
(* arrival[b] remembers when byte b was received, which the code does not.   *)
(****************************************************************************)
EXTENDS Integers, Sequences, FiniteSets, FiniteSetsExt

CONSTANTS
    Interval,       \* checkpoint_interval_ms
    ByteLimit,      \* checkpoint_pending_byte_limit
    MaxRegular,     \* max_evidence_bytes - evidence_terminal_reserve_bytes
    Reserve,        \* evidence_terminal_reserve_bytes
    MaxTime,        \* bound on the clock
    MaxDamage       \* bound on artifacts changed behind the program's back

VARIABLES
    now, threshold, arrival, usage, artifacts, current, asked
vars == <<now, threshold, arrival, usage, artifacts, current, asked>>

None == -1
Bytes == 1..MaxRegular

Init ==
    /\ now = 0
    /\ threshold = [received |-> 0, durable |-> 0, pending |-> None, publication |-> None,
                    post |-> None, sequence |-> 0, observed |-> 0]
    /\ arrival = [b \in Bytes |-> None]
    /\ usage = [regular |-> 0, terminal |-> 0]
    /\ artifacts = << >>            \* artifacts[i] = [bytes, whole]: one per publication
    /\ current = [exists |-> FALSE, sequence |-> 0, upto |-> 0]
    /\ asked = [action |-> "none", at |-> None]

Tick ==
    /\ now < MaxTime /\ now' = now + 1
    /\ asked' = [action |-> "none", at |-> None]
    /\ UNCHANGED <<threshold, arrival, usage, artifacts, current>>

\* account and check_evidence_write: regular data never reaches into the terminal reserve.
Permitted(u, class, bytes) ==
    /\ class = "regular" => u.regular + bytes <= MaxRegular
    /\ class = "terminal" => u.terminal + bytes <= Reserve
    /\ u.regular + u.terminal + bytes <= MaxRegular + Reserve

\* record_received
Recorded(t, total, at) ==
    IF total <= t.received THEN [t EXCEPT !.observed = at]
    ELSE [t EXCEPT !.received = total, !.observed = at,
                   !.pending = IF t.received = t.durable THEN at ELSE @,
                   !.post = IF /\ t.publication # None /\ t.received <= t.publication
                               /\ total > t.publication /\ t.post = None
                            THEN at ELSE @]

\* Data is received if the quota permits it; a report of the same total dates nothing.
Receive(bytes) ==
    /\ Permitted(usage, "regular", bytes)
    /\ threshold.received + bytes \in Bytes
    /\ threshold' = Recorded(threshold, threshold.received + bytes, now)
    /\ arrival' = [b \in Bytes |-> IF b \in (threshold.received + 1)..(threshold.received + bytes)
                                   THEN now ELSE arrival[b]]
    /\ usage' = [usage EXCEPT !.regular = @ + bytes]
    /\ UNCHANGED <<now, artifacts, current, asked>>

Reached(since) == since # None /\ now - since >= Interval

\* request_publication
RequestPublication ==
    LET t == threshold
        waiting == t.received - t.publication
        pending == t.received - t.durable
        due == Reached(t.pending) \/ pending >= ByteLimit
    IN  /\ now >= t.observed
        /\ asked.at = None
        /\ \/ /\ t.publication # None
              /\ asked' = [at |-> now, action |-> IF Reached(t.post) \/ waiting >= ByteLimit
                                                  THEN "saturated" ELSE "none"]
              /\ threshold' = [t EXCEPT !.observed = now]
           \/ /\ t.publication = None /\ pending # 0 /\ t.pending # None /\ due
              /\ asked' = [at |-> now, action |-> "publish"]
              /\ threshold' = [t EXCEPT !.observed = now, !.publication = t.received, !.post = None]
           \/ /\ t.publication = None /\ ~(pending # 0 /\ t.pending # None /\ due)
              /\ asked' = [at |-> now, action |-> "none"]
              /\ threshold' = [t EXCEPT !.observed = now]
        /\ UNCHANGED <<now, arrival, usage, artifacts, current>>

\* verify_stored_artifact and validate_artifact read the artifact again and compare identities.
Verified(i) == artifacts[i].whole
Validated(artifact) == artifact.whole

\* read_checkpoint: every artifact the document in place names is verified.
CheckpointReads == \A i \in 1..current.upto : Verified(i)

\* write_checkpoint: the artifact of the publication is validated with the earlier ones, the
\* checkpoint in place must itself verify and be older, and the document is replaced.
WriteCheckpoint(sequence) ==
    LET known == \E i \in DOMAIN artifacts : artifacts[i].bytes = threshold.publication
        named == IF known THEN artifacts
                 ELSE Append(artifacts, [bytes |-> threshold.publication, whole |-> TRUE])
    IN  /\ threshold.publication # None
        /\ current.exists => artifacts[current.upto].bytes # threshold.publication
        /\ artifacts' = named
        /\ IF /\ \A i \in DOMAIN named : Validated(named[i])
              /\ current.exists => CheckpointReads /\ sequence > current.sequence
           THEN current' = [exists |-> TRUE, sequence |-> sequence, upto |-> Len(named)]
           ELSE UNCHANGED current
        /\ UNCHANGED <<now, threshold, arrival, usage, asked>>

\* Fault: everything received so far counts as durable.
ConfirmsReceived(t, sequence, at) ==
    [t EXCEPT !.durable = t.received, !.publication = None, !.sequence = sequence,
              !.observed = at, !.post = None, !.pending = None]

\* confirm_publication: what came after the request is pending since its own arrival.
Confirmed(t, sequence, at) ==
    [t EXCEPT !.durable = t.publication, !.publication = None, !.sequence = sequence,
              !.observed = at, !.post = None,
              !.pending = IF t.received = t.publication THEN None
                          ELSE IF t.post # None THEN t.post ELSE at]

ConfirmPublication ==
    /\ current.exists /\ threshold.publication # None /\ now >= threshold.observed
    /\ artifacts[current.upto].bytes = threshold.publication
    /\ current.sequence > threshold.sequence
    /\ threshold' = Confirmed(threshold, current.sequence, now)
    /\ asked' = [action |-> "none", at |-> None]
    /\ UNCHANGED <<now, arrival, usage, artifacts, current>>

\* An artifact a checkpoint names is changed by something else.
ArtifactChanges ==
    /\ Cardinality({i \in DOMAIN artifacts : ~artifacts[i].whole}) < MaxDamage
    /\ \E i \in DOMAIN artifacts : /\ artifacts[i].whole
                                   /\ artifacts' = [artifacts EXCEPT ![i].whole = FALSE]
    /\ UNCHANGED <<now, threshold, arrival, usage, current, asked>>

\* The diagnostic and the final checkpoint of a run that has to stop.
WriteTerminal(bytes) ==
    /\ Permitted(usage, "terminal", bytes)
    /\ usage' = [usage EXCEPT !.terminal = @ + bytes]
    /\ UNCHANGED <<now, threshold, arrival, artifacts, current, asked>>

Next == \/ Tick \/ RequestPublication \/ ConfirmPublication \/ ArtifactChanges
        \/ \E bytes \in 1..2 : Receive(bytes) \/ WriteTerminal(bytes)
        \/ \E sequence \in {current.sequence, current.sequence + 1} : WriteCheckpoint(sequence)
Spec == Init /\ [][Next]_vars

--------------------------------------------------------------------------------
\* The bytes a request of publication has to look at: neither durable nor being published.
Outstanding == {b \in Bytes : /\ b > threshold.durable /\ b <= threshold.received
                              /\ (asked.action # "publish" /\ threshold.publication # None)
                                    => b > threshold.publication}

(* No datum waits unseen: when the threshold is asked and some datum is      *)
(* neither durable nor on its way for the length of the interval, the        *)
(* answer is to publish or that publication is saturated, whatever happened  *)
(* while earlier publications were under way (checkpoint_threshold.cpp:      *)
(* record_received, request_publication, confirm_publication).               *)
NothingWaitsUnseen ==
    asked.at # None =>
        ((\E b \in Outstanding : arrival[b] # None /\ asked.at - arrival[b] >= Interval)
            => asked.action # "none")

(* What counts as durable is named by a checkpoint on disk, and the room of  *)
(* the terminal reserve is there whatever the regular data did               *)
(* (checkpoint_store.cpp: write_checkpoint; evidence_quota.cpp).             *)
DurableIsCheckpointed ==
    /\ threshold.durable > 0 => /\ current.exists
                                /\ \E i \in 1..current.upto : artifacts[i].bytes >= threshold.durable
    /\ Permitted(usage, "terminal", Reserve - usage.terminal)
================================================================================
