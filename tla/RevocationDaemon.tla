-------------------------- MODULE RevocationDaemon --------------------------
(***************************************************************************)
(* The revocation sync daemon (src/dzta-revocation-daemon/src/main.rs): a  *)
(* loop that subscribes to the chaincode events from block 0, and for each *)
(* event pushes the credential id to the Wasm admin endpoint, with at most *)
(* MaxRetries attempts.  The events are read, never written, here.         *)
(***************************************************************************)
EXTENDS Naturals, Sequences

CONSTANTS MaxRetries,   \* retries = 5
          MaxBackoff    \* 30 (seconds)

VARIABLES events,       \* the ledger's committed events
          stream,       \* "connecting" or "open"
          cursor,       \* events taken from the stream since it was opened
          batchEnd,     \* last event of the response being processed
          push,         \* sync_to_envoy_memory: "idle", "ready" to post, "posted"
          retries,      \* attempts left for the event being pushed
          backoff,      \* retry_backoff of run(), in seconds
          cache         \* revocation_cache

TypeOK ==
    /\ stream \in {"connecting", "open"}
    /\ cursor \in Nat
    /\ batchEnd \in Nat
    /\ push \in {"idle", "ready", "posted"}
    /\ retries \in 0..MaxRetries
    /\ backoff \in 1..MaxBackoff

Init ==
    /\ stream = "connecting"
    /\ cursor = 0
    /\ batchEnd = 0
    /\ push = "idle"
    /\ retries = 0
    /\ backoff = 1
    /\ cache = {}
-----------------------------------------------------------------------------
\* min(retry_backoff * 2, 30 s)
Doubled(b) == IF 2 * b > MaxBackoff THEN MaxBackoff ELSE 2 * b

\* Faulty variant of Connect: resume after the last event seen.
ConnectAndResume ==
    /\ stream = "connecting"
    /\ stream' = "open"
    /\ UNCHANGED <<cursor, batchEnd, push, retries, backoff, cache>>

\* The subscription is accepted; it starts at block 0.
Connect ==
    /\ stream = "connecting"
    /\ stream' = "open"
    /\ cursor' = 0
    /\ batchEnd' = 0
    /\ UNCHANGED <<push, retries, backoff, cache>>

\* stream_chaincode_events fails before the stream is open: sleep, double.
ConnectFails ==
    /\ stream = "connecting"
    /\ backoff' = Doubled(backoff)
    /\ UNCHANGED <<stream, cursor, batchEnd, push, retries, cache>>

\* The stream is polled for a response: all events before it are done with.
Polling == stream = "open" /\ push = "idle" /\ cursor = batchEnd

\* message() yields the events of the next block that has any: a run of
\* consecutive events.
Receive ==
    /\ Polling
    /\ batchEnd' \in (cursor + 1)..Len(events)
    /\ UNCHANGED <<stream, cursor, push, retries, backoff, cache>>

\* message() yields None: back to the start of run()'s loop, no delay.
StreamEnds ==
    /\ Polling
    /\ stream' = "connecting"
    /\ backoff' = 1
    /\ UNCHANGED <<cursor, batchEnd, push, retries, cache>>

\* message() fails: sleep for backoff, double it, connect again.
StreamFails ==
    /\ Polling
    /\ stream' = "connecting"
    /\ backoff' = Doubled(backoff)
    /\ UNCHANGED <<cursor, batchEnd, push, retries, cache>>

\* The next event of the response: cached, and its push begins.
TakeEvent ==
    /\ stream = "open"
    /\ push = "idle"
    /\ cursor < batchEnd
    /\ cursor' = cursor + 1
    /\ cache' = cache \cup {events[cursor + 1]}
    /\ push' = "ready"
    /\ retries' = MaxRetries
    /\ UNCHANGED <<stream, batchEnd, backoff>>

\* The credential being pushed.
Target == events[cursor]

\* POST /_wasm_admin/revoke?id=<Target>, with a 5 s timeout.
Post ==
    /\ push = "ready"
    /\ push' = "posted"
    /\ UNCHANGED <<stream, cursor, batchEnd, retries, backoff, cache>>

\* A 2xx answer ends sync_to_envoy_memory.
PostAcked ==
    /\ push = "posted"
    /\ push' = "idle"
    /\ UNCHANGED <<stream, cursor, batchEnd, retries, backoff, cache>>

\* Faulty variant of AttemptsOver: the loop runs one attempt short.
AttemptsOverEarly(left) == left <= 1

\* while retries > 0
AttemptsOver(left) == left = 0

\* Any other answer, an error or the timeout: sleep, one attempt less; the
\* last one is the "Permanent failure", after which the event is dropped.
PostFails ==
    /\ push = "posted"
    /\ retries' = retries - 1
    /\ push' = IF AttemptsOver(retries') THEN "idle" ELSE "ready"
    /\ UNCHANGED <<stream, cursor, batchEnd, backoff, cache>>

\* External: the process is restarted; all its state is in memory.
Restart ==
    /\ stream' = "connecting"
    /\ cursor' = 0
    /\ batchEnd' = 0
    /\ push' = "idle"
    /\ retries' = 0
    /\ backoff' = 1
    /\ cache' = {}
-----------------------------------------------------------------------------
\* The events whose push has ended, one way or the other, in this session.
Settled == IF push = "idle" THEN 1..cursor ELSE 1..(cursor - 1)
=============================================================================
