-------------------------------- MODULE Feed --------------------------------
(***************************************************************************)
(* SubscribeCheckpoints (src/src/serve.rs): a task polls the number of     *)
(* executed transactions and, when it differs from the last one, sends the *)
(* synthetic checkpoint down a bounded channel to the subscriber.          *)
(***************************************************************************)
EXTENDS Ledger

CONSTANTS
    Capacity,   \* messages the channel holds (16)
    Recent      \* transactions a synthetic checkpoint lists (20)

ASSUME FeedAssumption == Capacity \in Nat \ {0} /\ Recent \in Nat \ {0}

VARIABLES
    feed,       \* the task: pc, last_cursor and the message it builds
    channel,    \* messages sent and not yet received
    received,   \* the last message the subscriber received, none yet at first
    closed,     \* the subscriber hung up
    rolled      \* history: the overlay was rolled back

vars == <<ledger, feed, channel, received, closed, rolled>>

\* A message of which only the cursor is filled in.
Headed(cursor) == [cursor |-> cursor, transactions |-> <<>>, total |-> 0]

\* last_cursor = u64::MAX, no cursor.
Unset == -1

Init ==
    /\ LedgerInit
    /\ feed = [pc |-> "poll", last |-> Unset, message |-> Headed(Unset)]
    /\ channel = <<>>
    /\ received = Headed(Unset)
    /\ closed = FALSE
    /\ rolled = FALSE

-----------------------------------------------------------------------------

executed_count(s) == Len(s.executed_order)

\* The newest transactions, newest first.
recent_executed(s, limit) ==
    LET n == executed_count(s)
    IN  [i \in 1 .. (IF n < limit THEN n ELSE limit) |->
            s.executed_order[n + 1 - i]]

Cursor == fork_checkpoint + executed_count(state)

\* Mutation: the checkpoint built last time is sent again under the new cursor.
Poll_KeepsCheckpoint ==
    /\ feed.pc = "poll"
    /\ Cursor # feed.last
    /\ feed' = [pc |-> "total", last |-> Cursor,
                message |-> [feed.message EXCEPT !.cursor = Cursor]]
    /\ UNCHANGED <<ledger, channel, received, closed, rolled>>

\* Mutation: every turn sends.
Poll_Always ==
    /\ feed.pc = "poll"
    /\ feed' = [pc |-> "recent", last |-> Cursor,
                message |-> Headed(Cursor)]
    /\ UNCHANGED <<ledger, channel, received, closed, rolled>>

\* One turn of the loop: nothing to do, or a message to build.
Poll ==
    /\ feed.pc = "poll"
    /\ Cursor # feed.last
    /\ feed' = [pc |-> "recent", last |-> Cursor,
                message |-> Headed(Cursor)]
    /\ UNCHANGED <<ledger, channel, received, closed, rolled>>

\* synthetic_checkpoint: the recent transactions, then the total.
ReadRecent ==
    /\ feed.pc = "recent"
    /\ feed' = [feed EXCEPT
          !.message.transactions = recent_executed(state, Recent),
          !.pc = "total"]
    /\ UNCHANGED <<ledger, channel, received, closed, rolled>>

\* Mutation: last_cursor is what the count is once the message is complete.
ReadTotal_MovesCursor ==
    /\ feed.pc = "total"
    /\ feed' = [feed EXCEPT !.message.total = Cursor, !.last = Cursor,
                            !.pc = "send"]
    /\ UNCHANGED <<ledger, channel, received, closed, rolled>>

ReadTotal ==
    /\ feed.pc = "total"
    /\ feed' = [feed EXCEPT !.message.total = Cursor, !.pc = "send"]
    /\ UNCHANGED <<ledger, channel, received, closed, rolled>>

\* send().await waits for room; it fails, and the task ends, once the
\* subscriber is gone.
Send ==
    /\ feed.pc = "send"
    /\ \/ /\ closed
          /\ feed' = [feed EXCEPT !.pc = "ended"]
          /\ UNCHANGED channel
       \/ /\ ~closed /\ Len(channel) < Capacity
          /\ channel' = Append(channel, feed.message)
          /\ feed' = [feed EXCEPT !.pc = "poll"]
    /\ UNCHANGED <<ledger, received, closed, rolled>>

Receive ==
    /\ ~closed /\ channel # <<>>
    /\ received' = Head(channel)
    /\ channel' = Tail(channel)
    /\ UNCHANGED <<ledger, feed, closed, rolled>>

HangUp ==
    /\ ~closed
    /\ closed' = TRUE
    /\ channel' = <<>>
    /\ UNCHANGED <<ledger, feed, received, rolled>>

Interfere ==
    /\ Write
    /\ rolled' = (rolled \/ Rollback)
    /\ UNCHANGED <<feed, channel, received, closed>>

Task == Poll \/ ReadRecent \/ ReadTotal \/ Send

Next == Task \/ Receive \/ HangUp \/ Interfere

Spec == Init /\ [][Next]_vars

\* The task is woken again and again; the subscriber, while it is there, reads.
FairSpec == Spec /\ WF_vars(Task) /\ WF_vars(Receive)

-----------------------------------------------------------------------------

Last(messages) == messages[Len(messages)]

\* As long as nothing was rolled back, each message the subscriber receives
\* has a higher cursor than the one before: "a monotonic cursor"
\* (serve.rs:1172).
CursorGrows ==
    [][Receive /\ ~rolled => received'.cursor > received.cursor]_vars

\* A checkpoint is never behind the cursor it is sent with: it lists every
\* transaction the cursor counts, as far as it lists any, though it is read
\* after the cursor and piece by piece.
CheckpointNotBehindCursor ==
    \A i \in DOMAIN channel : ~rolled =>
        LET m == channel[i]
            counted == m.cursor - fork_checkpoint
        IN  /\ m.total >= m.cursor
            /\ Len(m.transactions) >= IF counted < Recent THEN counted ELSE Recent

ShowsTheFork == received.transactions = recent_executed(state, Recent)

\* In the end the subscriber has the transactions the fork has, or has hung
\* up - as long as nothing was rolled back.
FeedCatchesUp == <>[](closed \/ rolled \/ ShowsTheFork)

\* The same of a fork that was rolled back: "emit a response whenever the
\* executed-tx count grows" (serve.rs:1171).
FeedCatchesUpAfterRollback == <>[](closed \/ ShowsTheFork)
=============================================================================
