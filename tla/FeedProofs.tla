----------------------------- MODULE FeedProofs -----------------------------
(***************************************************************************)
(* The cursors a subscriber sees grow, and no checkpoint is behind its     *)
(* cursor, whatever is executed between the reads a message is built from: *)
(* proofs, for every capacity of the channel and length of the list.       *)
(***************************************************************************)
EXTENDS Feed, TLAPS

Orders == Seq(Nat)

Message == [cursor : Int, transactions : Orders, total : Int]

\* The order lists are sequences, and so is that of the snapshot.
OrdersOK ==
    /\ writes \in Nat
    /\ state.executed_order \in Orders
    /\ saved # None => saved.executed_order \in Orders

FeedOK ==
    /\ feed \in [pc : {"poll", "recent", "total", "send", "ended"},
                 last : Int, message : Message]
    /\ channel \in Seq(Message)
    /\ received \in Message
    /\ rolled \in BOOLEAN

Building == feed.pc \in {"recent", "total", "send"}

\* What CheckpointNotBehindCursor asks of one message.
Listed(m) ==
    Len(m.transactions) >= IF m.cursor - fork_checkpoint < Recent
                           THEN m.cursor - fork_checkpoint ELSE Recent
Complete(m) == m.total >= m.cursor /\ Listed(m)

\* The message being built has the last cursor, which the count has reached.
MessageOnCourse ==
    /\ feed.last =< Cursor
    /\ Building => feed.message.cursor = feed.last
    /\ feed.pc \in {"total", "send"} => Listed(feed.message)
    /\ feed.pc = "send" => feed.message.total >= feed.message.cursor

\* Cursors grow along the way to the subscriber: received, in the channel, last.
Ascending ==
    /\ \A i \in DOMAIN channel :
          /\ received.cursor < channel[i].cursor
          /\ channel[i].cursor =< feed.last
          /\ Building => channel[i].cursor < feed.last
          /\ \A j \in DOMAIN channel : i < j => channel[i].cursor < channel[j].cursor
    /\ received.cursor =< feed.last
    /\ Building => received.cursor < feed.last

Inv ==
    /\ OrdersOK
    /\ FeedOK
    /\ ~rolled =>
          /\ MessageOnCourse
          /\ Ascending
          /\ \A i \in DOMAIN channel : Complete(channel[i])

-----------------------------------------------------------------------------

\* A feed starts with the invariant.
LEMMA InitInv == Init => Inv
<1>. SUFFICES ASSUME Init PROVE Inv
  OBVIOUS
<1>1. OrdersOK
  BY DEF Init, LedgerInit, OrdersOK, Default, Orders
<1>2. Headed(Unset) \in Message /\ received = Headed(Unset) /\ received.cursor = -1
  BY DEF Init, Headed, Message, Orders, Unset
<1>3. FeedOK
  <2>0. channel = <<>> /\ rolled = FALSE
    BY DEF Init
  <2>1. channel \in Seq(Message) /\ received \in Message /\ rolled \in BOOLEAN
    <3>1. channel \in Seq(Message)
      BY <2>0
    <3>. QED BY <1>2, <2>0, <3>1
  <2>2. feed = [pc |-> "poll", last |-> -1, message |-> Headed(Unset)]
    BY DEF Init, Unset
  <2>. QED BY <1>2, <2>1, <2>2 DEF FeedOK
<1>4. Cursor \in Nat
  BY <1>1, CheckpointAssumption DEF OrdersOK, Orders, Cursor, executed_count
<1>5. MessageOnCourse
  BY <1>4 DEF Init, MessageOnCourse, Building, Unset
<1>6. DOMAIN channel = {}
  BY DEF Init
<1>7. Ascending
  BY <1>2, <1>6 DEF Init, Ascending, Building, Unset
<1>. QED BY <1>1, <1>3, <1>5, <1>6, <1>7 DEF Inv

\* A transaction appends to the order or leaves it.
LEMMA CommitStep ==
    ASSUME OrdersOK, NEW objects, NEW deleted, NEW events,
           CommitEffects(objects, deleted, events)
    PROVE  /\ state'.executed_order \in Orders
           /\ Len(state'.executed_order) >= Len(state.executed_order)
<1>. DEFINE e == TransactionEffects(objects, deleted, events)
            d == writes + 1
<1>1. PICK info \in Info : state' = commit(state, e, d, info)
  BY DEF CommitEffects
<1>2. d \in Nat /\ state.executed_order \in Seq(Nat)
  BY DEF OrdersOK, Orders
<1>. HIDE DEF e, d
<1>3. \/ state'.executed_order = state.executed_order
      \/ state'.executed_order = Append(state.executed_order, d)
  BY <1>1 DEF commit
<1>. DEFINE order == state.executed_order
<1>. HIDE DEF order
<1>4. /\ Append(order, d) \in Seq(Nat)
      /\ Len(Append(order, d)) >= Len(order)
      /\ Len(order) >= Len(order)
  BY <1>2 DEF order
<1>. QED BY <1>2, <1>3, <1>4 DEF Orders, order

\* A write keeps the order of execution sound and, unless it rolls back, only
\* extends it.
LEMMA WriteStep ==
    ASSUME OrdersOK, Write
    PROVE  /\ OrdersOK'
           /\ Rollback \/ Len(state'.executed_order) >= Len(state.executed_order)
<1>1. CASE Transact
  <2>1. /\ state'.executed_order \in Orders
        /\ Len(state'.executed_order) >= Len(state.executed_order)
    BY <1>1, CommitStep
       DEF Transact, Transfer, Deposit, Withdraw, Mint, Burn, Wrap
  <2>2. writes' \in Nat /\ saved' = saved
    BY <1>1 DEF Transact, Restrained, OrdersOK
  <2>. QED BY <2>1, <2>2 DEF OrdersOK
<1>2. CASE TakeSnapshot
  BY <1>2 DEF TakeSnapshot, OrdersOK, Orders
<1>3. CASE Rollback
  <2>1. Default.executed_order \in Orders
    BY DEF Default, Orders
  <2>. QED BY <1>3, <2>1 DEF Rollback, Restrained, OrdersOK
<1>. QED BY <1>1, <1>2, <1>3 DEF Write

\* The list of recent transactions is as long as it can be.
LEMMA RecentLength ==
    ASSUME OrdersOK
    PROVE  LET list == recent_executed(state, Recent)
               n == executed_count(state)
           IN  /\ list \in Orders
               /\ Len(list) = IF n < Recent THEN n ELSE Recent
<1>. DEFINE n == Len(state.executed_order)
            k == IF n < Recent THEN n ELSE Recent
            list == [i \in 1 .. k |-> state.executed_order[n + 1 - i]]
<1>1. n \in Nat /\ k \in Nat /\ k =< n
  BY FeedAssumption DEF OrdersOK, Orders
<1>2. \A i \in 1 .. k : n + 1 - i \in 1 .. n
  BY <1>1
<1>3. \A i \in 1 .. k : state.executed_order[n + 1 - i] \in Nat
  BY <1>2 DEF OrdersOK, Orders
<1>. HIDE DEF n, k
<1>4. list \in Seq(Nat) /\ Len(list) = k
  BY <1>1, <1>3
<1>. QED BY <1>4 DEF recent_executed, executed_count, Orders, n, k

\* The cursor counts the transactions from the fork point.
LEMMA CursorTyped ==
    ASSUME OrdersOK
    PROVE  Cursor \in Nat /\ Cursor = fork_checkpoint + executed_count(state)
           /\ executed_count(state) \in Nat
BY CheckpointAssumption DEF OrdersOK, Orders, Cursor, executed_count

\* Every step preserves the invariant.
LEMMA NextInv == Inv /\ [Next]_vars => Inv'
<1>. SUFFICES ASSUME Inv, [Next]_vars PROVE Inv'
  OBVIOUS
<1>. USE CheckpointAssumption, FeedAssumption
<1>0. /\ OrdersOK /\ FeedOK
      /\ Cursor \in Nat
      /\ feed.last \in Int /\ feed.message \in Message
      /\ feed.message.cursor \in Int
      /\ received.cursor \in Int
      /\ \A i \in DOMAIN channel : channel[i] \in Message /\ channel[i].cursor \in Int
  <2>1. OrdersOK /\ FeedOK /\ Cursor \in Nat
    BY CursorTyped DEF Inv
  <2>2. feed.last \in Int /\ feed.message \in Message /\ received \in Message
    BY <2>1 DEF FeedOK
  <2>3. \A i \in DOMAIN channel : channel[i] \in Message
    BY <2>1 DEF FeedOK
  <2>4. \A m \in Message : m.cursor \in Int
    BY DEF Message
  <2>. QED BY <2>1, <2>2, <2>3, <2>4
<1>1. CASE Poll
  <2>1. UNCHANGED <<state, saved, writes, channel, received, rolled>>
    BY <1>1 DEF Poll, ledger
  <2>2. /\ feed' = [pc |-> "recent", last |-> Cursor,
                    message |-> Headed(Cursor)]
        /\ feed.pc = "poll" /\ Cursor # feed.last
    BY <1>1 DEF Poll
  <2>3. Headed(Cursor) \in Message
    BY <1>0 DEF Headed, Message, Orders
  <2>4. /\ feed'.pc = "recent" /\ feed'.last = Cursor
        /\ feed'.message.cursor = Cursor
    BY <2>2 DEF Headed
  <2>5. OrdersOK' /\ FeedOK' /\ Cursor' = Cursor
    BY <1>0, <2>1, <2>2, <2>3
       DEF OrdersOK, FeedOK, Cursor, executed_count
  <2>6. ASSUME ~rolled'
        PROVE  MessageOnCourse' /\ Ascending'
               /\ \A i \in DOMAIN channel' : Complete(channel'[i])
    <3>1. /\ MessageOnCourse /\ Ascending
          /\ \A i \in DOMAIN channel : Complete(channel[i])
      BY <2>1, <2>6 DEF Inv
    <3>2. feed.last < Cursor
      BY <1>0, <2>2, <3>1 DEF MessageOnCourse
    <3>3. MessageOnCourse'
      BY <1>0, <2>4, <2>5 DEF MessageOnCourse, Building
    <3>4. Ascending'
      BY <1>0, <2>1, <2>4, <3>1, <3>2 DEF Ascending
    <3>. QED BY <2>1, <3>1, <3>3, <3>4
  <2>. QED BY <2>5, <2>6 DEF Inv
<1>2. CASE ReadRecent
  <2>. DEFINE list == recent_executed(state, Recent)
  <2>1. UNCHANGED <<state, saved, writes, channel, received, rolled>>
    BY <1>2 DEF ReadRecent, ledger
  <2>2. feed.pc = "recent"
        /\ feed' = [feed EXCEPT !.message.transactions = list, !.pc = "total"]
    BY <1>2 DEF ReadRecent
  <2>3. /\ list \in Orders
        /\ Len(list) = IF executed_count(state) < Recent
                       THEN executed_count(state) ELSE Recent
    BY <1>0, RecentLength
  <2>. HIDE DEF list
  <2>4. /\ feed'.pc = "total" /\ feed'.last = feed.last
        /\ feed'.message = [feed.message EXCEPT !.transactions = list]
    BY <1>0, <2>2 DEF FeedOK, Message
  <2>5. OrdersOK' /\ FeedOK' /\ Cursor' = Cursor
    BY <1>0, <2>1, <2>2, <2>3, <2>4
       DEF OrdersOK, FeedOK, Message, Cursor, executed_count
  <2>6. ASSUME ~rolled'
        PROVE  MessageOnCourse' /\ Ascending'
               /\ \A i \in DOMAIN channel' : Complete(channel'[i])
    <3>1. /\ MessageOnCourse /\ Ascending
          /\ \A i \in DOMAIN channel : Complete(channel[i])
      BY <2>1, <2>6 DEF Inv
    <3>2. /\ feed'.message.cursor = feed.message.cursor
          /\ feed'.message.transactions = list
      BY <1>0, <2>4 DEF Message
    <3>4. MessageOnCourse'
      BY <1>0, <2>2, <2>3, <2>4, <2>5, <3>1, <3>2, CursorTyped
         DEF MessageOnCourse, Building, Listed
    <3>5. Ascending'
      BY <1>0, <2>1, <2>2, <2>4, <3>1 DEF Ascending, Building
    <3>. QED BY <2>1, <3>1, <3>4, <3>5
  <2>. QED BY <2>5, <2>6 DEF Inv
<1>3. CASE ReadTotal
  <2>1. UNCHANGED <<state, saved, writes, channel, received, rolled>>
    BY <1>3 DEF ReadTotal, ledger
  <2>2. feed.pc = "total"
        /\ feed' = [feed EXCEPT !.message.total = Cursor, !.pc = "send"]
    BY <1>3 DEF ReadTotal
  <2>3. /\ feed'.pc = "send" /\ feed'.last = feed.last
        /\ feed'.message = [feed.message EXCEPT !.total = Cursor]
    BY <1>0, <2>2 DEF FeedOK, Message
  <2>4. /\ feed'.message.cursor = feed.message.cursor
        /\ feed'.message.transactions = feed.message.transactions
        /\ feed'.message.total = Cursor
    BY <1>0, <2>3 DEF Message
  <2>a. feed'.message \in Message
    BY <1>0, <2>3 DEF Message
  <2>b. feed' \in [pc : {"poll", "recent", "total", "send", "ended"},
                  last : Int, message : Message]
    BY <1>0, <2>2, <2>a DEF FeedOK
  <2>5. OrdersOK' /\ FeedOK' /\ Cursor' = Cursor
    BY <1>0, <2>1, <2>b DEF OrdersOK, FeedOK, Cursor, executed_count
  <2>6. ASSUME ~rolled'
        PROVE  MessageOnCourse' /\ Ascending'
               /\ \A i \in DOMAIN channel' : Complete(channel'[i])
    <3>1. /\ MessageOnCourse /\ Ascending
          /\ \A i \in DOMAIN channel : Complete(channel[i])
      BY <2>1, <2>6 DEF Inv
    <3>2. MessageOnCourse'
      BY <1>0, <2>2, <2>3, <2>4, <2>5, <3>1 DEF MessageOnCourse, Building, Listed
    <3>3. Ascending'
      BY <1>0, <2>1, <2>2, <2>3, <3>1 DEF Ascending, Building
    <3>. QED BY <2>1, <3>1, <3>2, <3>3
  <2>. QED BY <2>5, <2>6 DEF Inv
<1>4. CASE Send
  <2>1. UNCHANGED <<state, saved, writes, received, rolled>> /\ feed.pc = "send"
    BY <1>4 DEF Send, ledger
  <2>2. OrdersOK' /\ Cursor' = Cursor
    BY <1>0, <2>1 DEF OrdersOK, Cursor, executed_count
  <2>3. CASE feed' = [feed EXCEPT !.pc = "ended"] /\ channel' = channel
    <3>1. feed'.pc = "ended" /\ feed'.last = feed.last /\ FeedOK'
      BY <1>0, <2>1, <2>3 DEF FeedOK
    <3>. QED
      BY <1>0, <2>1, <2>2, <2>3, <3>1
         DEF Inv, MessageOnCourse, Ascending, Building
  <2>4. CASE /\ channel' = Append(channel, feed.message)
             /\ feed' = [feed EXCEPT !.pc = "poll"]
    <3>1. feed'.pc = "poll" /\ feed'.last = feed.last
      BY <1>0, <2>4 DEF FeedOK
    <3>2. FeedOK'
      BY <1>0, <2>1, <2>4 DEF FeedOK
    <3>3. /\ DOMAIN channel = 1 .. Len(channel) /\ Len(channel) \in Nat
          /\ DOMAIN channel' = 1 .. Len(channel) + 1
          /\ \A i \in 1 .. Len(channel) : channel'[i] = channel[i]
          /\ channel'[Len(channel) + 1] = feed.message
      BY <1>0, <2>4 DEF FeedOK
    <3>4. ASSUME ~rolled'
          PROVE  MessageOnCourse' /\ Ascending'
                 /\ \A i \in DOMAIN channel' : Complete(channel'[i])
      <4>1. /\ MessageOnCourse /\ Ascending
            /\ \A i \in DOMAIN channel : Complete(channel[i])
        BY <2>1, <3>4 DEF Inv
      <4>2. MessageOnCourse'
        BY <1>0, <2>2, <3>1, <4>1 DEF MessageOnCourse, Building
      <4>3. feed.message.cursor = feed.last /\ Complete(feed.message)
        BY <2>1, <4>1 DEF MessageOnCourse, Building, Complete
      <4>4. Ascending'
        BY <1>0, <2>1, <3>1, <3>3, <4>1, <4>3 DEF Ascending, Building
      <4>5. \A i \in DOMAIN channel' : Complete(channel'[i])
        BY <3>3, <4>1, <4>3
      <4>. QED BY <4>2, <4>4, <4>5
    <3>. QED BY <2>2, <3>2, <3>4 DEF Inv
  <2>. QED BY <1>4, <2>3, <2>4 DEF Send
<1>5. CASE Receive
  <2>1. /\ UNCHANGED <<state, saved, writes, feed, rolled>>
        /\ channel # <<>> /\ received' = Head(channel) /\ channel' = Tail(channel)
    BY <1>5 DEF Receive, ledger
  <2>2. OrdersOK' /\ Cursor' = Cursor
    BY <1>0, <2>1 DEF OrdersOK, Cursor, executed_count
  <2>3. /\ DOMAIN channel = 1 .. Len(channel) /\ Len(channel) \in Nat \ {0}
        /\ DOMAIN channel' = 1 .. Len(channel) - 1
        /\ \A i \in 1 .. Len(channel) - 1 : channel'[i] = channel[i + 1]
        /\ received' = channel[1]
    BY <1>0, <2>1 DEF FeedOK
  <2>4. FeedOK'
    BY <1>0, <2>1, <2>3 DEF FeedOK
  <2>5. ASSUME ~rolled'
        PROVE  MessageOnCourse' /\ Ascending'
               /\ \A i \in DOMAIN channel' : Complete(channel'[i])
    <3>1. /\ MessageOnCourse /\ Ascending
          /\ \A i \in DOMAIN channel : Complete(channel[i])
      BY <2>1, <2>5 DEF Inv
    <3>2. MessageOnCourse'
      BY <2>1, <2>2, <3>1 DEF MessageOnCourse, Building
    <3>3. \A i \in DOMAIN channel' : i + 1 \in DOMAIN channel /\ i + 1 > 1
      BY <2>3
    <3>4. Ascending'
      BY <1>0, <2>1, <2>3, <3>1, <3>3 DEF Ascending, Building
    <3>5. \A i \in DOMAIN channel' : Complete(channel'[i])
      BY <2>3, <3>1, <3>3
    <3>. QED BY <3>2, <3>4, <3>5
  <2>. QED BY <2>2, <2>4, <2>5 DEF Inv
<1>6. CASE HangUp
  <2>1. UNCHANGED <<state, saved, writes, feed, received, rolled>> /\ channel' = <<>>
    BY <1>6 DEF HangUp, ledger
  <2>2. DOMAIN channel' = {} /\ channel' \in Seq(Message)
    BY <2>1
  <2>. QED
    BY <1>0, <2>1, <2>2
       DEF Inv, OrdersOK, FeedOK, Cursor, executed_count, MessageOnCourse,
           Ascending, Building
<1>7. CASE Interfere
  <2>1. /\ Write /\ UNCHANGED <<feed, channel, received>>
        /\ rolled' = (rolled \/ Rollback)
    BY <1>7 DEF Interfere
  <2>2. /\ OrdersOK'
        /\ Rollback \/ Len(state'.executed_order) >= Len(state.executed_order)
    BY <1>0, <2>1, WriteStep
  <2>3. FeedOK'
    BY <1>0, <2>1 DEF FeedOK
  <2>4. ASSUME ~rolled'
        PROVE  MessageOnCourse' /\ Ascending'
               /\ \A i \in DOMAIN channel' : Complete(channel'[i])
    <3>1. ~rolled /\ ~Rollback
      BY <2>1, <2>4
    <3>2. /\ MessageOnCourse /\ Ascending
          /\ \A i \in DOMAIN channel : Complete(channel[i])
      BY <3>1 DEF Inv
    <3>3. Cursor' >= Cursor /\ Cursor' \in Nat
      BY <1>0, <2>2, <3>1 DEF Cursor, executed_count, OrdersOK, Orders
    <3>4. MessageOnCourse'
      BY <1>0, <2>1, <3>2, <3>3 DEF MessageOnCourse, Building
    <3>5. Ascending'
      BY <2>1, <3>2 DEF Ascending, Building
    <3>. QED BY <2>1, <3>2, <3>4, <3>5
  <2>. QED BY <2>2, <2>3, <2>4 DEF Inv
<1>8. CASE UNCHANGED vars
  BY <1>8 DEF Inv, vars, ledger, OrdersOK, FeedOK, Cursor, executed_count,
              MessageOnCourse, Ascending, Building
<1>. QED BY <1>1, <1>2, <1>3, <1>4, <1>5, <1>6, <1>7, <1>8 DEF Next, Task

\* The invariant holds of every behaviour.
LEMMA SpecInv == Spec => []Inv
BY InitInv, NextInv, PTL DEF Spec

-----------------------------------------------------------------------------

\* However many transactions are executed while a checkpoint is put together
\* and while it waits in the channel, it lists all its cursor counts, as far as
\* it lists any.
THEOREM CheckpointsReachTheirCursor == Spec => []CheckpointNotBehindCursor
<1>1. Inv => CheckpointNotBehindCursor
  BY DEF Inv, Complete, Listed, CheckpointNotBehindCursor
<1>. QED BY <1>1, SpecInv, PTL

\* A subscriber of a fork that is not rolled back receives cursors that grow.
THEOREM CursorsGrow == Spec => CursorGrows
<1>1. Inv /\ [Next]_vars => [Receive /\ ~rolled => received'.cursor > received.cursor]_vars
  <2>. SUFFICES ASSUME Inv, Receive, ~rolled
                PROVE  received'.cursor > received.cursor
    OBVIOUS
  <2>1. received' = channel[1] /\ 1 \in DOMAIN channel
    BY DEF Receive, Inv, FeedOK
  <2>2. received.cursor \in Int /\ channel[1].cursor \in Int
    <3>1. received \in Message /\ channel[1] \in Message
      BY <2>1 DEF Inv, FeedOK
    <3>. QED BY <3>1 DEF Message
  <2>. QED BY <2>1, <2>2 DEF Inv, Ascending
<1>. QED BY <1>1, SpecInv, PTL DEF Spec, CursorGrows
=============================================================================
