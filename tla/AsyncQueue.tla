----------------------------- MODULE AsyncQueue -----------------------------
(***************************************************************************)
(* asyncio.Queue (asyncio/queues.py) between tasks that put, tasks that    *)
(* get and a device whose interrupt handler calls put_nowait and drops the *)
(* item on QueueFull (kernel/drivers/input/keyboard.py).  Any task may be  *)
(* cancelled at any suspension.                                            *)
(***************************************************************************)
EXTENDS TaskCore

CONSTANTS Producers, Consumers,   \* the tasks that put and the tasks that get: disjoint parts of Tasks
          maxsize,                \* 0: no limit
          MaxItems,               \* bound: calls of put and put_nowait
          MaxCancels              \* bound: calls of Task.cancel

VARIABLES items,     \* queue._items
          getters,   \* queue._getters: the tasks whose futures are listed
          putters,   \* queue._putters
          pc,        \* where each task's coroutine stands
          sent,      \* every item put, in the order of the puts (history)
          received,  \* every item got, in the order of the gets (history)
          lostGet,   \* wakeups given to a getter that was then cancelled
          lostPut,   \* the same for putters
          calls,     \* calls of put and put_nowait so far
          cancels    \* calls of Task.cancel so far

queueVars == <<items, getters, putters, sent, received>>
vars == <<taskVars, queueVars, pc, lostGet, lostPut, calls, cancels>>

\* "run": about to use the queue; "idle": just did; "ext": awaiting something
\* else; "get" and "put": suspended inside that method; "done".
Places == {"run", "idle", "ext", "get", "put", "done"}

TypeOK ==
    /\ TaskTypeOK
    /\ items \in Seq(Nat)
    /\ getters \in Seq(Consumers)
    /\ putters \in Seq(Producers)
    /\ pc \in [Tasks -> Places]
    /\ sent \in Seq(Nat)
    /\ received \in Seq(Nat)
    /\ lostGet \in Nat
    /\ lostPut \in Nat
    /\ calls \in Nat
    /\ cancels \in Nat

\* Queue.__init__, and tasks that have not used the queue.
QueueInit ==
    /\ items = <<>>
    /\ getters = <<>>
    /\ putters = <<>>
    /\ pc = [t \in Tasks |-> "run"]
    /\ sent = <<>>
    /\ received = <<>>
    /\ lostGet = 0
    /\ lostPut = 0
    /\ calls = 0
    /\ cancels = 0

Init == ensure_future /\ QueueInit

\* full() mutated to compare with < instead of <=.
fullLate == 0 < maxsize /\ maxsize < Len(items)

full == 0 < maxsize /\ maxsize <= Len(items)

\* The first waiter of the list whose future is not done, and the list after
\* _wakeup_getter or _wakeup_putter popped it and everything in front of it.
Waiting(list) == {i \in DOMAIN list : fut[list[i]] = "PENDING"}
IsFirst(list, i) == i \in Waiting(list) /\ \A j \in Waiting(list) : i <= j
Behind(list, i) == SubSeq(list, i + 1, Len(list))

\* _wakeup_getter mutated to stop at the first future, done or not.
WakeupHeadOnly(list, list1) ==
    IF list # <<>> /\ fut[Head(list)] = "PENDING"
    THEN /\ list1 = Tail(list)
         /\ set_result(<<Head(list)>>)
    ELSE /\ list1 = IF list = <<>> THEN <<>> ELSE Tail(list)
         /\ UNCHANGED taskVars

Wakeup(list, list1) ==
    IF Waiting(list) = {}
    THEN /\ list1 = <<>>
         /\ UNCHANGED taskVars
    ELSE \E i \in DOMAIN list :
            /\ IsFirst(list, i)
            /\ list1 = Behind(list, i)
            /\ set_result(<<list[i]>>)

\* put_nowait behind its QueueFull guard; items are numbered in put order.
put_nowait ==
    /\ items' = Append(items, Len(sent) + 1)
    /\ sent' = Append(sent, Len(sent) + 1)
    /\ Wakeup(getters, getters')
    /\ UNCHANGED <<putters, received>>

get_nowait ==
    /\ items' = Tail(items)
    /\ received' = Append(received, Head(items))
    /\ Wakeup(putters, putters')
    /\ UNCHANGED <<getters, sent>>

\* put(): test, wait and test again, or insert.  The task runs on after it.
put(t) ==
    /\ running = t
    /\ ~thrown
    /\ t \in Producers
    /\ pc[t] \in {"run", "idle", "put"}
    /\ IF pc[t] = "put" THEN UNCHANGED calls
                        ELSE calls < MaxItems /\ calls' = calls + 1
    /\ IF full
       THEN /\ putters' = Append(putters, t)
            /\ await(t)
            /\ pc' = [pc EXCEPT ![t] = "put"]
            /\ UNCHANGED <<items, getters, sent, received>>
       ELSE /\ put_nowait
            /\ pc' = [pc EXCEPT ![t] = "idle"]
    /\ UNCHANGED <<lostGet, lostPut, cancels>>

\* A producer's coroutine returns.
leave(t) ==
    /\ running = t
    /\ ~thrown
    /\ t \in Producers
    /\ pc[t] \in {"run", "idle"}
    /\ finish(t)
    /\ pc' = [pc EXCEPT ![t] = "done"]
    /\ UNCHANGED <<queueVars, lostGet, lostPut, calls, cancels>>

get(t) ==
    /\ running = t
    /\ ~thrown
    /\ t \in Consumers
    /\ pc[t] \in {"run", "idle", "get"}
    /\ IF items = <<>>
       THEN /\ getters' = Append(getters, t)
            /\ await(t)
            /\ pc' = [pc EXCEPT ![t] = "get"]
            /\ UNCHANGED <<items, putters, sent, received>>
       ELSE /\ get_nowait
            /\ pc' = [pc EXCEPT ![t] = "idle"]
    /\ UNCHANGED <<lostGet, lostPut, calls, cancels>>

\* Between two uses of the queue a task awaits something else.
pause(t) ==
    /\ running = t
    /\ ~thrown
    /\ pc[t] = "idle"
    /\ await(t)
    /\ pc' = [pc EXCEPT ![t] = "ext"]
    /\ UNCHANGED <<queueVars, lostGet, lostPut, calls, cancels>>

resume(t) ==
    /\ running = t
    /\ ~thrown
    /\ pc[t] = "ext"
    /\ pc' = [pc EXCEPT ![t] = "run"]
    /\ UNCHANGED <<taskVars, queueVars, lostGet, lostPut, calls, cancels>>

\* CancelledError leaves the coroutine; put() and get() first remove their own
\* future from the list, if a wakeup has not popped it.
cancelled(t) ==
    /\ running = t
    /\ thrown
    /\ finish(t)
    /\ getters' = SelectSeq(getters, LAMBDA u : u # t)
    /\ putters' = SelectSeq(putters, LAMBDA u : u # t)
    /\ pc' = [pc EXCEPT ![t] = "done"]
    /\ UNCHANGED <<items, sent, received, lostGet, lostPut, calls, cancels>>

Step(t) ==
    /\ step(t)
    /\ UNCHANGED <<queueVars, pc, lostGet, lostPut, calls, cancels>>

\* The future a pause waits for completes.
complete(t) ==
    /\ running = NoTask
    /\ pc[t] = "ext"
    /\ fut[t] = "PENDING"
    /\ set_result(<<t>>)
    /\ UNCHANGED <<queueVars, pc, lostGet, lostPut, calls, cancels>>

Cancel(t) ==
    /\ cancels < MaxCancels
    /\ t # running
    /\ pc[t] # "done"
    /\ cancel(t)
    /\ cancels' = cancels + 1
    /\ LET lost == fut[t] = "FINISHED" /\ ~must_cancel[t]
       IN  /\ lostGet' = IF lost /\ pc[t] = "get" THEN lostGet + 1 ELSE lostGet
           /\ lostPut' = IF lost /\ pc[t] = "put" THEN lostPut + 1 ELSE lostPut
    /\ UNCHANGED <<queueVars, pc, calls>>

\* The interrupt handler runs between handles; on QueueFull it drops the item.
device_put ==
    /\ running = NoTask
    /\ calls < MaxItems
    /\ calls' = calls + 1
    /\ IF full THEN UNCHANGED <<taskVars, queueVars>> ELSE put_nowait
    /\ UNCHANGED <<pc, lostGet, lostPut, cancels>>

Use(t) == put(t) \/ get(t) \/ leave(t) \/ resume(t) \/ cancelled(t)

Next ==
    \/ device_put
    \/ \E t \in Tasks : \/ Step(t)
                        \/ Use(t)
                        \/ pause(t)
                        \/ complete(t)
                        \/ Cancel(t)

Spec == Init /\ [][Next]_vars

-----------------------------------------------------------------------------
\* put() re-tests full() after every wakeup, so concurrent putters and the
\* interrupt handler never push the queue past maxsize.
Capacity == maxsize > 0 => Len(items) <= maxsize

\* Items leave in the order in which they entered and none is lost or delivered
\* twice, whichever tasks wait, barge or are cancelled.
Fifo == sent = received \o items

\* queues.py: a bounded queue that keeps the order, with barging and cancelled tasks.
BoundedFifo == Capacity /\ Fifo

Blocked(place) == {t \in Tasks : pc[t] = place /\ fut[t] = "PENDING"}
Woken(place) ==
    {t \in Tasks : /\ pc[t] = place
                   /\ \/ fut[t] = "FINISHED" /\ ~must_cancel[t]
                      \/ running = t /\ ~thrown}

\* A getter stays blocked beside an item only while another getter is on its
\* way to take it, except for the wakeups given to getters that were cancelled
\* before they ran: _wakeup_getter popped their future and nobody passes the
\* wakeup on.  Likewise for putters and free slots.
NoStranding ==
    /\ Blocked("get") # {} =>
          Len(items) <= Cardinality(Woken("get")) + lostGet
    /\ Blocked("put") # {} =>
          maxsize - Len(items) <= Cardinality(Woken("put")) + lostPut

=============================================================================
