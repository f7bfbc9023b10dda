--------------------------------- MODULE Arp ---------------------------------
(***************************************************************************)
(* The resolution of the next hop's address for outgoing TCP segments:     *)
(* ARPTable (kernel/net/arp.py) as send_tcp_segment and                    *)
(* send_tcp_segment_nowait (kernel/net/stack.py) use it.  All segments go  *)
(* to the same next hop, the gateway, whose address is not yet known.      *)
(* Each Sender is a task that sends one segment; _pending has room for the *)
(* future of one of them.                                                  *)
(***************************************************************************)
EXTENDS Naturals, FiniteSets, TLAPS

CONSTANTS Senders,     \* tasks that await send_tcp_segment
          MaxPolls     \* bound: calls of send_tcp_segment_nowait

NoOne == "none"

VARIABLES table,       \* whether the gateway's address is known
          pending,     \* the task whose future is _pending[ip], or NoOne
          fut,         \* the tasks whose future has its result
          pc,          \* where each task is; "sent" and "dropped" are its ends
          replies,     \* ARP replies under way
          polls

vars == <<table, pending, fut, pc, replies, polls>>

Init ==
    /\ table = FALSE
    /\ pending = NoOne
    /\ fut = {}
    /\ pc = [t \in Senders |-> "start"]
    /\ replies = 0
    /\ polls = 0

\* send_tcp_segment: lookup; unknown, and the request goes to the card.
send_tcp_segment(t) ==
    /\ pc[t] = "start"
    /\ pc' = [pc EXCEPT ![t] = IF table THEN "sent" ELSE "request"]
    /\ UNCHANGED <<table, pending, fut, replies, polls>>

\* `await _nic.send(arp_req)' is over; the gateway may answer or not.
requested(t) ==
    /\ pc[t] = "request"
    /\ pc' = [pc EXCEPT ![t] = "resolve"]
    /\ replies' \in {replies, replies + 1}
    /\ UNCHANGED <<table, pending, fut, polls>>

\* ARPTable.resolve up to its await: the future replaces the one of another task.
resolve(t) ==
    /\ pc[t] = "resolve"
    /\ IF table THEN /\ pc' = [pc EXCEPT ![t] = "sent"]
                     /\ UNCHANGED pending
       ELSE /\ pc' = [pc EXCEPT ![t] = "wait"]
            /\ pending' = t
    /\ UNCHANGED <<table, fut, replies, polls>>

\* resolve goes on with the future's result.
resolved(t) ==
    /\ pc[t] = "wait" /\ t \in fut
    /\ pc' = [pc EXCEPT ![t] = "sent"]
    /\ UNCHANGED <<table, pending, fut, replies, polls>>

\* wait_for's 3 seconds are over before the task goes on: the future is cancelled, unless it
\* has its result, which is not looked at any more.
timeout(t) ==
    /\ pc[t] = "wait"
    /\ pc' = [pc EXCEPT ![t] = "expired"]
    /\ UNCHANGED <<table, pending, fut, replies, polls>>

\* The end of resolve mutated to leave the future in _pending.
unresolved_kept(t) ==
    /\ pc[t] = "expired"
    /\ pc' = [pc EXCEPT ![t] = "dropped"]
    /\ UNCHANGED <<table, pending, fut, replies, polls>>

\* resolve goes on with TimeoutError: the entry goes, whosever it is, and the segment is
\* dropped without another look at the table.
unresolved(t) ==
    /\ pc[t] = "expired"
    /\ pending' = NoOne
    /\ pc' = [pc EXCEPT ![t] = "dropped"]
    /\ UNCHANGED <<table, fut, replies, polls>>

\* handle_frame and learn; a future that was cancelled is done.
learn ==
    /\ replies > 0
    /\ replies' = replies - 1
    /\ table' = TRUE
    /\ pending' = NoOne
    /\ fut' = IF pending # NoOne /\ pc[pending] = "wait" THEN fut \cup {pending} ELSE fut
    /\ UNCHANGED <<pc, polls>>

\* send_tcp_segment_nowait with the address unknown: a request, and False.
send_tcp_segment_nowait ==
    /\ polls < MaxPolls /\ ~table
    /\ polls' = polls + 1
    /\ replies' \in {replies, replies + 1}
    /\ UNCHANGED <<table, pending, fut, pc>>

Task(t) == \/ send_tcp_segment(t) \/ requested(t) \/ resolve(t) \/ resolved(t)
           \/ timeout(t) \/ unresolved(t)

Ended == \A t \in Senders : pc[t] \in {"sent", "dropped"}

Next == (\E t \in Senders : Task(t)) \/ learn \/ send_tcp_segment_nowait

Spec == Init /\ [][Next]_vars

-----------------------------------------------------------------------------
\* The entry of _pending is a future without a result, of a task that has not gone on: learn
\* never gives its result to a task that has left resolve, which would then be lost for the
\* next one.
PendingWaits == pending # NoOne => pc[pending] \in {"wait", "expired"} /\ pending \notin fut

\* With the types, that the result of a future is given while its task waits for it:
\* no task that has still to resolve finds its future done.
PendingInv ==
    /\ pending \in Senders \cup {NoOne}
    /\ fut \subseteq Senders
    /\ pc \in [Senders -> {"start", "request", "resolve", "wait", "expired", "sent", "dropped"}]
    /\ \A t \in fut : pc[t] \in {"wait", "expired", "sent", "dropped"}
    /\ PendingWaits

\* For any number of tasks that send, arp.py keeps in _pending only futures that have
\* no result and whose task is still in resolve, although each one replaces and each timeout
\* removes another task's.
THEOREM PendingIsAwaited == Spec => []PendingWaits
  <1>1. Init => PendingInv
    BY DEF Init, PendingInv, PendingWaits
  <1>2. PendingInv /\ [Next]_vars => PendingInv'
    <2> SUFFICES ASSUME PendingInv, [Next]_vars PROVE PendingInv'
      OBVIOUS
    <2> USE DEF PendingInv, PendingWaits
    <2>1. ASSUME NEW t \in Senders, send_tcp_segment(t) PROVE PendingInv'
      BY <2>1 DEF send_tcp_segment
    <2>2. ASSUME NEW t \in Senders, requested(t) PROVE PendingInv'
      BY <2>2 DEF requested
    <2>3. ASSUME NEW t \in Senders, resolve(t) PROVE PendingInv'
      BY <2>3 DEF resolve
    <2>4. ASSUME NEW t \in Senders, resolved(t) PROVE PendingInv'
      BY <2>4 DEF resolved
    <2>5. ASSUME NEW t \in Senders, timeout(t) PROVE PendingInv'
      BY <2>5 DEF timeout
    <2>6. ASSUME NEW t \in Senders, unresolved(t) PROVE PendingInv'
      BY <2>6 DEF unresolved
    <2>7. CASE learn
      BY <2>7 DEF learn
    <2>8. CASE send_tcp_segment_nowait
      BY <2>8 DEF send_tcp_segment_nowait
    <2>9. CASE UNCHANGED vars
      BY <2>9 DEF vars
    <2> QED BY <2>1, <2>2, <2>3, <2>4, <2>5, <2>6, <2>7, <2>8, <2>9 DEF Next, Task
  <1>3. PendingInv => PendingWaits
    BY DEF PendingInv
  <1> QED BY <1>1, <1>2, <1>3, PTL DEF Spec

=============================================================================
