------------------------------- MODULE Gather -------------------------------
(***************************************************************************)
(* asyncio.gather (asyncio/__init__.py): child tasks end in any order with *)
(* a result, an exception or a cancellation, the event loop runs their     *)
(* done callbacks, and these complete the outer future.  The task that     *)
(* awaits the outer future may be cancelled, which cancels that future and *)
(* no child.                                                               *)
(***************************************************************************)
EXTENDS Integers, Sequences, FiniteSets

CONSTANT Children     \* indices of the child tasks

VARIABLES return_exceptions,   \* the argument of gather
          child,      \* "running" or how the child ended
          callbacks,  \* children whose _done callback is in the loop's queue
          outer,      \* the outer future: "PENDING", "FINISHED", "EXCEPTION", "CANCELLED"
          results,    \* results[i], "None" at first
          remaining,
          raised      \* a callback raised InvalidStateError

vars == <<return_exceptions, child, callbacks, outer, results, remaining, raised>>

Outcomes == {"result", "exception", "cancelled"}

TypeOK ==
    /\ return_exceptions \in BOOLEAN
    /\ child \in [Children -> {"running"} \cup Outcomes]
    /\ callbacks \in Seq(Children)
    /\ outer \in {"PENDING", "FINISHED", "EXCEPTION", "CANCELLED"}
    /\ results \in [Children -> {"None"} \cup Outcomes]
    /\ remaining \in Int
    /\ raised \in BOOLEAN

\* A child that is done already when gather is called has its callback scheduled by
\* add_done_callback.
Init ==
    /\ return_exceptions \in BOOLEAN
    /\ child \in [Children -> {"running"} \cup Outcomes]
    /\ LET done == {c \in Children : child[c] # "running"}
       IN  callbacks \in {q \in [1 .. Cardinality(done) -> done] :
                             \A i, j \in DOMAIN q : i < j => q[i] < q[j]}
    /\ outer = IF Children = {} THEN "FINISHED" ELSE "PENDING"
    /\ results = [c \in Children |-> "None"]
    /\ remaining = Cardinality(Children)
    /\ raised = FALSE

end(c, how) ==
    /\ child[c] = "running"
    /\ child' = [child EXCEPT ![c] = how]
    /\ callbacks' = Append(callbacks, c)
    /\ UNCHANGED <<return_exceptions, outer, results, remaining, raised>>

\* Future.set_result and set_exception on the outer future.
Complete(how) == IF outer = "PENDING" THEN outer' = how /\ UNCHANGED raised
                                      ELSE raised' = TRUE /\ UNCHANGED outer

\* The test at the start of _done mutated away.
OuterDoneNever == FALSE

OuterDone == outer # "PENDING"

Count(c) == 1

CancelOuter == outer' = "CANCELLED"

\* _done(i, t): without return_exceptions the first failure decides.
done ==
    /\ callbacks # <<>>
    /\ callbacks' = Tail(callbacks)
    /\ LET c == Head(callbacks) IN
          \/ OuterDone /\ UNCHANGED <<outer, results, remaining, raised>>
          \/ /\ ~OuterDone
             /\ ~return_exceptions /\ child[c] = "cancelled"
             /\ CancelOuter
             /\ UNCHANGED <<results, remaining, raised>>
          \/ /\ ~OuterDone
             /\ ~return_exceptions /\ child[c] = "exception"
             /\ Complete("EXCEPTION")
             /\ UNCHANGED <<results, remaining>>
          \/ /\ ~OuterDone
             /\ return_exceptions \/ child[c] = "result"
             /\ results' = [results EXCEPT ![c] = child[c]]
             /\ remaining' = remaining - Count(c)
             /\ IF remaining' = 0 THEN Complete("FINISHED") ELSE UNCHANGED <<outer, raised>>
    /\ UNCHANGED <<return_exceptions, child>>

\* The awaiting task is cancelled: Future.cancel on the outer future.
cancel ==
    /\ outer = "PENDING"
    /\ outer' = "CANCELLED"
    /\ UNCHANGED <<return_exceptions, child, callbacks, results, remaining, raised>>

Next == done \/ cancel \/ \E c \in Children, how \in Outcomes : end(c, how)

Spec == Init /\ [][Next]_vars

\* The event loop runs every callback.
FairSpec == Spec /\ WF_vars(done)

-----------------------------------------------------------------------------
\* The outer future is completed once and with everything: the results are those of
\* all the children, each at its own place, and no callback finds it completed.
AllResults ==
    /\ ~raised
    /\ outer = "FINISHED" => /\ results = child
                             /\ return_exceptions \/ \A c \in Children : child[c] = "result"
    /\ outer = "EXCEPTION" => ~return_exceptions /\ \E c \in Children : child[c] = "exception"

\* When all children have ended the awaiting task is not left waiting.
OuterCompletes == []<>((\A c \in Children : child[c] # "running") => outer # "PENDING")
=============================================================================
