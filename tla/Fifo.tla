-------------------------------- MODULE Fifo --------------------------------
(***************************************************************************)
(* What queue.h promises: a first-in first-out queue whose push and pop    *)
(* take effect at one instant, for any number of concurrent callers.       *)
(***************************************************************************)
EXTENDS Sequences

CONSTANTS Caller, Value, NULL

VARIABLES contents,   \* the queued values, oldest first
          result      \* a value popped and not yet returned to its caller

vars == <<contents, result>>

Init == contents = <<>> /\ result = [t \in Caller |-> NULL]

Push(v) == contents' = Append(contents, v) /\ UNCHANGED result

Pop(t) ==
  /\ contents # <<>> /\ result[t] = NULL
  /\ result' = [result EXCEPT ![t] = Head(contents)]
  /\ contents' = Tail(contents)

Return(t) == result' = [result EXCEPT ![t] = NULL] /\ UNCHANGED contents

Clear == contents' = <<>> /\ UNCHANGED result

Next == \/ \E v \in Value : Push(v)
        \/ \E t \in Caller : Pop(t) \/ Return(t)
        \/ Clear

Spec == Init /\ [][Next]_vars
=============================================================================
