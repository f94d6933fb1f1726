--------------------------- MODULE AtomicReplace ---------------------------
(***************************************************************************)
(* What replacing a filter under traffic promises those who test it: the   *)
(* filter changes in one step, and a test happens in one step, on the      *)
(* filter that is in use at that moment.                                   *)
(***************************************************************************)
CONSTANTS Readers, Keys, Versions,
          Verdict       \* version |-> key |-> what a test answers

VARIABLES inUse,        \* the version in use
          test          \* each goroutine's test

Idle == [pc |-> "idle"]

Init == inUse \in Versions /\ test = [r \in Readers |-> Idle]

Replace ==
  /\ inUse' \in Versions
  /\ UNCHANGED test

Call(r, key) ==
  /\ test[r].pc = "idle"
  /\ test' = [test EXCEPT ![r] = [pc |-> "call", key |-> key]]
  /\ UNCHANGED inUse

Decide(r) ==
  /\ test[r].pc = "call"
  /\ test' = [test EXCEPT ![r] =
       [pc |-> "done", key |-> test[r].key, answer |-> Verdict[inUse][test[r].key]]]
  /\ UNCHANGED inUse

Return(r) ==
  /\ test[r].pc = "done"
  /\ test' = [test EXCEPT ![r] = Idle]
  /\ UNCHANGED inUse

Next ==
  \/ Replace
  \/ \E r \in Readers : Decide(r) \/ Return(r) \/ \E key \in Keys : Call(r, key)

Spec == Init /\ [][Next]_<<inUse, test>>
=============================================================================
