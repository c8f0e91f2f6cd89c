------------------------------ MODULE Exchange ------------------------------
(***************************************************************************)
(* What the generated server and clients promise about a call, whatever it *)
(* carries: how the work of the service, the verdict of the server and     *)
(* what the caller is told are related.  Gateway implements it.            *)
(***************************************************************************)
EXTENDS Integers

CONSTANT MaxTries

Attempts == 1 .. MaxTries

VARIABLES
  work,      \* the RPC: "none", "running", "done" or "failed"
  verdict,   \* the response: "none", "refused" (4xx), "faulted" (5xx),
             \* "served" (2xx); of a stream, whose 2xx goes out before the
             \* work is over, "ended" or "cut" (an error behind the events)
  told       \* "none", "invalid", "unknown", or the verdict

vars == <<work, verdict, told>>

Init ==
  /\ work = [a \in Attempts |-> "none"]
  /\ verdict = [a \in Attempts |-> "none"]
  /\ told = [a \in Attempts |-> "none"]

(* An attempt reaches the server only when the one before is given up.     *)
Open(a) == told[a] # "invalid" /\ (a > 1 => told[a-1] = "unknown")

Begin(a) ==
  /\ Open(a) /\ work[a] = "none" /\ verdict[a] = "none"
  /\ work' = [work EXCEPT ![a] = "running"]
  /\ UNCHANGED <<verdict, told>>

Finish(a) ==
  /\ work[a] = "running"
  /\ \E w \in {"done", "failed"} : work' = [work EXCEPT ![a] = w]
  /\ UNCHANGED <<verdict, told>>

Decide(a, v) ==
  /\ verdict[a] = "none"
  /\ verdict' = [verdict EXCEPT ![a] = v]
  /\ UNCHANGED <<work, told>>

(* The caller is only blamed before the service has worked.                *)
Refuse(a) == Open(a) /\ work[a] = "none" /\ Decide(a, "refused")

Fault(a) == Open(a) /\ work[a] # "running" /\ Decide(a, "faulted")

Serve(a) == work[a] = "done" /\ Decide(a, "served")

Cut(a) == work[a] = "failed" /\ Decide(a, "cut")

(* A stream that just ends does not tell how.                              *)
End(a) == work[a] \in {"done", "failed"} /\ Decide(a, "ended")

Tell(a) ==
  /\ told[a] = "none" /\ verdict[a] # "none"
  /\ told' = [told EXCEPT ![a] = verdict[a]]
  /\ UNCHANGED <<work, verdict>>

GiveUp(a) ==
  /\ told[a] = "none"
  /\ told' = [told EXCEPT ![a] = "unknown"]
  /\ UNCHANGED <<work, verdict>>

Invalid(a) ==
  /\ told[a] = "none" /\ work[a] = "none" /\ verdict[a] = "none"
  /\ told' = [told EXCEPT ![a] = "invalid"]
  /\ UNCHANGED <<work, verdict>>

Next ==
  \E a \in Attempts :
    \/ Begin(a) \/ Finish(a)
    \/ Refuse(a) \/ Fault(a) \/ Serve(a) \/ Cut(a) \/ End(a)
    \/ Tell(a) \/ GiveUp(a) \/ Invalid(a)

Spec == Init /\ [][Next]_vars

-----------------------------------------------------------------------------
(* A caller that is told of success was served, one that is told that it   *)
(* erred was not: it may send the corrected call without doing work twice. *)
Honest ==
  \A a \in Attempts :
    /\ told[a] = "served" => work[a] = "done"
    /\ told[a] = "cut" => work[a] = "failed"
    /\ told[a] = "ended" => work[a] \in {"done", "failed"}
    /\ told[a] \in {"refused", "invalid"} => work[a] = "none"

(* The work for a call is repeated only when its outcome was unknown.      *)
RepeatedOnlyUnknown ==
  \A a, b \in Attempts :
    b < a /\ work[a] # "none" => told[b] = "unknown"
=============================================================================
