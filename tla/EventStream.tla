---------------------------- MODULE EventStream ----------------------------
(***************************************************************************)
(* What a server-streaming RPC exposed as Server-Sent Events promises, with *)
(* the goroutine, the pipe, the HTTP response buffer and the encoder        *)
(* abstracted away: the consumer receives the events the producer emitted,  *)
(* first to last with none missing in between, and a response that reaches  *)
(* its end on a connection the consumer kept is complete.                   *)
(***************************************************************************)
EXTENDS Naturals

VARIABLES producer,   \* "idle", "running", "finished" or "failed"
          sent,       \* how many events the producer has emitted
          consumer,   \* "attached", "ended" or "left"
          got         \* the events the consumer has received in full

vars == <<producer, sent, consumer, got>>

Init == /\ producer = "idle"
        /\ sent = 0
        /\ consumer = "attached"
        /\ got = {}

Start == /\ producer = "idle"
         /\ consumer # "ended"
         /\ producer' = "running"
         /\ UNCHANGED <<sent, consumer, got>>

Emit == /\ producer = "running"
        /\ sent' = sent + 1
        /\ UNCHANGED <<producer, consumer, got>>

Stop == /\ producer = "running"
        /\ producer' \in {"finished", "failed"}
        /\ UNCHANGED <<sent, consumer, got>>

\* Any further prefix of what was emitted may arrive at once.
Receive == /\ consumer = "attached"
           /\ \E k \in 0..sent : got' = 1..k
           /\ got \subseteq got'
           /\ UNCHANGED <<producer, sent, consumer>>

\* The response ends only after the producer has, and takes along whatever
\* had not arrived yet, whether the producer finished or failed.
End == /\ consumer = "attached"
       /\ producer # "running"
       /\ consumer' = "ended"
       /\ got' = 1..sent
       /\ UNCHANGED <<producer, sent>>

Leave == /\ consumer = "attached"
         /\ consumer' = "left"
         /\ UNCHANGED <<producer, sent, got>>

Next == Start \/ Emit \/ Stop \/ Receive \/ End \/ Leave

Spec == Init /\ [][Next]_vars
=============================================================================
