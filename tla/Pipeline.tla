------------------------------ MODULE Pipeline ------------------------------
(***************************************************************************)
(* hw06_pipeline_execution: ExecutePipeline starts one goroutine that      *)
(* copies in to a channel it can abandon when done is closed (relay 0),    *)
(* and chains the stages behind it (relays 1..K). Producer and stages are  *)
(* those of pipeline_test.go; the README's stages do not watch done: then  *)
(* doneAware is FALSE. The consumer may stop reading once it closed done.  *)
(*                                                                         *)
(* Channels are unbuffered: to pass a value moves both goroutines at once. *)
(* Channel j leads to relay j; each goroutine's deferred function closes   *)
(* the channel behind it, so a channel is closed when its sender exited.   *)
(***************************************************************************)
EXTENDS Integers, Sequences

CONSTANTS N,   \* number of inputs
          K    \* number of stages

ASSUME PipelineAssumption == N \in Nat /\ K \in Nat

Relays == 0..K

VARIABLES
  doneAware,  \* the stages select on done too
  next,       \* the input the producer offers, N + 1 after the last
  producer,   \* "send" or "exited"
  relay,      \* per relay: "recv", "send" or "exited"
  hold,       \* per relay: the last value it took, <<input, stages passed>>
  consumer,   \* "range", "exited" (saw the channel closed) or "gone"
  out,        \* what the consumer has read
  done        \* done is closed

vars == <<doneAware, next, producer, relay, hold, consumer, out, done>>

Init ==
  /\ doneAware \in BOOLEAN
  /\ next = 1 /\ producer = "send"
  /\ relay = [j \in Relays |-> "recv"]
  /\ hold = [j \in Relays |-> <<0, 0>>]
  /\ consumer = "range" /\ out = <<>> /\ done = FALSE

Closed(j) == IF j = 0 THEN producer = "exited" ELSE relay[j - 1] = "exited"
-----------------------------------------------------------------------------
\* dataProducer: chanData <- v meets <-in.
Feed ==
  /\ producer = "send" /\ next <= N
  /\ relay[0] = "recv"
  /\ relay' = [relay EXCEPT ![0] = "send"]
  /\ hold' = [hold EXCEPT ![0] = <<next, 0>>]
  /\ next' = next + 1
  /\ UNCHANGED <<producer, consumer, out, done>>

\* It ends after the last value or when it sees done, and closes in.
ProducerReturn ==
  /\ producer = "send"
  /\ next > N \/ done
  /\ producer' = "exited"
  /\ UNCHANGED <<next, relay, hold, consumer, out, done>>

\* out <- f(v) meets v, ok := <-in of the next relay, itself a stage.
Pass(j) ==
  /\ j < K
  /\ relay[j] = "send" /\ relay[j + 1] = "recv"
  /\ relay' = [relay EXCEPT ![j] = "recv", ![j + 1] = "send"]
  /\ hold' = [hold EXCEPT ![j + 1] = <<hold[j][1], hold[j][2] + 1>>]
  /\ UNCHANGED <<next, producer, consumer, out, done>>

\* The last relay's value meets the consumer's range.
Consume ==
  /\ relay[K] = "send" /\ consumer = "range"
  /\ relay' = [relay EXCEPT ![K] = "recv"]
  /\ out' = Append(out, hold[K])
  /\ UNCHANGED <<next, producer, hold, consumer, done>>

RelayGoto(j, state) ==
  /\ relay' = [relay EXCEPT ![j] = state]
  /\ UNCHANGED <<next, producer, hold, consumer, out, done>>

\* A receive from the closed channel yields ok = FALSE.
NoOkCheck(j) == relay[j] = "recv" /\ Closed(j) /\ RelayGoto(j, "send")
RecvClosed(j) ==
  /\ relay[j] = "recv" /\ Closed(j)
  /\ RelayGoto(j, "exited")

\* Both selects, on receiving and on sending, watch done; a value in hand is
\* dropped.
Watches(j) == j = 0 \/ doneAware
BreakOnly(j) == relay[j] # "exited" /\ done /\ Watches(j) /\ RelayGoto(j, "recv")
OuterSelectOnly(j) == relay[j] = "recv" /\ done /\ Watches(j) /\ RelayGoto(j, "exited")
SeeDone(j) ==
  /\ relay[j] # "exited" /\ done /\ Watches(j)
  /\ RelayGoto(j, "exited")

\* The consumer's range ends with the channel.
ConsumerEnd ==
  /\ consumer = "range" /\ relay[K] = "exited"
  /\ consumer' = "exited"
  /\ UNCHANGED <<next, producer, relay, hold, out, done>>

\* Somebody closes done, at any time but once; the consumer may then leave.
Stop ==
  /\ ~done
  /\ done' = TRUE
  /\ UNCHANGED <<next, producer, relay, hold, consumer, out>>

Leave ==
  /\ done /\ consumer = "range"
  /\ consumer' = "gone"
  /\ UNCHANGED <<next, producer, relay, hold, out, done>>

Producer == Feed \/ ProducerReturn
Relay(j) == (j \in Relays /\ Pass(j)) \/ RecvClosed(j) \/ SeeDone(j)
Consumer == Consume \/ ConsumerEnd

AllExited == producer = "exited" /\ \A j \in Relays : relay[j] = "exited"
Finished == AllExited /\ consumer # "range" /\ UNCHANGED vars

Next ==
  /\ Producer \/ (\E j \in Relays : Relay(j)) \/ Consumer \/ Stop \/ Leave \/ Finished
  /\ UNCHANGED doneAware

Spec == Init /\ [][Next]_vars

\* The goroutine ExecutePipeline starts is sure to run. Only where the stages
\* watch done do the others have to: else the producer may stall without closing
\* in, and a stage may never return. Nobody has to close done or to leave.
FairSpec ==
  /\ Spec
  /\ WF_vars(Relay(0) /\ UNCHANGED doneAware)
  /\ WF_vars(doneAware /\ Producer /\ UNCHANGED doneAware)
  /\ WF_vars(doneAware /\ Consumer /\ UNCHANGED doneAware)
  /\ \A j \in Relays : WF_vars(doneAware /\ Relay(j) /\ UNCHANGED doneAware)
-----------------------------------------------------------------------------
TypeOK ==
  /\ doneAware \in BOOLEAN
  /\ next \in 1..(N + 1)
  /\ producer \in {"send", "exited"}
  /\ relay \in [Relays -> {"recv", "send", "exited"}]
  /\ hold \in [Relays -> (0..N) \X Nat]
  /\ consumer \in {"range", "exited", "gone"}
  /\ out \in Seq((0..N) \X Nat)
  /\ done \in BOOLEAN

\* The values on their way are in order: each relay sends a value that came
\* after all that left through the relays behind it, worked on once by every
\* stage it passed, and the consumer reads inputs 1, 2, ... by all K stages,
\* with no gap, also when relays drop values on done.
InOrder ==
  /\ \A j \in Relays : relay[j] = "send" =>
       /\ hold[j][2] = j
       /\ hold[j][1] > Len(out) /\ hold[j][1] < next
       /\ \A k \in Relays : k > j /\ relay[k] = "send" => hold[k][1] < hold[j][1]
  /\ \A i \in 1..Len(out) : out[i] = <<i, K>>

\* The values in the pipeline, from the producer's next one, in place -1, to the
\* consumer's last, in place K + 1. A relay lets values through while it waits, or
\* when it ended only because no more come.
Places     == -1..(K + 1)
Loaded(j)  == j \in {-1, K + 1} \/ relay[j] = "send"
Value(j)   == IF j = -1 THEN next ELSE IF j = K + 1 THEN Len(out) ELSE hold[j][1]
Through(j) == relay[j] = "recv" \/ (relay[j] = "exited" /\ ~done)

\* Values keep their order, and there is a gap between two of them only where a
\* relay that saw done lies between: what it dropped cannot be overtaken.
Gapless ==
  \A i, j \in Places : i < j /\ Loaded(i) /\ Loaded(j) =>
    /\ Value(i) > Value(j)
    /\ (\A l \in (i + 1)..(j - 1) : Through(l)) => Value(i) = Value(j) + 1

\* Until done is closed goroutines end from the producer on, each after the one
\* before it, and the producer after the last value.
EndsInTurn ==
  ~done =>
    /\ producer = "exited" => next = N + 1
    /\ \A j \in Relays : relay[j] = "exited" =>
         producer = "exited" /\ \A i \in 0..(j - 1) : relay[i] = "exited"

\* Types, order and the end together, in every state; inductive
\* (pipeline.go:13-49).
Inv == TypeOK /\ InOrder /\ Gapless /\ EndsInTurn

\* What the reader sees is the ordered stream, closed early only on done.
Stream == INSTANCE OrderedStream WITH
  taken <- next - 1, stopped <- done, closed <- relay[K] = "exited"
RefinesStream == Stream!Spec

\* Once done is closed the goroutine of ExecutePipeline ends, even when the
\* producer stalls and no stage takes its value (the inner select).
HeadStops == done ~> relay[0] = "exited"

\* Where the stages watch done every goroutine ends, with or without a stop
\* signal, whatever the consumer does after it (goleak in pipeline_test.go:81).
NoLeak == doneAware ~> AllExited
=============================================================================
