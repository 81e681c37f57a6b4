--------------------------- MODULE Pipeline_proofs ---------------------------
(***************************************************************************)
(* What holds of hw06's ExecutePipeline for every number of inputs and of  *)
(* stages, with stages that watch done and stages that do not. The heart of*)
(* the inductive invariant is Gapless: what is in the pipeline is one run  *)
(* of inputs, torn only where a relay dropped a value. The pipeline then   *)
(* implements the ordered stream.                                          *)
(***************************************************************************)
EXTENDS Pipeline, SequenceTheorems, TLAPS

LEMMA InitInv == Init => Inv
<1> SUFFICES ASSUME Init PROVE Inv
  OBVIOUS
<1> USE PipelineAssumption DEF Init, Relays
<1>1. TypeOK
  <2>1. doneAware \in BOOLEAN /\ done \in BOOLEAN
    BY Zenon
  <2>2. hold \in [0..K -> (0..N) \X Nat] /\ relay \in [0..K -> {"recv", "send", "exited"}]
    BY <<0, 0>> \in (0..N) \X Nat
  <2>3. QED  BY <2>1, <2>2 DEF TypeOK
<1>2. InOrder /\ EndsInTurn
  BY DEF InOrder, EndsInTurn
<1>3. Gapless
  BY DEF Gapless, Places, Loaded, Value
<1>4. QED  BY <1>1, <1>2, <1>3 DEF Inv

\* The order of the values follows from their places.
Order ==
  \A j \in Relays : relay[j] = "send" =>
    /\ hold[j][1] > Len(out) /\ hold[j][1] < next
    /\ \A k \in Relays : k > j /\ relay[k] = "send" => hold[k][1] < hold[j][1]

LEMMA OrderFollows == TypeOK /\ Gapless => Order
<1> SUFFICES ASSUME TypeOK, Gapless, NEW j \in Relays, relay[j] = "send"
             PROVE  /\ hold[j][1] > Len(out) /\ hold[j][1] < next
                    /\ \A k \in Relays : k > j /\ relay[k] = "send" => hold[k][1] < hold[j][1]
  BY DEF Order
<1> USE PipelineAssumption DEF Relays
<1>1. j \in Places /\ -1 \in Places /\ K + 1 \in Places /\ j \in 0..K
  BY DEF Places
<1>2. Loaded(j) /\ Loaded(-1) /\ Loaded(K + 1)
  BY DEF Loaded
<1>3. Value(j) = hold[j][1] /\ Value(-1) = next /\ Value(K + 1) = Len(out)
  BY <1>1 DEF Value
<1>4. Value(-1) > Value(j) /\ Value(j) > Value(K + 1)
  BY <1>1, <1>2 DEF Gapless
<1>5. ASSUME NEW k \in Relays, k > j, relay[k] = "send"
      PROVE  hold[k][1] < hold[j][1]
  <2>1. k \in Places /\ Loaded(k) /\ Value(k) = hold[k][1]
    BY <1>5 DEF Places, Loaded, Value
  <2>2. Value(j) > Value(k)
    BY <1>1, <1>2, <1>5, <2>1 DEF Gapless
  <2>3. k \in Relays /\ hold[k] \in (0..N) \X Nat /\ hold[j] \in (0..N) \X Nat
    BY <1>5 DEF TypeOK
  <2>4. QED  BY <1>3, <2>1, <2>2, <2>3
<1>6. hold[j] \in (0..N) \X Nat /\ Len(out) \in Nat /\ next \in Nat
  BY LenProperties DEF TypeOK
<1>7. QED  BY <1>3, <1>4, <1>5, <1>6

\* The producer's value enters at relay 0.
LEMMA FeedKeeps ==
  ASSUME Inv, Feed, UNCHANGED doneAware
  PROVE  TypeOK' /\ Gapless'
<1> USE PipelineAssumption
<1>1. TypeOK /\ Gapless
  BY DEF Inv
<1>2. /\ next \in 1..N /\ next' = next + 1 /\ out' = out /\ done' = done
      /\ relay[0] = "recv" /\ 0 \in Relays
      /\ relay' = [relay EXCEPT ![0] = "send"]
      /\ hold' = [hold EXCEPT ![0] = <<next, 0>>]
  BY <1>1 DEF Feed, TypeOK, Relays
<1>3. TypeOK'
  BY <1>1, <1>2 DEF Feed, TypeOK
<1>4. \A j \in Places : Loaded(j)' <=> j = 0 \/ Loaded(j)
  BY <1>1, <1>2 DEF Places, Relays, Loaded, TypeOK
<1>5. \A j \in Places : Value(j)' = IF j = -1 THEN next + 1 ELSE IF j = 0 THEN next ELSE Value(j)
  BY <1>1, <1>2 DEF Places, Relays, Value, TypeOK
<1>6. \A j \in Relays : Through(j)' => j # 0 /\ Through(j)
  BY <1>1, <1>2 DEF Through, TypeOK
<1>7. ~Loaded(0) /\ Through(0) /\ Loaded(-1) /\ Value(-1) = next /\ -1 \in Places /\ 0 \in Places
  BY <1>2 DEF Loaded, Through, Value, Places
<1>8. \A j \in Places : Loaded(j) => Value(j) \in Nat
  BY <1>1, LenProperties DEF Places, Relays, Loaded, Value, TypeOK
<1>9. Gapless'
  <2> SUFFICES ASSUME NEW i \in Places, NEW j \in Places, i < j, Loaded(i)', Loaded(j)'
               PROVE  /\ (Value(i) > Value(j))'
                      /\ (\A l \in (i + 1)..(j - 1) : Through(l)') => (Value(i) = Value(j) + 1)'
    BY DEF Gapless, Places
  <2>1. CASE j = 0
    BY <1>2, <1>5, <1>7, <2>1 DEF Places
  <2>2. CASE i = 0
    <3>1. Loaded(j) /\ Value(j)' = Value(j) /\ Value(i)' = next /\ j > -1
      BY <1>4, <1>5, <2>2 DEF Places
    <3>2. next > Value(j)
      BY <1>1, <1>7, <3>1 DEF Gapless
    <3>3. ASSUME \A l \in (i + 1)..(j - 1) : Through(l)'
          PROVE  next = Value(j) + 1
      <4>1. \A l \in 0..(j - 1) : Through(l)
        <5> TAKE l \in 0..(j - 1)
        <5>1. CASE l = 0
          BY <1>7, <5>1
        <5>2. CASE l # 0
          <6>1. l \in Relays /\ l \in (i + 1)..(j - 1)
            BY <2>2, <5>2 DEF Places, Relays
          <6>2. QED  BY <1>6, <3>3, <6>1
        <5>3. QED  BY <5>1, <5>2
      <4>2. \A l \in (-1 + 1)..(j - 1) : Through(l)
        BY <4>1
      <4>3. QED  BY <1>1, <1>7, <3>1, <4>2 DEF Gapless
    <3>4. QED  BY <3>1, <3>2, <3>3
  <2>3. CASE i # 0 /\ j # 0
    <3>1. Loaded(i) /\ Loaded(j) /\ Value(j)' = Value(j)
      BY <1>4, <1>5, <2>3 DEF Places
    <3>2. CASE i = -1
      <4>1. j > 0 /\ 0 \in (i + 1)..(j - 1)
        BY <2>3, <3>2 DEF Places
      <4>2. 0 \in Relays /\ ~Through(0)'
        BY <1>2, <1>6
      <4>3. Value(-1) > Value(j) /\ Value(j) \in Nat
        BY <1>1, <1>7, <1>8, <3>1, <3>2 DEF Gapless
      <4>4. QED  BY <1>2, <1>5, <1>7, <3>1, <3>2, <4>1, <4>2, <4>3
    <3>3. CASE i # -1
      <4>1. Value(i)' = Value(i) /\ \A l \in (i + 1)..(j - 1) : l \in Relays
        BY <1>5, <2>3, <3>3 DEF Places, Relays
      <4>2. QED  BY <1>1, <1>6, <3>1, <4>1 DEF Gapless
    <3>4. QED  BY <3>2, <3>3
  <2>4. QED  BY <2>1, <2>2, <2>3
<1>10. QED  BY <1>3, <1>9

\* A value goes from relay m to the next one.
LEMMA PassKeeps ==
  ASSUME Inv, NEW m \in Relays, Pass(m), UNCHANGED doneAware
  PROVE  TypeOK' /\ Gapless'
<1> USE PipelineAssumption
<1>1. TypeOK /\ Gapless
  BY DEF Inv
<1>2. /\ m \in 0..(K - 1) /\ m + 1 \in Relays
      /\ next' = next /\ out' = out /\ done' = done
      /\ relay[m] = "send" /\ relay[m + 1] = "recv"
      /\ relay' = [relay EXCEPT ![m] = "recv", ![m + 1] = "send"]
      /\ hold' = [hold EXCEPT ![m + 1] = <<hold[m][1], hold[m][2] + 1>>]
  BY DEF Pass, Relays
<1>3. TypeOK'
  <2>1. <<hold[m][1], hold[m][2] + 1>> \in (0..N) \X Nat
    BY <1>1 DEF TypeOK
  <2>2. hold' \in [Relays -> (0..N) \X Nat]
    BY <1>1, <1>2, <2>1 DEF TypeOK
  <2>3. relay' \in [Relays -> {"recv", "send", "exited"}]
    BY <1>1, <1>2 DEF TypeOK
  <2>4. QED  BY <1>1, <1>2, <2>2, <2>3 DEF Pass, TypeOK
<1>4. \A j \in Places : Loaded(j)' <=> j = m + 1 \/ (j # m /\ Loaded(j))
  <2> TAKE j \in Places
  <2>1. CASE j \in {-1, K + 1}
    BY <1>2, <2>1 DEF Loaded
  <2>2. CASE j \notin {-1, K + 1}
    <3>1. j \in Relays /\ m \in Relays
      BY <2>2 DEF Places, Relays
    <3>2. relay'[j] = IF j = m + 1 THEN "send" ELSE IF j = m THEN "recv" ELSE relay[j]
      BY <1>1, <1>2, <3>1 DEF TypeOK
    <3>3. Loaded(j)' <=> relay'[j] = "send"
      BY <2>2 DEF Loaded
    <3>4. Loaded(j) <=> relay[j] = "send"
      BY <2>2 DEF Loaded
    <3>5. QED  BY <1>2, <3>2, <3>3, <3>4
  <2>3. QED  BY <2>1, <2>2
<1>5. \A j \in Places : j # m + 1 => Value(j)' = Value(j)
  BY <1>1, <1>2 DEF Places, Relays, Value, TypeOK
<1>6. Value(m + 1)' = Value(m) /\ Loaded(m) /\ m \in Places /\ ~Loaded(m + 1) /\ Through(m + 1)
  BY <1>1, <1>2 DEF Places, Relays, Value, Loaded, Through, TypeOK
<1>7. \A j \in Relays : Through(j)' => j # m + 1 /\ (j = m \/ Through(j))
  BY <1>1, <1>2 DEF Through, TypeOK
<1>8. Gapless'
  <2> SUFFICES ASSUME NEW i \in Places, NEW j \in Places, i < j, Loaded(i)', Loaded(j)'
               PROVE  /\ (Value(i) > Value(j))'
                      /\ (\A l \in (i + 1)..(j - 1) : Through(l)') => (Value(i) = Value(j) + 1)'
    BY DEF Gapless, Places
  <2>1. CASE j = m + 1
    <3>1. i < m /\ Loaded(i) /\ Value(i)' = Value(i)
      BY <1>2, <1>4, <1>5, <2>1 DEF Places
    <3>2. \A l \in (i + 1)..(m - 1) : l \in Relays /\ l # m /\ l \in (i + 1)..(j - 1)
      BY <1>2, <2>1 DEF Places, Relays
    <3>3. QED  BY <1>1, <1>6, <1>7, <2>1, <3>1, <3>2 DEF Gapless
  <2>2. CASE i = m + 1
    <3>1. Loaded(j) /\ Value(j)' = Value(j) /\ m < j
      BY <1>2, <1>4, <1>5, <2>2 DEF Places
    <3>2. Value(m) > Value(j)
      BY <1>1, <1>6, <3>1 DEF Gapless
    <3>3. ASSUME \A l \in (i + 1)..(j - 1) : Through(l)'
          PROVE  Value(m) = Value(j) + 1
      <4>1. \A l \in (m + 1)..(j - 1) : Through(l)
        <5> TAKE l \in (m + 1)..(j - 1)
        <5>1. CASE l = m + 1
          BY <1>6, <5>1
        <5>2. CASE l # m + 1
          <6>1. l \in Relays /\ l \in (i + 1)..(j - 1) /\ l # m
            BY <1>2, <2>2, <5>2 DEF Places, Relays
          <6>2. QED  BY <1>7, <3>3, <6>1
        <5>3. QED  BY <5>1, <5>2
      <4>2. QED  BY <1>1, <1>6, <3>1, <4>1 DEF Gapless
    <3>4. QED  BY <1>6, <2>2, <3>1, <3>2, <3>3
  <2>3. CASE i # m + 1 /\ j # m + 1
    <3>1. /\ Loaded(i) /\ Loaded(j) /\ i # m /\ j # m
          /\ Value(i)' = Value(i) /\ Value(j)' = Value(j)
      BY <1>4, <1>5, <2>3
    <3>2. CASE i < m /\ m < j
      <4>1. m + 1 \in (i + 1)..(j - 1) /\ ~Through(m + 1)'
        BY <1>2, <1>7, <2>3, <3>2 DEF Places
      <4>2. QED  BY <1>1, <3>1, <4>1 DEF Gapless
    <3>3. CASE ~(i < m /\ m < j)
      <4>1. \A l \in (i + 1)..(j - 1) : l \in Relays /\ l # m
        BY <1>2, <2>3, <3>1, <3>3 DEF Places, Relays
      <4>2. QED  BY <1>1, <1>7, <3>1, <4>1 DEF Gapless
    <3>4. QED  BY <3>2, <3>3
  <2>4. QED  BY <2>1, <2>2, <2>3
<1>9. QED  BY <1>3, <1>8

\* The value before the consumer is the next of the stream.
LEMMA NextOfStream ==
  ASSUME TypeOK, InOrder, Gapless, relay[K] = "send"
  PROVE  hold[K] = <<Len(out) + 1, K>> /\ Len(out) + 1 < next
<1> USE PipelineAssumption
<1>1. K \in Relays /\ K \in Places /\ K + 1 \in Places /\ Len(out) \in Nat
  BY LenProperties DEF Relays, Places, TypeOK
<1>2. Loaded(K) /\ Loaded(K + 1) /\ Value(K) = hold[K][1] /\ Value(K + 1) = Len(out)
  BY <1>1 DEF Loaded, Value
<1>3. Value(K) = Value(K + 1) + 1
  <2>1. \A l \in (K + 1)..((K + 1) - 1) : Through(l)
    OBVIOUS
  <2>2. QED  BY <1>1, <1>2, <2>1 DEF Gapless
<1>4. hold[K] \in (0..N) \X Nat /\ hold[K][2] = K
  BY <1>1 DEF TypeOK, InOrder
<1>5. hold[K][1] < next
  BY <1>1, OrderFollows DEF Order
<1>6. hold[K] = <<hold[K][1], hold[K][2]>>
  BY <1>4
<1>7. hold[K][1] = Len(out) + 1
  BY <1>2, <1>3
<1>8. QED  BY <1>4, <1>5, <1>6, <1>7

\* The consumer reads the value of the last relay.
LEMMA ConsumeKeeps ==
  ASSUME Inv, Consume, UNCHANGED doneAware
  PROVE  TypeOK' /\ Gapless' /\ out' = Append(out, <<Len(out) + 1, K>>)
<1> USE PipelineAssumption
<1>1. TypeOK /\ Gapless /\ InOrder
  BY DEF Inv
<1>2. /\ relay[K] = "send" /\ K \in Relays
      /\ next' = next /\ hold' = hold /\ done' = done
      /\ relay' = [relay EXCEPT ![K] = "recv"]
      /\ hold[K] = <<Len(out) + 1, K>> /\ out' = Append(out, hold[K])
  BY <1>1, NextOfStream DEF Consume, Relays
<1>3. hold[K] \in (0..N) \X Nat /\ out \in Seq((0..N) \X Nat)
  BY <1>1, <1>2 DEF TypeOK
<1>4. out' \in Seq((0..N) \X Nat) /\ Len(out') = Len(out) + 1 /\ Len(out) \in Nat
  BY <1>2, <1>3, AppendProperties, LenProperties
<1>5. TypeOK'
  BY <1>1, <1>2, <1>4 DEF Consume, TypeOK
<1>6. \A j \in Places : Loaded(j)' <=> j # K /\ Loaded(j)
  BY <1>1, <1>2 DEF Places, Relays, Loaded, TypeOK
<1>7. \A j \in Places : Value(j)' = IF j = K + 1 THEN Len(out) + 1 ELSE Value(j)
  BY <1>1, <1>2, <1>4 DEF Places, Value
<1>8. \A j \in Relays : Through(j)' => j = K \/ Through(j)
  BY <1>1, <1>2 DEF Through, TypeOK
<1>9. Loaded(K) /\ Value(K) = Len(out) + 1 /\ K \in Places
  BY <1>2 DEF Loaded, Value, Places, Relays
<1>10. Gapless'
  <2> SUFFICES ASSUME NEW i \in Places, NEW j \in Places, i < j, Loaded(i)', Loaded(j)'
               PROVE  /\ (Value(i) > Value(j))'
                      /\ (\A l \in (i + 1)..(j - 1) : Through(l)') => (Value(i) = Value(j) + 1)'
    BY DEF Gapless, Places
  <2>1. i < K /\ Loaded(i) /\ Value(i)' = Value(i)
    BY <1>6, <1>7 DEF Places
  <2>2. CASE j = K + 1
    <3>1. Value(j)' = Value(K)
      BY <1>7, <1>9, <2>2
    <3>2. \A l \in (i + 1)..(K - 1) : l \in Relays /\ l # K /\ l \in (i + 1)..(j - 1)
      BY <2>1, <2>2 DEF Places, Relays
    <3>3. QED  BY <1>1, <1>8, <1>9, <2>1, <3>1, <3>2 DEF Gapless
  <2>3. CASE j # K + 1
    <3>1. Loaded(j) /\ Value(j)' = Value(j) /\ j < K
      BY <1>6, <1>7, <2>3 DEF Places
    <3>2. \A l \in (i + 1)..(j - 1) : l \in Relays /\ l # K
      BY <3>1 DEF Places, Relays
    <3>3. QED  BY <1>1, <1>8, <2>1, <3>1, <3>2 DEF Gapless
  <2>4. QED  BY <2>2, <2>3
<1>11. QED  BY <1>2, <1>5, <1>10

\* A relay that ends takes its value, if it has one, out of the pipeline.
LEMMA RelayEndKeeps ==
  ASSUME Inv, NEW m \in Relays, RecvClosed(m) \/ SeeDone(m), UNCHANGED doneAware
  PROVE  TypeOK' /\ Gapless'
<1> USE PipelineAssumption
<1>1. TypeOK /\ Gapless
  BY DEF Inv
<1>2. /\ next' = next /\ hold' = hold /\ out' = out /\ done' = done
      /\ relay' = [relay EXCEPT ![m] = "exited"]
      /\ relay[m] = "recv" \/ done
  BY DEF RecvClosed, SeeDone, RelayGoto
<1>3. TypeOK'
  BY <1>1, <1>2 DEF RecvClosed, SeeDone, RelayGoto, TypeOK
<1>4. \A j \in Places : Loaded(j)' => Loaded(j)
  BY <1>1, <1>2 DEF Places, Relays, Loaded, TypeOK
<1>5. \A j \in Places : Value(j)' = Value(j)
  BY <1>2 DEF Value
<1>6. \A j \in Relays : Through(j)' => Through(j)
  BY <1>1, <1>2 DEF Through, TypeOK
<1>7. \A i, j \in Places : \A l \in (i + 1)..(j - 1) : l \in Relays
  BY DEF Places, Relays
<1>8. Gapless'
  <2> SUFFICES ASSUME NEW i \in Places, NEW j \in Places, i < j, Loaded(i)', Loaded(j)'
               PROVE  /\ (Value(i) > Value(j))'
                      /\ (\A l \in (i + 1)..(j - 1) : Through(l)') => (Value(i) = Value(j) + 1)'
    BY DEF Gapless, Places
  <2>1. Loaded(i) /\ Loaded(j) /\ Value(i)' = Value(i) /\ Value(j)' = Value(j)
    BY <1>4, <1>5
  <2>2. \A l \in (i + 1)..(j - 1) : Through(l)' => Through(l)
    BY <1>6, <1>7
  <2>3. QED  BY <1>1, <2>1, <2>2 DEF Gapless
<1>9. QED  BY <1>3, <1>8

\* The other steps leave the values alone; to close done can only tear.
LEMMA OthersKeep ==
  ASSUME Inv, UNCHANGED doneAware,
         ProducerReturn \/ ConsumerEnd \/ Stop \/ Leave \/ UNCHANGED vars
  PROVE  TypeOK' /\ Gapless'
<1> USE PipelineAssumption
<1>1. TypeOK /\ Gapless
  BY DEF Inv
<1>2. /\ next' = next /\ relay' = relay /\ hold' = hold /\ out' = out
      /\ done => done'
      /\ done' \in BOOLEAN
  BY <1>1 DEF ProducerReturn, ConsumerEnd, Stop, Leave, vars, TypeOK
<1>3. TypeOK'
  BY <1>1, <1>2 DEF ProducerReturn, ConsumerEnd, Stop, Leave, vars, TypeOK
<1>4. \A j : (Loaded(j)' <=> Loaded(j)) /\ Value(j)' = Value(j) /\ (Through(j)' => Through(j))
  BY <1>2 DEF Loaded, Value, Through
<1>5. Gapless'
  BY <1>1, <1>4 DEF Gapless, Places
<1>6. QED  BY <1>3, <1>5

\* A value is worked on by every relay it passes.
LEMMA InOrderKept ==
  ASSUME Inv, [Next]_vars, TypeOK', Gapless'
  PROVE  InOrder'
<1> USE PipelineAssumption
<1>1. TypeOK /\ InOrder
  BY DEF Inv
<1>2. \A j \in Relays : (relay[j] = "send")' => (hold[j][2] = j)'
  <2> USE <1>1 DEF TypeOK, InOrder
  <2>1. CASE Feed \/ Consume
    <3>1. CASE Feed
      BY <3>1 DEF Feed, Relays
    <3>2. CASE Consume
      BY <3>2 DEF Consume, Relays
    <3>3. QED  BY <2>1, <3>1, <3>2
  <2>2. ASSUME NEW m \in Relays, Pass(m)
        PROVE  \A j \in Relays : (relay[j] = "send")' => (hold[j][2] = j)'
    <3> TAKE j \in Relays
    <3>1. m + 1 \in Relays /\ m + 1 # m /\ hold[m][2] = m
      BY <2>2 DEF Pass, Relays
    <3>2. CASE j = m + 1
      BY <2>2, <3>1, <3>2 DEF Pass
    <3>3. CASE j # m + 1
      BY <2>2, <3>1, <3>3 DEF Pass
    <3>4. QED  BY <3>2, <3>3
  <2>3. ASSUME NEW m \in Relays, RecvClosed(m) \/ SeeDone(m)
        PROVE  \A j \in Relays : (relay[j] = "send")' => (hold[j][2] = j)'
    BY <2>3 DEF RecvClosed, SeeDone, RelayGoto
  <2>4. CASE ProducerReturn \/ ConsumerEnd \/ Stop \/ Leave \/ UNCHANGED vars
    BY <2>4 DEF ProducerReturn, ConsumerEnd, Stop, Leave, vars
  <2>5. QED
    BY <2>1, <2>2, <2>3, <2>4 DEF Next, Producer, Relay, Consumer, Finished
<1>3. \A i \in 1..Len(out)' : out'[i] = <<i, K>>
  <2>1. CASE UNCHANGED out
    BY <1>1, <2>1 DEF InOrder
  <2>2. CASE Consume /\ UNCHANGED doneAware
    <3>1. out' = Append(out, <<Len(out) + 1, K>>)
      BY <2>2, ConsumeKeeps
    <3>2. out \in Seq((0..N) \X Nat) /\ Len(out) \in Nat
      BY <1>1, LenProperties DEF TypeOK
    <3>3. QED  BY <1>1, <3>1, <3>2 DEF InOrder
  <2>3. QED
    BY <2>1, <2>2
       DEF Next, Producer, Feed, ProducerReturn, Relay, Pass, RecvClosed, SeeDone, RelayGoto,
           Consumer, ConsumerEnd, Stop, Leave, Finished, vars
<1>4. (TypeOK /\ Gapless => Order)'
  BY OrderFollows, PTL
<1>5. QED  BY <1>2, <1>3, <1>4 DEF InOrder, Order

\* Without done a relay ends after the goroutine before it, and for good.
LEMMA EndsInTurnKept ==
  ASSUME Inv, [Next]_vars
  PROVE  EndsInTurn'
<1> SUFFICES ASSUME ~done' PROVE EndsInTurn'
  BY DEF EndsInTurn
<1> USE PipelineAssumption
<1>1. TypeOK /\ EndsInTurn
  BY DEF Inv
<1>2. ~done
  BY <1>1 DEF Next, Producer, Feed, ProducerReturn, Relay, Pass, RecvClosed, SeeDone, RelayGoto,
              Consumer, Consume, ConsumerEnd, Stop, Leave, Finished, vars, TypeOK
<1>3. /\ producer = "exited" => next = N + 1
      /\ \A j \in Relays : relay[j] = "exited" =>
           producer = "exited" /\ \A i \in 0..(j - 1) : relay[i] = "exited"
  BY <1>1, <1>2 DEF EndsInTurn
<1>4. CASE Feed
  BY <1>1, <1>3, <1>4 DEF Feed, EndsInTurn, Relays, TypeOK
<1>5. CASE ProducerReturn
  <2>1. next = N + 1
    BY <1>1, <1>2, <1>5 DEF ProducerReturn, TypeOK
  <2>2. QED  BY <1>3, <1>5, <2>1 DEF ProducerReturn, EndsInTurn
<1>6. ASSUME NEW m \in Relays, Pass(m) PROVE EndsInTurn'
  <2>1. m + 1 \in Relays
    BY <1>6 DEF Pass, Relays
  <2>2. \A j \in Relays : relay'[j] = "exited" <=> relay[j] = "exited"
    BY <1>1, <1>6, <2>1 DEF Pass, TypeOK
  <2>3. \A j \in Relays : \A i \in 0..(j - 1) : i \in Relays
    BY DEF Relays
  <2>4. QED  BY <1>3, <1>6, <2>2, <2>3 DEF Pass, EndsInTurn
<1>7. CASE Consume
  <2>1. \A j \in Relays : relay'[j] = "exited" <=> relay[j] = "exited"
    BY <1>1, <1>7 DEF Consume, TypeOK, Relays
  <2>2. \A j \in Relays : \A i \in 0..(j - 1) : i \in Relays
    BY DEF Relays
  <2>3. QED  BY <1>3, <1>7, <2>1, <2>2 DEF Consume, EndsInTurn
<1>8. ASSUME NEW m \in Relays, RecvClosed(m) PROVE EndsInTurn'
  <2>1. relay' = [relay EXCEPT ![m] = "exited"] /\ producer' = producer /\ next' = next
    BY <1>8 DEF RecvClosed, RelayGoto
  <2>2. producer = "exited" /\ \A i \in 0..(m - 1) : relay[i] = "exited"
    <3>1. CASE m = 0
      BY <1>8, <3>1 DEF RecvClosed, Closed
    <3>2. CASE m # 0
      <4>1. m - 1 \in Relays /\ relay[m - 1] = "exited"
        BY <1>8, <3>2 DEF RecvClosed, Closed, Relays
      <4>2. producer = "exited" /\ \A i \in 0..((m - 1) - 1) : relay[i] = "exited"
        BY <1>3, <4>1
      <4>3. QED  BY <4>1, <4>2 DEF Relays
    <3>3. QED  BY <3>1, <3>2
  <2>3. \A j \in Relays : \A i \in 0..(j - 1) : i \in Relays
    BY DEF Relays
  <2>4. \A j \in Relays : relay'[j] = IF j = m THEN "exited" ELSE relay[j]
    BY <1>1, <2>1 DEF TypeOK
  <2>5. ASSUME NEW j \in Relays, relay'[j] = "exited"
        PROVE  producer' = "exited" /\ \A i \in 0..(j - 1) : relay'[i] = "exited"
    BY <1>3, <2>1, <2>2, <2>3, <2>4, <2>5
  <2>6. QED  BY <1>3, <2>1, <2>5 DEF EndsInTurn
<1>9. CASE ConsumerEnd \/ Leave \/ UNCHANGED vars
  BY <1>3, <1>9 DEF ConsumerEnd, Leave, vars, EndsInTurn
<1>10. QED
  BY <1>2, <1>4, <1>5, <1>6, <1>7, <1>8, <1>9
     DEF Next, Producer, Relay, SeeDone, Consumer, Stop, Finished
-----------------------------------------------------------------------------
\* However many stages there are, whichever of them drop values on done and
\* whenever it is closed: the values stay in order, each worked on once by every
\* stage it passed, and the consumer reads inputs 1, 2, ... (pipeline.go:13-49).
THEOREM InvHolds == Spec => []Inv
<1>1. Inv /\ [Next]_vars => Inv'
  <2> SUFFICES ASSUME Inv, [Next]_vars PROVE Inv'
    OBVIOUS
  <2>1. TypeOK' /\ Gapless'
    BY FeedKeeps, PassKeeps, ConsumeKeeps, RelayEndKeeps, OthersKeep
       DEF Next, Producer, Relay, Consumer, Finished, vars
  <2>2. QED  BY <2>1, InOrderKept, EndsInTurnKept DEF Inv
<1>2. QED  BY InitInv, <1>1, PTL DEF Spec

\* The last relay ends, without done, only when everything has been read.
LEMMA LastEndMapped ==
  ASSUME Inv, RecvClosed(K) \/ SeeDone(K)
  PROVE  Stream!Close
<1> USE PipelineAssumption
<1>1. TypeOK /\ Gapless /\ EndsInTurn
  BY DEF Inv
<1>2. K \in Relays /\ relay'[K] = "exited" /\ next' = next /\ out' = out /\ done' = done
  BY <1>1 DEF RecvClosed, SeeDone, RelayGoto, Relays, TypeOK
<1>3. done \/ Len(out) = N
  <2> SUFFICES ASSUME ~done PROVE Len(out) = N
    OBVIOUS
  <2>1. relay[K] = "recv" /\ producer = "exited" /\ \A i \in 0..(K - 1) : relay[i] = "exited"
    <3>1. relay[K] = "recv" /\ Closed(K)
      BY DEF RecvClosed, SeeDone
    <3>2. CASE K = 0
      BY <3>1, <3>2 DEF Closed
    <3>3. CASE K # 0
      <4>1. K - 1 \in Relays /\ relay[K - 1] = "exited"
        BY <3>1, <3>3 DEF Closed, Relays
      <4>2. producer = "exited" /\ \A i \in 0..((K - 1) - 1) : relay[i] = "exited"
        BY <1>1, <4>1 DEF EndsInTurn
      <4>3. QED  BY <3>1, <4>1, <4>2 DEF Relays
    <3>4. QED  BY <3>2, <3>3
  <2>2. next = N + 1
    BY <1>1, <2>1 DEF EndsInTurn
  <2>3. \A l \in (-1 + 1)..((K + 1) - 1) : Through(l)
    BY <2>1 DEF Through
  <2>4. -1 \in Places /\ K + 1 \in Places /\ Loaded(-1) /\ Loaded(K + 1)
    BY DEF Places, Loaded
  <2>5. Value(-1) = Value(K + 1) + 1
    BY <1>1, <2>3, <2>4 DEF Gapless
  <2>6. Value(-1) = next /\ Value(K + 1) = Len(out) /\ Len(out) \in Nat
    BY <1>1, LenProperties DEF Value, TypeOK
  <2>7. QED  BY <2>2, <2>5, <2>6
<1>4. QED  BY <1>2, <1>3 DEF Stream!Close

\* What the reader of the pipeline's output sees is the ordered stream: every
\* step takes the next input, delivers the next result, closes done, closes the
\* output after the last result or after done, or is not seen (README.md).
THEOREM Implements == Spec => RefinesStream
<1>1. Init => Stream!Init
  BY PipelineAssumption DEF Init, Relays, Stream!Init
<1>2. Inv /\ [Next]_vars => [Stream!Next]_Stream!vars
  <2> SUFFICES ASSUME Inv, [Next]_vars PROVE [Stream!Next]_Stream!vars
    OBVIOUS
  <2> USE PipelineAssumption
  <2>1. TypeOK /\ InOrder /\ Gapless /\ K \in Relays
    BY DEF Inv, Relays
  <2>2. CASE Feed
    <3>1. (relay'[K] = "exited") = (relay[K] = "exited")
      BY <2>1, <2>2 DEF Feed, TypeOK
    <3>2. Stream!Take
      BY <2>1, <2>2, <3>1 DEF Feed, TypeOK, Stream!Take
    <3>3. QED  BY <3>2 DEF Stream!Next
  <2>3. CASE Consume /\ UNCHANGED doneAware
    <3>1. out' = Append(out, <<Len(out) + 1, K>>)
      BY <2>3, ConsumeKeeps
    <3>2. Len(out) + 1 < next /\ Len(out) \in Nat /\ next \in Nat
      BY <2>1, <2>3, NextOfStream, LenProperties DEF Consume, TypeOK
    <3>3. /\ relay[K] = "send" /\ relay'[K] = "recv"
          /\ next' = next /\ done' = done
      BY <2>1, <2>3 DEF Consume, TypeOK
    <3>4. QED
      BY <3>1, <3>2, <3>3 DEF Stream!Next, Stream!Deliver
  <2>4. CASE Stop
    BY <2>4 DEF Stop, Stream!Stop, Stream!Next
  <2>5. CASE RecvClosed(K) \/ SeeDone(K)
    BY <2>5, LastEndMapped DEF Stream!Next
  <2>6. ASSUME NEW m \in Relays, m # K, RecvClosed(m) \/ SeeDone(m)
        PROVE  UNCHANGED Stream!vars
    BY <2>1, <2>6 DEF RecvClosed, SeeDone, RelayGoto, TypeOK, Stream!vars
  <2>7. ASSUME NEW m \in Relays, Pass(m)
        PROVE  UNCHANGED Stream!vars
    <3>1. (relay'[K] = "exited") = (relay[K] = "exited")
      BY <2>1, <2>7 DEF Pass, TypeOK, Relays
    <3>2. QED  BY <2>7, <3>1 DEF Pass, Stream!vars
  <2>8. CASE ProducerReturn \/ ConsumerEnd \/ Leave \/ UNCHANGED vars
    BY <2>8 DEF ProducerReturn, ConsumerEnd, Leave, vars, Stream!vars
  <2>9. QED
    BY <2>2, <2>3, <2>4, <2>5, <2>6, <2>7, <2>8
       DEF Next, Producer, Relay, Consumer, Finished
<1>3. QED  BY <1>1, <1>2, InvHolds, PTL DEF Spec, RefinesStream, Stream!Spec
=============================================================================
