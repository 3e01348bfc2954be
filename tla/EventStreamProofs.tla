------------------------- MODULE EventStreamProofs -------------------------
(***************************************************************************)
(* The event stream delivers every event once and in order, for every      *)
(* number of events, perspective and number of attempts.                   *)
(***************************************************************************)
EXTENDS EventStream, TLAPS

LEMMA InitType == Init => TypeOK
<1> SUFFICES ASSUME Init PROVE TypeOK OBVIOUS
<1> USE StreamAssumption DEF Init
<1>1. delivered \in Seq(Visible)
  OBVIOUS
<1>2. lastSize \in (-1..Total) \X {"none", "part", "line"}
  OBVIOUS
<1>3. lines \in 0..Total /\ pos \in 0..Total /\ upto \in 0..Total /\ count \in 0..Total
  OBVIOUS
<1>4. tries \in 0..Tries
  OBVIOUS
<1>5. QED
  BY <1>1, <1>2, <1>3, <1>4 DEF TypeOK

(* A read in progress has an attempt left, and never more than what is on  *)
(* disk has been read or passed on.                                        *)
Bounds == /\ at = "read" => tries < Tries
          /\ pos = count /\ count <= upto /\ upto <= Readable
TypeInv == TypeOK /\ Bounds

LEMMA PassType ==
  ASSUME delivered \in Seq(Visible), NEW e, Pass(e)
  PROVE  delivered' \in Seq(Visible)
  BY DEF Pass

LEMMA NextType == TypeInv /\ [Next]_vars => TypeInv'
<1> SUFFICES ASSUME TypeInv, [Next]_vars PROVE TypeInv' OBVIOUS
<1> USE StreamAssumption DEF TypeInv, TypeOK, Bounds, Readable
<1>1. CASE Emit
  <2>1. UNCHANGED streamVars
    BY <1>1 DEF Emit, Grow, streamVars
  <2>2. /\ status' = status /\ lines' \in 0..Total /\ tail' \in {"none", "part", "line"}
        /\ tail' # "none" => lines' < Total
    BY <1>1 DEF Emit, Grow
  <2>3. Readable <= Readable'
    BY <1>1 DEF Emit, Grow
  <2>4. TypeOK'
    BY <2>1, <2>2 DEF streamVars, batch, sent
  <2>5. Bounds'
    <3>1. /\ at' = at /\ tries' = tries /\ pos' = pos /\ upto' = upto /\ count' = count
      BY <2>1 DEF streamVars, batch, sent
    <3>2. Readable \in Nat
      OBVIOUS
    <3>3. Readable' \in Nat
      <4>1. PICK n \in 0..Total : n = lines'
        BY <2>2
      <4>2. n \in Nat /\ n + 1 \in Nat
        BY ONLY StreamAssumption
      <4>3. Readable' = n \/ Readable' = n + 1
        BY ONLY <4>1 DEF Readable
      <4>4. QED
        BY ONLY <4>2, <4>3
    <3>4. QED
      BY <2>3, <3>1, <3>2, <3>3
  <2>6. QED
    BY <2>4, <2>5
<1>2. CASE EndRun \/ Interrupt
  BY <1>2 DEF EndRun, Interrupt, streamVars, batch, sent
<1>3. CASE Hello \/ ReadStatus \/ ReadBreaks \/ Sleep \/ Drain \/ Close \/ Disconnect
  BY <1>3 DEF Hello, ReadStatus, ReadBreaks, Sleep, Drain, Close, Disconnect, Goes, AllSent,
              run, batch, sent
<1>4. CASE Stat \/ StatFails
  <2>1. /\ UNCHANGED <<run, current, sent, draining>>
        /\ NewBatch /\ at' \in {"read", "send"}
    BY <1>4 DEF Stat, StatFails, Goes
  <2>2. lastSize' \in (-1..Total) \X {"none", "part", "line"}
    BY <1>4 DEF Stat, StatFails, Size
  <2>3. failed' \subseteq {"stat", "read"}
    BY <1>4 DEF Stat, StatFails
  <2>4. QED
    BY <2>1, <2>2, <2>3 DEF NewBatch, run, sent
<1>5. CASE ReadEvents
  BY <1>5 DEF ReadEvents, Goes, run, sent
<1>6. CASE ReadFails
  BY <1>6 DEF ReadFails, Goes, run, batch, sent
<1>7. CASE Send
  <2>1. delivered' \in Seq(Visible)
    BY <1>7, PassType DEF Send
  <2>2. QED
    BY <1>7, <2>1 DEF Send, run
<1>8. CASE UNCHANGED vars
  BY <1>8 DEF vars, run, batch, sent
<1>9. QED
  BY <1>1, <1>2, <1>3, <1>4, <1>5, <1>6, <1>7, <1>8 DEF Next, Stream

(* The stream's variables, its position and the file are well typed, and   *)
(* no event is ever sent that the file does not hold.                      *)
THEOREM StreamTypeCorrect == Spec => []TypeOK
<1>1. Init => TypeInv
  BY InitType, StreamAssumption DEF Init, TypeInv, Bounds, Readable
<1>2. TypeInv => TypeOK
  BY DEF TypeInv
<1>3. QED
  BY <1>1, <1>2, NextType, PTL DEF Spec

---------------------------------------------------------------------------
(* The loop's position in the batch and the count of events passed on are  *)
(* the same number, so a batch starts right behind the last event sent.    *)

LEMMA PassInOrder ==
  ASSUME TypeInv, InOrder, count < Total, count' = count + 1, Pass(count + 1)
  PROVE  InOrder'
<1>1. CASE count + 1 \in Visible
  <2>1. delivered' = Append(delivered, count + 1)
    BY <1>1 DEF Pass
  <2>2. /\ DOMAIN delivered' = 1..(Len(delivered) + 1)
        /\ \A i \in DOMAIN delivered : delivered'[i] = delivered[i]
        /\ delivered'[Len(delivered) + 1] = count + 1
        /\ DOMAIN delivered = 1..Len(delivered) /\ Len(delivered) \in Nat
    BY <2>1 DEF TypeInv, TypeOK
  <2>3. \A i \in DOMAIN delivered : delivered[i] \in Visible \cap 1..count
    BY DEF InOrder, Received
  <2>4. \A i, j \in DOMAIN delivered' : i < j => delivered'[i] < delivered'[j]
    <3> SUFFICES ASSUME NEW i \in DOMAIN delivered', NEW j \in DOMAIN delivered', i < j
                 PROVE  delivered'[i] < delivered'[j]
      OBVIOUS
    <3>1. CASE j \in DOMAIN delivered
      <4>1. i \in DOMAIN delivered
        BY <2>2, <3>1
      <4>2. QED
        BY <2>2, <3>1, <4>1 DEF InOrder
    <3>2. CASE j = Len(delivered) + 1
      <4>1. i \in DOMAIN delivered
        BY <2>2, <3>2
      <4>2. delivered'[i] \in 1..count /\ delivered'[j] = count + 1
        BY <2>2, <2>3, <3>2, <4>1
      <4>3. QED
        BY <4>2 DEF TypeInv, TypeOK
    <3>3. QED
      BY <2>2, <3>1, <3>2
  <2>5. Received' = Received \cup {count + 1}
    <3>1. Received' = {delivered'[i] : i \in DOMAIN delivered'}
      BY DEF Received
    <3>2. DOMAIN delivered' = DOMAIN delivered \cup {Len(delivered) + 1}
      BY <2>2
    <3>3. QED
      BY <2>2, <3>1, <3>2 DEF Received
  <2>6. Visible \cap 1..(count + 1) = (Visible \cap 1..count) \cup {count + 1}
    BY <1>1 DEF TypeInv, TypeOK
  <2>7. QED
    BY <2>4, <2>5, <2>6 DEF InOrder
<1>2. CASE count + 1 \notin Visible
  <2>1. delivered' = delivered
    BY <1>2 DEF Pass
  <2>2. Visible \cap 1..(count + 1) = Visible \cap 1..count
    BY <1>2 DEF TypeInv, TypeOK
  <2>3. QED
    BY <2>1, <2>2 DEF InOrder, Received
<1>3. QED
  BY <1>1, <1>2

LEMMA NextInOrder == TypeInv /\ InOrder /\ [Next]_vars => InOrder'
<1> SUFFICES ASSUME TypeInv, InOrder, [Next]_vars PROVE InOrder' OBVIOUS
<1>1. CASE Send
  <2>1. count < Total /\ count' = count + 1 /\ Pass(count + 1)
    BY <1>1, StreamAssumption DEF Send, TypeInv, TypeOK, Bounds
  <2>2. QED
    BY <2>1, PassInOrder
<1>2. CASE UNCHANGED sent
  BY <1>2 DEF sent, InOrder, Received
<1>3. QED
  BY <1>1, <1>2
  DEF Next, Stream, Emit, Grow, EndRun, Interrupt, Hello, ReadStatus, Stat, StatFails,
      ReadEvents, ReadFails, ReadBreaks, Sleep, Drain, Close, Disconnect, streamVars, vars

(* Events reach the client in order and once each, and none that it may    *)
(* see is passed over.                                                     *)
THEOREM InOrderHolds == Spec => []InOrder
<1>1. Init => TypeInv /\ InOrder
  BY InitType, StreamAssumption DEF Init, TypeInv, Bounds, Readable, InOrder, Received
<1>2. QED
  BY <1>1, NextType, NextInOrder, PTL DEF Spec

---------------------------------------------------------------------------
(* The end.  Once the run ended the file is full and stays so; a size      *)
(* remembered of the full file stands for a read that succeeded, unless a  *)
(* refused read is on record; and a batch sent under the status "ended"    *)
(* comes behind such a size, unless a refused stat is.                     *)
Full == <<Total, "none">>
FullInv ==
  /\ status = "ended" => Size = Full
  /\ current = "ended" => status = "ended"
  /\ lastSize = Full => Size = Full
  /\ at = "read" => "stat" \notin failed
  /\ lastSize = Full /\ at = "send" => upto = Total \/ "read" \in failed
  /\ lastSize = Full /\ at \in {"hello", "status", "stat", "closed"}
       => count = Total \/ "read" \in failed
  /\ current = "ended" /\ at \in {"read", "send", "closed"}
       => lastSize = Full \/ "stat" \in failed

LEMMA NextFull == TypeInv /\ FullInv /\ [Next]_vars => FullInv'
<1> SUFFICES ASSUME TypeInv, FullInv, [Next]_vars PROVE FullInv' OBVIOUS
<1> USE StreamAssumption DEF FullInv, Full, Size
<1>1. CASE Emit
  BY <1>1 DEF Emit, Grow, streamVars, batch, sent, TypeInv, TypeOK
<1>2. CASE EndRun \/ Interrupt
  BY <1>2 DEF EndRun, Interrupt, streamVars, batch, sent
<1>3. CASE Hello \/ ReadStatus \/ ReadBreaks \/ Disconnect
  BY <1>3 DEF Hello, ReadStatus, ReadBreaks, Disconnect, Goes, run, batch, sent
<1>4. CASE Sleep \/ Drain \/ Close
  BY <1>4 DEF Sleep, Drain, Close, AllSent, run, batch, sent, TypeInv, Bounds
<1>5. CASE Stat
  BY <1>5 DEF Stat, NewBatch, Exists, Goes, run, sent
<1>a. CASE StatFails
  BY <1>a DEF StatFails, NewBatch, Goes, run, sent
<1>6. CASE ReadEvents
  BY <1>6 DEF ReadEvents, Readable, Goes, run, sent
<1>7. CASE ReadFails
  BY <1>7 DEF ReadFails, Goes, run, batch, sent
<1>8. CASE Send
  BY <1>8 DEF Send, run
<1>9. CASE UNCHANGED vars
  BY <1>9 DEF vars, run, batch, sent
<1>10. QED
  BY <1>1, <1>2, <1>3, <1>4, <1>5, <1>a, <1>6, <1>7, <1>8, <1>9 DEF Next, Stream

(* A stream that closes after the run's end has delivered everything, if   *)
(* every refusal of a stat or of a read was made good by a later success.  *)
THEOREM NothingLostHolds == Spec => []NothingLost
<1>1. Init => TypeInv /\ InOrder /\ FullInv
  BY InitType, StreamAssumption
  DEF Init, TypeInv, Bounds, Readable, InOrder, Received, FullInv, Full, Size
<1>2. TypeInv /\ InOrder /\ FullInv => NothingLost
  BY StreamAssumption DEF FullInv, InOrder, NothingLost, Drained
<1>3. QED
  BY <1>1, <1>2, NextType, NextInOrder, NextFull, PTL DEF Spec

===========================================================================
