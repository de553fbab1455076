-------------------------- MODULE StreamedRunProofs --------------------------
(***************************************************************************)
(* What a streamed response keeps, for any bound on its pieces of output:  *)
(* in both modes, by both endpoints, wherever its client leaves, its       *)
(* provider fails or the process dies.                                     *)
(*                                                                         *)
(* None of the properties is inductive: they speak of money, frames and    *)
(* rows, and none of where the generators are.  MoneyInv says at which     *)
(* places an attempt holds money and a request can have ended.  FramesInv  *)
(* says that the frames are the opening, some pieces of output and the     *)
(* first frames of the ending that belongs to the state on record -- and   *)
(* that the frames still to be sent are the rest of it.                    *)
(***************************************************************************)
EXTENDS StreamedRun, SequenceTheorems, FiniteSetTheorems, TLAPS

Told == Failed \cup {"SUCCEEDED"}

MoneyInv ==
  /\ pc \in {"headers", "opened", "recorded", "running"} => hold = "none"
  /\ pc = "recorded" => outcome = "null"
  /\ pc \in {"streaming", "yielding", "resolving"} => hold = "ACTIVE"
  /\ hold = "ACTIVE" => pc \in {"streaming", "yielding", "resolving", "dead"} /\ state = "READY"
  /\ pc \notin {"telling", "replaying", "closed", "dead"} => state = "READY"
  /\ pc \in {"telling", "replaying"} => state \in Told
  /\ pc = "resolving" => ending \in {"complete", "failure", "fault", "cancelled"}
  /\ pc = "finishing" /\ ending = "denied" => final = "REJECTED_BUDGET"
  /\ pc = "terminating" => final \in Terminal /\ (ending # "cancelled" => final \in Told)
  /\ VisibleIsChargedUnlessFault

Frame == {"role", "created", "delta", "finish", "usage", "done", "completed", "error"}

Ending == LastFrames(state)

\* The frames are the opening, n pieces and k frames of the ending.
Written(n, k) ==
  /\ Len(frames) = 1 + n + k
  /\ frames[1] = Opening
  /\ \A i \in 2..(n + 1) : frames[i] = "delta"
  /\ \A j \in 1..k : frames[n + 1 + j] = Ending[j]

FramesInv ==
  /\ frames \in Seq(Frame)
  /\ pc = "headers" => frames = <<>>
  /\ pc \notin {"headers", "closed", "dead"} => frames # <<>>
  /\ pc = "replaying" => toSend = Ending
  /\ frames # <<>> =>
       \E n \in 0..MaxDeltas, k \in 0..Len(Ending) :
         /\ Written(n, k)
         /\ pc = "telling" => toSend = SubSeq(Ending, k + 1, Len(Ending))
         /\ k > 0 => state \in Told /\ pc \in {"telling", "closed", "dead"}

StreamInv == TypeOK /\ MoneyInv /\ FramesInv

-----------------------------------------------------------------------------
(* Types, money and the rows.                                                *)
LEMMA MoneyInit == Init => TypeOK /\ MoneyInv
BY DEF Init, TypeOK, MoneyInv, VisibleIsChargedUnlessFault

(* Up to the pieces of output: money is held before the provider's stream.   *)
LEMMA MoneyOpens ==
  ASSUME TypeOK, MoneyInv, Open \/ Enter \/ Reserve \/ Delta \/ Resume
  PROVE  TypeOK' /\ MoneyInv'
<1> USE DEF TypeOK, MoneyInv, VisibleIsChargedUnlessFault, Told, Failed, Terminal,
            vars, fixed, wire, provider, rows
<1>1. CASE Open
  BY <1>1 DEF Open, Send
<1>2. CASE Enter
  BY <1>2 DEF Enter
<1>3. CASE Reserve
  BY <1>3 DEF Reserve
<1>4. CASE Delta
  BY <1>4 DEF Delta, Send
<1>5. CASE Resume
  BY <1>5 DEF Resume
<1>6. QED
  BY <1>1, <1>2, <1>3, <1>4, <1>5

(* From the stream's end to the record: resolved before the attempt is       *)
(* finished, which is before the request is ended.                           *)
LEMMA MoneyResolves ==
  ASSUME TypeOK, MoneyInv, StreamEnds \/ Resolve \/ Finish \/ Judge \/ Terminate
  PROVE  TypeOK' /\ MoneyInv'
<1> USE DEF TypeOK, MoneyInv, VisibleIsChargedUnlessFault, Told, Failed, Terminal,
            vars, fixed, wire, provider, rows
<1>1. CASE StreamEnds
  BY <1>1 DEF StreamEnds
<1>2. CASE Resolve
  BY <1>2 DEF Resolve, Charged
<1>3. CASE Finish
  BY <1>3 DEF Finish
<1>4. CASE Judge
  BY <1>4 DEF Judge
<1>5. CASE Terminate
  BY <1>5 DEF Terminate
<1>6. QED
  BY <1>1, <1>2, <1>3, <1>4, <1>5

(* The frames of an ending, a buffered run, and what may happen anywhere.     *)
LEMMA MoneyRests ==
  ASSUME TypeOK, MoneyInv, Tell \/ RunEnds \/ Replay \/ Disconnect \/ Unwind \/ CloseDropped \/ Crash
  PROVE  TypeOK' /\ MoneyInv'
<1> USE DEF TypeOK, MoneyInv, VisibleIsChargedUnlessFault, Told, Failed, Terminal,
            vars, fixed, wire, provider, rows
<1>1. CASE Tell
  BY <1>1 DEF Tell, Send
<1>2. CASE RunEnds
  BY <1>2 DEF RunEnds
<1>3. CASE Replay
  BY <1>3 DEF Replay, Send
<1>4. CASE Disconnect
  BY <1>4 DEF Disconnect
<1>5. CASE Unwind
  BY <1>5 DEF Unwind, LeaveSource
<1>6. CASE CloseDropped
  BY <1>6 DEF CloseDropped
<1>7. CASE Crash
  BY <1>7 DEF Crash
<1>8. QED
  BY <1>1, <1>2, <1>3, <1>4, <1>5, <1>6, <1>7

-----------------------------------------------------------------------------
(* The frames.                                                               *)
LEMMA Endings ==
  ASSUME TypeOK
  PROVE  /\ Opening \in Frame \ {"delta"}
         /\ Ending \in {Success, Failure}
         /\ Success \in Seq(Frame) /\ Failure \in Seq(Frame)
         /\ Ending \in Seq(Frame) /\ Len(Ending) \in Nat \ {0}
<1>1. Ending \in {Success, Failure}
  BY DEF Ending, LastFrames
<1>2. Opening \in Frame \ {"delta"}
  BY DEF TypeOK, Opening, Frame
<1>3. Success \in Seq(Frame) /\ Len(Success) \in Nat \ {0}
  <2>1. <<"finish", "usage", "done">> \in Seq(Frame) /\ <<"completed">> \in Seq(Frame)
    BY DEF Frame
  <2>2. Success \in {<<"finish", "usage", "done">>, <<"completed">>}
    BY DEF Success
  <2>3. Len(<<"finish", "usage", "done">>) = 3 /\ Len(<<"completed">>) = 1
    OBVIOUS
  <2>4. CASE Success = <<"finish", "usage", "done">>
    BY <2>1, <2>3, <2>4
  <2>5. CASE Success = <<"completed">>
    BY <2>1, <2>3, <2>5
  <2>6. QED
    BY <2>2, <2>4, <2>5
<1>4. Failure \in Seq(Frame) /\ Len(Failure) \in Nat \ {0}
  BY DEF TypeOK, Failure, Frame
<1>5. QED
  BY <1>1, <1>2, <1>3, <1>4

(* A step that writes no frame, ends no request and starts no ending.        *)
LEMMA QuietFrames ==
  ASSUME FramesInv, UNCHANGED <<api, frames, state>>,
         \/ pc' = pc /\ toSend' = toSend
         \/ /\ pc' \notin {"headers", "telling", "replaying"}
            /\ pc \in {"headers", "telling", "closed", "dead"} => pc' \in {"closed", "dead"}
  PROVE  FramesInv'
<1>1. Ending' = Ending /\ Opening' = Opening
  BY DEF Ending, LastFrames, Success, Failure, Opening
<1>2. \A n \in 0..MaxDeltas, k \in 0..Len(Ending) : Written(n, k) => Written(n, k)'
  BY <1>1 DEF Written
<1>3. frames' # <<>> =>
        \E n \in 0..MaxDeltas, k \in 0..Len(Ending') :
          /\ Written(n, k)'
          /\ pc' = "telling" => toSend' = SubSeq(Ending', k + 1, Len(Ending'))
          /\ k > 0 => state' \in Told /\ pc' \in {"telling", "closed", "dead"}
  <2>1. SUFFICES ASSUME frames # <<>>
                 PROVE \E n \in 0..MaxDeltas, k \in 0..Len(Ending) :
                         /\ Written(n, k)'
                         /\ pc' = "telling" => toSend' = SubSeq(Ending, k + 1, Len(Ending))
                         /\ k > 0 => state' \in Told /\ pc' \in {"telling", "closed", "dead"}
    BY <1>1
  <2>2. PICK n \in 0..MaxDeltas, k \in 0..Len(Ending) :
          /\ Written(n, k)
          /\ pc = "telling" => toSend = SubSeq(Ending, k + 1, Len(Ending))
          /\ k > 0 => state \in Told /\ pc \in {"telling", "closed", "dead"}
    BY <2>1 DEF FramesInv
  <2>3. QED
    BY <1>2, <2>2
<1>4. QED
  BY <1>1, <1>3 DEF FramesInv

(* While no ending is being sent, the frames are the opening and the pieces.  *)
LEMMA OutputOnly ==
  ASSUME TypeOK, FramesInv, frames # <<>>, pc \notin {"telling", "closed", "dead"}
  PROVE  \E n \in 0..MaxDeltas :
           /\ Written(n, 0) /\ Len(frames) = n + 1
           /\ Deltas = n
<1>1. PICK n \in 0..MaxDeltas, k \in 0..Len(Ending) :
        Written(n, k) /\ (k > 0 => pc \in {"telling", "closed", "dead"})
  BY DEF FramesInv
<1>2. MaxDeltas \in Nat /\ Len(Ending) \in Nat /\ n \in Nat
  BY Endings, DeltasAssumption
<1>3. k = 0
  BY <1>1, <1>2
<1>4. /\ Len(frames) = n + 1 /\ frames[1] = Opening /\ Opening # "delta"
      /\ \A i \in 2..(n + 1) : frames[i] = "delta"
  BY <1>1, <1>2, <1>3, Endings DEF Written
<1>5. {i \in 1..Len(frames) : frames[i] = "delta"} = 2..(n + 1)
  <2>1. ASSUME NEW i \in 1..(n + 1) PROVE i = 1 \/ i \in 2..(n + 1)
    BY <1>2
  <2>2. 2..(n + 1) \subseteq 1..(n + 1)
    BY <1>2
  <2>3. QED
    BY <1>4, <2>1, <2>2
<1>6. Cardinality(2..(n + 1)) = n
  <2>1. Cardinality(2..(n + 1)) = IF 2 > n + 1 THEN 0 ELSE (n + 1) - 2 + 1
    BY <1>2, FS_Interval
  <2>2. QED
    BY <1>2, <2>1
<1>7. QED
  BY <1>1, <1>3, <1>4, <1>5, <1>6 DEF Deltas

(* One more piece of output.                                                 *)
LEMMA PieceFrames ==
  ASSUME TypeOK, FramesInv, Deltas < MaxDeltas, Send("delta"), UNCHANGED <<api, state>>,
         frames # <<>>, pc \notin {"telling", "closed", "dead"},
         pc' \notin {"headers", "telling"}, pc' = "replaying" => toSend' = Ending
  PROVE  FramesInv'
<1>1. Ending' = Ending /\ Opening' = Opening
  BY DEF Ending, LastFrames, Success, Failure, Opening
<1>2. PICK n \in 0..MaxDeltas : Written(n, 0) /\ Len(frames) = n + 1 /\ Deltas = n
  BY OutputOnly
<1>3. n + 1 \in 0..MaxDeltas /\ n \in Nat
  BY <1>2, DeltasAssumption
<1>4. /\ frames' \in Seq(Frame) /\ frames' # <<>>
      /\ Len(frames') = (n + 1) + 1 /\ frames'[(n + 1) + 1] = "delta"
      /\ \A i \in 1..(n + 1) : frames'[i] = frames[i]
  <2>1. frames \in Seq(Frame) /\ "delta" \in Frame /\ frames' = Append(frames, "delta")
    BY DEF FramesInv, Frame, Send
  <2>2. QED
    BY <1>2, <2>1, AppendProperties
<1>5. /\ frames[1] = Opening
      /\ \A i \in 2..(n + 1) : frames[i] = "delta"
  BY <1>2 DEF Written
<1>6. Written(n + 1, 0)'
  <2>1. ASSUME NEW i \in 2..((n + 1) + 1) PROVE frames'[i] = "delta"
    <3>1. (i \in 2..(n + 1) /\ i \in 1..(n + 1)) \/ i = (n + 1) + 1
      BY <1>3
    <3>2. QED
      BY <1>4, <1>5, <3>1
  <2>2. frames'[1] = Opening
    BY <1>3, <1>4, <1>5
  <2>3. Len(frames') = 1 + (n + 1) + 0
    BY <1>3, <1>4
  <2>4. QED
    BY <1>1, <2>1, <2>2, <2>3 DEF Written
<1>7. 0 \in 0..Len(Ending')
  BY <1>1, Endings
<1>8. QED
  BY <1>1, <1>3, <1>4, <1>6, <1>7 DEF FramesInv

(* A request comes to an end: its ending is still to be sent.                *)
LEMMA EndingFrames ==
  ASSUME TypeOK, FramesInv, TypeOK', UNCHANGED <<api, frames>>,
         frames # <<>>, pc \notin {"telling", "closed", "dead"},
         \/ pc' \in {"telling", "replaying"} /\ toSend' = LastFrames(state')
         \/ pc' \notin {"headers", "telling", "replaying"}
  PROVE  FramesInv'
<1>1. Opening' = Opening /\ LastFrames(state') = Ending'
  BY DEF Opening, Ending, LastFrames, Success, Failure
<1>2. PICK n \in 0..MaxDeltas : Written(n, 0)
  BY OutputOnly
<1>3. Written(n, 0)'
  BY <1>1, <1>2 DEF Written
<1>4. Ending' \in Seq(Frame) /\ 0 \in 0..Len(Ending')
  <2>1. LastFrames(state') \in {Success, Failure}
    BY DEF LastFrames
  <2>2. Ending' \in Seq(Frame)
    BY <1>1, <2>1, Endings
  <2>3. QED
    BY <2>2, LenProperties
<1>5. SubSeq(Ending', 0 + 1, Len(Ending')) = Ending'
  BY <1>4, SubSeqFull
<1>6. QED
  BY <1>1, <1>3, <1>4, <1>5 DEF FramesInv

(* The next frame of the ending goes out.                                    *)
LEMMA TellFrames ==
  ASSUME TypeOK, MoneyInv, FramesInv, Tell
  PROVE  FramesInv'
<1>1. /\ Ending' = Ending /\ Opening' = Opening /\ pc = "telling" /\ toSend # <<>>
      /\ frames' = Append(frames, Head(toSend)) /\ toSend' = Tail(toSend)
      /\ pc' \in {"telling", "closed"} /\ state' = state
  BY DEF Tell, Send, Ending, LastFrames, Success, Failure, Opening, fixed, rows
<1>2. PICK n \in 0..MaxDeltas, k \in 0..Len(Ending) :
        Written(n, k) /\ toSend = SubSeq(Ending, k + 1, Len(Ending))
  BY <1>1 DEF FramesInv
<1>3. /\ Ending \in Seq(Frame) /\ Len(Ending) \in Nat
      /\ MaxDeltas \in Nat /\ n \in Nat /\ k \in Nat
  BY Endings, DeltasAssumption
<1>4. k + 1 \in 1..Len(Ending)
  <2>1. CASE Len(Ending) < k + 1
    <3>1. SubSeq(Ending, k + 1, Len(Ending)) = <<>>
      BY <1>3, <2>1, SubSeqEmpty
    <3>2. QED
      BY <1>1, <1>2, <3>1
  <2>2. QED
    BY <1>3, <2>1
<1>5. /\ Head(toSend) = Ending[k + 1]
      /\ Tail(toSend) = SubSeq(Ending, (k + 1) + 1, Len(Ending))
  <2>1. Len(Ending) \in (k + 1)..Len(Ending)
    BY <1>3, <1>4
  <2>2. QED
    BY <1>2, <1>3, <1>4, <2>1, HeadTailOfSubSeq
<1>6. /\ frames \in Seq(Frame) /\ Len(frames) = 1 + n + k /\ frames[1] = Opening
      /\ \A i \in 2..(n + 1) : frames[i] = "delta"
      /\ \A j \in 1..k : frames[n + 1 + j] = Ending[j]
  BY <1>2 DEF FramesInv, Written
<1>7. /\ frames' \in Seq(Frame) /\ frames' # <<>>
      /\ Len(frames') = 1 + n + (k + 1) /\ frames'[n + 1 + (k + 1)] = Ending[k + 1]
      /\ \A i \in 1..(1 + n + k) : frames'[i] = frames[i]
  <2>1. Ending[k + 1] \in Frame /\ frames' = Append(frames, Ending[k + 1])
    <3>1. Ending[k + 1] \in Frame
      BY <1>3, <1>4, ElementOfSeq
    <3>2. frames' = Append(frames, Head(toSend)) /\ Head(toSend) = Ending[k + 1]
      BY <1>1, <1>5
    <3>3. QED
      BY <3>1, <3>2, Zenon
  <2>2. /\ frames' \in Seq(Frame) /\ frames' # <<>>
        /\ Len(frames') = (1 + n + k) + 1 /\ frames'[(1 + n + k) + 1] = Ending[k + 1]
        /\ \A i \in 1..(1 + n + k) : frames'[i] = frames[i]
    <3> PICK e \in Frame : e = Ending[k + 1]
      BY <2>1
    <3>1. frames' = Append(frames, e)
      BY <2>1
    <3>2. /\ frames' \in Seq(Frame) /\ frames' # <<>>
          /\ Len(frames') = Len(frames) + 1 /\ frames'[Len(frames) + 1] = e
          /\ \A i \in 1..Len(frames) : frames'[i] = frames[i]
      <4>1. frames \in Seq(Frame)
        BY <1>6
      <4>2. QED
        BY <3>1, <4>1, AppendProperties
    <3>3. QED
      BY <1>6, <3>2
  <2>3. (1 + n + k) + 1 = 1 + n + (k + 1) /\ (1 + n + k) + 1 = n + 1 + (k + 1)
    BY <1>3
  <2>4. QED
    BY <2>2, <2>3
<1>8. Written(n, k + 1)'
  <2>1. frames'[1] = Opening
    BY <1>3, <1>6, <1>7
  <2>2. ASSUME NEW i \in 2..(n + 1) PROVE frames'[i] = "delta"
    <3>1. i \in 1..(1 + n + k)
      BY <1>3
    <3>2. QED
      BY <1>6, <1>7, <3>1
  <2>3. ASSUME NEW j \in 1..(k + 1) PROVE frames'[n + 1 + j] = Ending[j]
    <3>1. CASE j = k + 1
      BY <1>7, <3>1
    <3>2. CASE j \in 1..k
      <4>1. n + 1 + j \in 1..(1 + n + k)
        BY <1>3, <3>2
      <4>2. QED
        BY <1>6, <1>7, <3>2, <4>1
    <3>3. QED
      BY <1>3, <3>1, <3>2
  <2>4. QED
    BY <1>1, <1>7, <2>1, <2>2, <2>3 DEF Written
<1>9. state \in Told
  BY <1>1 DEF MoneyInv
<1>10. k + 1 \in 0..Len(Ending)
  BY <1>3, <1>4
<1>11. QED
  BY <1>1, <1>5, <1>7, <1>8, <1>9, <1>10 DEF FramesInv

(* The first frame.                                                          *)
LEMMA OpenFrames ==
  ASSUME TypeOK, FramesInv, Open
  PROVE  FramesInv'
<1>1. /\ Ending' = Ending /\ Opening' = Opening /\ frames = <<>>
      /\ frames' = Append(frames, Opening) /\ pc' = "opened"
  BY DEF Open, Send, FramesInv, Ending, LastFrames, Success, Failure, Opening, fixed, rows
<1>2. /\ frames' \in Seq(Frame) /\ frames' # <<>>
      /\ Len(frames') = 1 /\ frames'[1] = Opening
  <2>1. <<>> \in Seq(Frame) /\ Len(<<>>) = 0 /\ Opening \in Frame
    BY EmptySeq, Endings
  <2>2. QED
    BY <1>1, <2>1, AppendProperties
<1>3. Written(0, 0)'
  BY <1>1, <1>2 DEF Written
<1>4. 0 \in 0..MaxDeltas /\ 0 \in 0..Len(Ending')
  BY <1>1, DeltasAssumption, Endings
<1>5. QED
  BY <1>1, <1>2, <1>3, <1>4 DEF FramesInv

LEMMA FramesStep ==
  ASSUME TypeOK, MoneyInv, FramesInv, [Next]_vars, TypeOK'
  PROVE  FramesInv'
<1> USE DEF fixed, wire, provider, rows
<1>1. CASE Open
  BY <1>1, OpenFrames
<1>2. CASE Enter \/ Reserve \/ Resume \/ StreamEnds \/ Resolve \/ Finish \/ Judge
  BY <1>2, QuietFrames DEF Enter, Reserve, Resume, StreamEnds, Resolve, Finish, Judge
<1>3. CASE Unwind \/ Disconnect \/ CloseDropped \/ Crash
  BY <1>3, QuietFrames DEF Unwind, Disconnect, CloseDropped, Crash
<1>4. CASE UNCHANGED vars
  BY <1>4, QuietFrames DEF vars
<1>5. CASE Delta
  <2>1. frames # <<>>
    BY <1>5 DEF Delta, FramesInv
  <2>2. CASE Send("delta")
    BY <1>5, <2>1, <2>2, PieceFrames DEF Delta
  <2>3. CASE frames' = frames
    BY <1>5, <2>3, QuietFrames DEF Delta
  <2>4. QED
    BY <1>5, <2>2, <2>3 DEF Delta
<1>6. CASE RunEnds
  <2>1. frames # <<>> /\ pc' \in {"telling", "replaying"}
    BY <1>6 DEF RunEnds, FramesInv
  <2>2. QED
    BY <1>6, <2>1, EndingFrames DEF RunEnds
<1>7. CASE Terminate
  <2>1. frames # <<>> /\ state' = final
    BY <1>7 DEF Terminate, FramesInv
  <2>2. QED
    BY <1>7, <2>1, EndingFrames DEF Terminate
<1>8. CASE Replay
  <2>1. frames # <<>> /\ toSend = LastFrames(state) /\ toSend' = toSend /\ state' = state
    BY <1>8 DEF Replay, FramesInv, Ending
  <2>2. CASE Deltas < MaxDeltas /\ Send("delta") /\ UNCHANGED pc
    BY <1>8, <2>1, <2>2, PieceFrames DEF Replay, Ending
  <2>3. CASE pc' = "telling" /\ UNCHANGED frames
    BY <1>8, <2>1, <2>3, EndingFrames DEF Replay
  <2>4. QED
    BY <1>8, <2>2, <2>3 DEF Replay
<1>9. CASE Tell
  BY <1>9, TellFrames
<1>10. QED
  BY <1>1, <1>2, <1>3, <1>4, <1>5, <1>6, <1>7, <1>8, <1>9 DEF Next, Progress

-----------------------------------------------------------------------------
(* What the client has seen.                                                 *)

(* A whole response with n pieces of output, and what it is frame by frame.   *)
Response(first, n, last) == <<first>> \o [i \in 1..n |-> "delta"] \o last

IsResponse(whole, first, n, last) ==
  /\ whole \in Seq(Frame) /\ Len(whole) = 1 + n + Len(last)
  /\ whole[1] = first
  /\ \A i \in 2..(n + 1) : whole[i] = "delta"
  /\ \A j \in 1..Len(last) : whole[n + 1 + j] = last[j]

LEMMA ResponseFrames ==
  ASSUME NEW n \in Nat, NEW first \in Frame, NEW last \in Seq(Frame)
  PROVE  IsResponse(Response(first, n, last), first, n, last)
<1> DEFINE pieces == [i \in 1..n |-> "delta"]
           body   == <<first>> \o pieces
           whole  == Response(first, n, last)
<1>1. pieces \in Seq(Frame) /\ Len(pieces) = n
  <2>1. pieces \in [1..n -> Frame]
    BY DEF Frame
  <2> HIDE DEF pieces
  <2>2. pieces \in Seq(Frame)
    <3>1. [1..n -> Frame] \in {[1..m -> Frame] : m \in Nat}
      OBVIOUS
    <3>2. pieces \in UNION {[1..m -> Frame] : m \in Nat}
      BY <2>1, <3>1, Zenon
    <3>3. QED
      BY <3>2, SeqDef, Zenon
  <2>3. 1..Len(pieces) = 1..n /\ Len(pieces) \in Nat
    <3>1. DOMAIN pieces = 1..n
      BY <2>1
    <3>2. QED
      BY <2>2, <3>1, LenProperties
  <2>4. QED
    BY <2>2, <2>3
<1>2. <<first>> \in Seq(Frame) /\ Len(<<first>>) = 1 /\ <<first>>[1] = first
  OBVIOUS
<1>3. \A i \in 1..n : pieces[i] = "delta"
  OBVIOUS
<1> HIDE DEF pieces
<1>4. /\ body \in Seq(Frame) /\ Len(body) = 1 + n
      /\ \A i \in 1..(1 + n) : body[i] = IF i <= 1 THEN <<first>>[i] ELSE pieces[i - 1]
  BY <1>1, <1>2, ConcatProperties
<1>5. body[1] = first /\ \A i \in 2..(n + 1) : body[i] = "delta"
  <2>1. body[1] = first
    BY <1>2, <1>4
  <2>2. ASSUME NEW i \in 2..(n + 1) PROVE body[i] = "delta"
    <3>1. i \in 1..(1 + n) /\ ~(i <= 1) /\ i - 1 \in 1..n
      OBVIOUS
    <3>2. QED
      BY <1>3, <1>4, <3>1
  <2>3. QED
    BY <2>1, <2>2
<1> HIDE DEF body
<1>6. whole = body \o last /\ Len(last) \in Nat
  BY LenProperties DEF Response, body, pieces
<1> HIDE DEF whole
<1>7. /\ whole \in Seq(Frame) /\ Len(whole) = (1 + n) + Len(last)
      /\ \A i \in 1..((1 + n) + Len(last)) :
           whole[i] = IF i <= 1 + n THEN body[i] ELSE last[i - (1 + n)]
  <2>1. body \in Seq(Frame)
    BY <1>4
  <2>2. /\ whole \in Seq(Frame) /\ Len(whole) = Len(body) + Len(last)
        /\ \A i \in 1..(Len(body) + Len(last)) :
             whole[i] = IF i <= Len(body) THEN body[i] ELSE last[i - Len(body)]
    BY <1>6, <2>1, ConcatProperties
  <2>3. Len(body) = 1 + n
    BY <1>4
  <2>4. QED
    BY <2>2, <2>3
<1>8. whole[1] = first /\ \A i \in 2..(n + 1) : whole[i] = "delta"
  <2>1. ASSUME NEW i \in 1..(n + 1) PROVE whole[i] = body[i]
    <3>1. i \in 1..((1 + n) + Len(last)) /\ i <= 1 + n
      BY <1>6
    <3>2. QED
      BY <1>7, <3>1
  <2>2. 1 \in 1..(n + 1) /\ \A i \in 2..(n + 1) : i \in 1..(n + 1)
    OBVIOUS
  <2>3. QED
    BY <1>5, <2>1, <2>2
<1>9. ASSUME NEW j \in 1..Len(last) PROVE whole[n + 1 + j] = last[j]
  <2>1. /\ n + 1 + j \in 1..((1 + n) + Len(last)) /\ ~(n + 1 + j <= 1 + n)
        /\ (n + 1 + j) - (1 + n) = j
    BY <1>6
  <2>2. QED
    BY <1>7, <2>1
<1>10. IsResponse(whole, first, n, last)
  BY <1>7, <1>8, <1>9 DEF IsResponse
<1>11. QED
  BY <1>10 DEF whole

(* Frames that agree with a response as far as they go are a beginning of it. *)
LEMMA PrefixOf ==
  ASSUME NEW s \in Seq(Frame), NEW t \in Seq(Frame), Len(s) <= Len(t),
         \A i \in 1..Len(s) : s[i] = t[i]
  PROVE  IsPrefix(s, t)
<1>1. Len(s) \in Nat /\ Len(t) \in Nat
  BY LenProperties
<1>2. SubSeq(s, 1, Len(s)) = s
  BY SubSeqFull
<1>3. \A i \in 1..Len(s) : t[i] \in Frame
  BY <1>1, ElementOfSeq
<1>4. /\ SubSeq(t, 1, Len(s)) \in Seq(Frame)
      /\ Len(SubSeq(t, 1, Len(s))) = IF 1 <= Len(s) THEN Len(s) - 1 + 1 ELSE 0
      /\ \A i \in 1..(Len(s) - 1 + 1) : SubSeq(t, 1, Len(s))[i] = t[1 + i - 1]
  <2>1. 1 \in Int /\ Len(s) \in Int
    BY <1>1
  <2>2. QED
    BY <1>3, <2>1, SubSeqProperties
<1>5. Len(SubSeq(t, 1, Len(s))) = Len(s)
  BY <1>1, <1>4
<1>6. \A i \in 1..Len(s) : SubSeq(t, 1, Len(s))[i] = s[i]
  BY <1>1, <1>4
<1>7. SubSeq(t, 1, Len(s)) = s
  BY <1>4, <1>5, <1>6, SeqEqual
<1>8. QED
  BY <1>2, <1>7 DEF IsPrefix

LEMMA FramesAreWell ==
  TypeOK /\ FramesInv => WellFramed
<1> SUFFICES ASSUME TypeOK, FramesInv PROVE WellFramed
  OBVIOUS
<1>1. /\ Ending \in {Success, Failure} /\ Ending \in Seq(Frame) /\ Len(Ending) \in Nat
      /\ Opening \in Frame /\ frames \in Seq(Frame) /\ MaxDeltas \in Nat
  BY Endings, DeltasAssumption DEF FramesInv
<1>2. SUFFICES \E n \in 0..MaxDeltas :
                 IsPrefix(frames, Response(Opening, n, Ending))
  BY <1>1 DEF WellFramed, Response
<1>3. ASSUME NEW n \in 0..MaxDeltas
      PROVE  IsResponse(Response(Opening, n, Ending), Opening, n, Ending)
  <2>1. n \in Nat
    BY <1>1
  <2>2. QED
    BY <1>1, <2>1, ResponseFrames
<1>4. CASE frames = <<>>
  <2> DEFINE whole == Response(Opening, 0, Ending)
  <2>1. 0 \in 0..MaxDeltas
    BY <1>1
  <2>2. whole \in Seq(Frame) /\ Len(whole) = 1 + 0 + Len(Ending)
    BY <1>3, <2>1 DEF IsResponse
  <2>3. Len(frames) = 0 /\ Len(frames) <= Len(whole) /\ \A i : i \notin 1..Len(frames)
    BY <1>1, <1>4, <2>2, EmptySeq
  <2> HIDE DEF whole
  <2>4. IsPrefix(frames, whole)
    BY <1>1, <2>2, <2>3, PrefixOf
  <2>5. QED
    BY <2>1, <2>4 DEF whole
<1>5. CASE frames # <<>>
  <2>1. PICK n \in 0..MaxDeltas, k \in 0..Len(Ending) : Written(n, k)
    BY <1>5 DEF FramesInv
  <2> DEFINE whole == Response(Opening, n, Ending)
  <2>2. /\ whole \in Seq(Frame) /\ Len(whole) = 1 + n + Len(Ending)
        /\ whole[1] = Opening
        /\ \A i \in 2..(n + 1) : whole[i] = "delta"
        /\ \A j \in 1..Len(Ending) : whole[n + 1 + j] = Ending[j]
    BY <1>3 DEF IsResponse
  <2> HIDE DEF whole
  <2>3. /\ Len(frames) = 1 + n + k /\ frames[1] = Opening
        /\ \A i \in 2..(n + 1) : frames[i] = "delta"
        /\ \A j \in 1..k : frames[n + 1 + j] = Ending[j]
        /\ n \in Nat /\ k \in Nat /\ k <= Len(Ending)
    BY <1>1, <2>1 DEF Written
  <2>4. ASSUME NEW i \in 1..Len(frames) PROVE frames[i] = whole[i]
    <3>1. CASE i = 1
      BY <2>2, <2>3, <3>1
    <3>2. CASE i \in 2..(n + 1)
      BY <2>2, <2>3, <3>2
    <3>3. CASE i > n + 1
      <4>1. /\ i - (n + 1) \in 1..k /\ i - (n + 1) \in 1..Len(Ending)
            /\ n + 1 + (i - (n + 1)) = i
        BY <1>1, <2>3, <3>3
      <4>2. QED
        BY <2>2, <2>3, <4>1
    <3>4. QED
      BY <2>3, <3>1, <3>2, <3>3
  <2>5. Len(frames) <= Len(whole)
    BY <1>1, <2>2, <2>3
  <2>6. IsPrefix(frames, whole)
    BY <1>1, <2>2, <2>4, <2>5, PrefixOf
  <2>7. QED
    BY <2>6 DEF whole
<1>6. QED
  BY <1>4, <1>5

(* A frame that only an ending has is one of the ending on record.           *)
LEMMA FramesTell ==
  TypeOK /\ FramesInv => ToldTheTruth
<1> SUFFICES ASSUME TypeOK, FramesInv PROVE ToldTheTruth
  OBVIOUS
<1>1. ASSUME NEW f, f \notin {Opening, "delta"}, Contains(frames, f)
      PROVE  state \in Told /\ \E j \in 1..Len(Ending) : Ending[j] = f
  <2>1. PICK i \in 1..Len(frames) : frames[i] = f
    BY <1>1 DEF Contains
  <2>2. frames # <<>> /\ Len(Ending) \in Nat /\ MaxDeltas \in Nat
    BY <2>1, EmptySeq, Endings, DeltasAssumption
  <2>3. PICK n \in 0..MaxDeltas, k \in 0..Len(Ending) :
          Written(n, k) /\ (k > 0 => state \in Told)
    BY <2>2 DEF FramesInv
  <2>4. /\ Len(frames) = 1 + n + k /\ frames[1] = Opening
        /\ \A l \in 2..(n + 1) : frames[l] = "delta"
        /\ \A j \in 1..k : frames[n + 1 + j] = Ending[j]
        /\ n \in Nat /\ k \in Nat
    BY <2>2, <2>3 DEF Written
  <2>5. i # 1 /\ i \notin 2..(n + 1)
    BY <1>1, <2>1, <2>4
  <2>6. i - (n + 1) \in 1..k /\ n + 1 + (i - (n + 1)) = i
    BY <2>4, <2>5
  <2>7. i - (n + 1) \in 1..Len(Ending) /\ k > 0
    BY <2>2, <2>6
  <2>8. Ending[i - (n + 1)] = f
    BY <2>1, <2>4, <2>6
  <2>9. QED
    BY <2>3, <2>7, <2>8
<1>2. ASSUME NEW j \in 1..Len(Ending), Ending[j] = Head(Success) PROVE state = "SUCCEEDED"
  BY <1>2 DEF TypeOK, Ending, LastFrames, Success, Failure
<1>3. ASSUME NEW j \in 1..Len(Ending), Ending[j] = "error" PROVE state # "SUCCEEDED"
  BY <1>3 DEF TypeOK, Ending, LastFrames, Success, Failure
<1>4. Head(Success) \notin {Opening, "delta"} /\ "error" \notin {Opening, "delta"}
  BY DEF TypeOK, Success, Opening
<1>5. QED
  BY <1>1, <1>2, <1>3, <1>4 DEF ToldTheTruth, Told

-----------------------------------------------------------------------------
LEMMA StreamInit == Init => StreamInv
<1>1. Init => FramesInv
  BY EmptySeq DEF Init, FramesInv
<1>2. QED
  BY <1>1, MoneyInit DEF StreamInv

LEMMA StreamStep == StreamInv /\ [Next]_vars => StreamInv'
<1> SUFFICES ASSUME StreamInv, [Next]_vars PROVE StreamInv'
  OBVIOUS
<1>1. TypeOK /\ MoneyInv /\ FramesInv
  BY DEF StreamInv
<1>2. CASE UNCHANGED vars
  <2>1. TypeOK' /\ MoneyInv'
    BY <1>1, <1>2 DEF vars, fixed, wire, provider, rows, TypeOK, MoneyInv,
                      VisibleIsChargedUnlessFault
  <2>2. QED
    BY <1>1, <2>1, FramesStep DEF StreamInv
<1>3. CASE Next
  <2>1. TypeOK' /\ MoneyInv'
    BY <1>1, <1>3, MoneyOpens, MoneyResolves, MoneyRests DEF Next, Progress
  <2>2. QED
    BY <1>1, <2>1, FramesStep DEF StreamInv
<1>4. QED
  BY <1>2, <1>3

(* The inductive invariant of one stream.                                    *)
THEOREM StreamSafety == Spec => []StreamInv
BY StreamInit, StreamStep, PTL DEF Spec

(* Every variable of a stream keeps its type, and an attempt row is there before
   its hold.                                                                  *)
THEOREM StreamIsTyped == Spec => []TypeOK
<1>1. StreamInv => TypeOK
  BY DEF StreamInv
<1>2. QED
  BY <1>1, StreamSafety, PTL

(* Whatever happens to the stream, the client has received the beginning of a
   response of its protocol, with at most one ending.                         *)
THEOREM StreamIsWellFramed == Spec => []WellFramed
<1>1. StreamInv => WellFramed
  BY FramesAreWell DEF StreamInv
<1>2. QED
  BY <1>1, StreamSafety, PTL

(* The ending the client is told is the state on record.                     *)
THEOREM ClientIsToldTheTruth == Spec => []ToldTheTruth
<1>1. StreamInv => ToldTheTruth
  BY FramesTell DEF StreamInv
<1>2. QED
  BY <1>1, StreamSafety, PTL

(* A request is brought to a terminal state only after its hold is resolved, on
   every path out of the generators.                                          *)
THEOREM EndedStreamHoldsNothing == Spec => []TerminalHoldsNothing
<1>1. StreamInv => TerminalHoldsNothing
  BY DEF StreamInv, MoneyInv, TerminalHoldsNothing, Terminal, Failed
<1>2. QED
  BY <1>1, StreamSafety, PTL

(* What the client was shown is charged, unless the stream broke with an exception
   that is no ProviderFailure.                                                *)
THEOREM ShownIsCharged == Spec => []VisibleIsChargedUnlessFault
<1>1. StreamInv => VisibleIsChargedUnlessFault
  BY DEF StreamInv, MoneyInv
<1>2. QED
  BY <1>1, StreamSafety, PTL
=============================================================================
