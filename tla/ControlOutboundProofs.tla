------------------------ MODULE ControlOutboundProofs ------------------------
(***************************************************************************)
(* Proofs about ControlOutbound: the safety properties its TLC run checks, *)
(* for every limit, record length and number of messages, and that it      *)
(* implements MessageStream.                                               *)
(*                                                                         *)
(* The argument: what the Mac has, the fragments on the wire, the written  *)
(* part of the first record and the backlog are consecutive pieces of one  *)
(* stream (InOrder), in which the record with number k holds the k+1st     *)
(* message.  So the fragment the Mac reads next is always the one it       *)
(* expects.                                                                *)
(***************************************************************************)
EXTENDS ControlOutbound, SequenceTheorems, TLAPS

-----------------------------------------------------------------------------
(* The inductive invariant *)

\* The session goes on until there is a cause, and every sequence number used
\* so far belongs to a message that was taken.
Going ==
  /\ pc = "over" <=> cause # "none"
  /\ pc # "over" => encSeq = Len(sent)

\* The backlog holds the last records made, each with its message; the first
\* may be written in part.
Backlog ==
  /\ Len(records) <= Len(sent)
  /\ \A i \in 1..Len(records) :
       /\ records[i].seq = Unwritten + i - 1
       /\ records[i].msg = sent[Unwritten + i]
  /\ records # <<>> => offset < records[1].len
  /\ records = <<>> => offset = 0

\* c[i] is where record i starts in the stream: bytes is what is left of the
\* stream, counted from the offset in the first record.
Starts(c) ==
  /\ c \in [1..Len(records) + 1 -> Nat]
  /\ \A i \in 1..Len(records) : c[i + 1] = c[i] + records[i].len
  /\ \A i \in 1..Len(records) + 1 : c[i] <= c[Len(records) + 1]
  /\ bytes = c[Len(records) + 1] - c[1] - offset

Counted == \E c : Starts(c)

\* Position in the stream after a fragment: a record and a place in it.
NextSeq(f)  == IF f.last THEN f.seq + 1 ELSE f.seq
NextFrom(f) == IF f.last THEN 0 ELSE f.to

\* The wire continues what the Mac has and ends where the backlog begins.
InOrder ==
  /\ \A j \in 1..Len(net) : /\ net[j].seq < Len(sent)
                            /\ net[j].msg = sent[net[j].seq + 1]
  /\ \A j \in 1..Len(net) - 1 : /\ net[j + 1].seq = NextSeq(net[j])
                                /\ net[j + 1].from = NextFrom(net[j])
  /\ net # <<>> => /\ net[1].seq = Len(macGot) /\ net[1].from = macPos
                   /\ NextSeq(net[Len(net)]) = Unwritten
                   /\ NextFrom(net[Len(net)]) = offset
  /\ net = <<>> => Len(macGot) = Unwritten /\ macPos = offset

\* The stall is counted from a moment since which something was waiting.
Stalling ==
  /\ stalled # Never => records # <<>> /\ stalled <= sinceWrite
  /\ StallIsReal

IInv == TypeOK /\ Going /\ Backlog /\ Counted /\ InOrder /\ MacInStep /\ Stalling

-----------------------------------------------------------------------------
(* Facts about single definitions *)

\* The constants, one by one.
LEMMA Constants ==
  /\ BacklogLimit \in Nat /\ BulkLimit \in Nat /\ MaxSeq \in Nat /\ MaxInterrupt \in Nat
  /\ FlushBudget \in Nat /\ FlushAttempts \in Nat /\ MaxRecord \in Nat
  /\ StallTime \in Nat /\ StallTime > 0
BY ConstantsAssumption

\* What is left of the first record is part of the count.
LEMMA CountCoversHead ==
  ASSUME TypeOK, Backlog, Counted
  PROVE  /\ records # <<>> => records[1].len - offset \in 1..bytes
         /\ records = <<>> => bytes = 0
<1>1. PICK c : Starts(c)  BY DEF Counted
<1>2. Len(records) \in Nat  BY DEF TypeOK
<1>3. CASE records # <<>>
  <2>1. 1 \in 1..Len(records) /\ records[1] \in Records
    BY <1>2, <1>3 DEF TypeOK
  <2>2. c[2] = c[1] + records[1].len /\ c[2] <= c[Len(records) + 1]
    <3>1. 2 \in 1..Len(records) + 1  BY <1>2, <2>1
    <3> QED  BY <1>1, <2>1, <3>1 DEF Starts
  <2>3. c[1] \in Nat /\ c[Len(records) + 1] \in Nat
    BY <1>1, <1>2 DEF Starts
  <2>4. /\ records[1].len \in Nat /\ offset \in Nat /\ offset < records[1].len
        /\ bytes = c[Len(records) + 1] - c[1] - offset
    BY <1>1, <1>3, <2>1, SMTT(30) DEF Starts, Backlog, TypeOK, Records
  <2> QED  BY <1>3, <2>2, <2>3, <2>4, SMTT(30)
<1>4. CASE records = <<>>
  <2>1. c[Len(records) + 1] = c[1] /\ c[1] \in Nat
    BY <1>1, <1>4 DEF Starts
  <2> QED  BY <1>1, <1>4, <2>1 DEF Starts, Backlog
<1> QED  BY <1>3, <1>4

\* The count stands for an empty backlog exactly when it is 0.
LEMMA CountDrains ==
  ASSUME IInv  PROVE BacklogDrains
<1>1. Len(records) \in Nat  BY DEF IInv, TypeOK
<1> QED  BY CountCoversHead, <1>1 DEF IInv, BacklogDrains, TypeOK

\* Steps that leave the stream alone preserve what is said of it.
LEMMA StreamUntouched ==
  ASSUME Backlog, Counted, InOrder, MacInStep,
         UNCHANGED <<records, offset, bytes, net, mac, sent>>
  PROVE  Backlog' /\ Counted' /\ InOrder' /\ MacInStep'
<1>1. Backlog' /\ InOrder' /\ MacInStep'
  BY DEF Backlog, InOrder, MacInStep, Unwritten, NextSeq, NextFrom, mac
<1>2. Counted'
  <2>1. PICK c : Starts(c)  BY DEF Counted
  <2>2. Starts(c)'  BY <2>1 DEF Starts
  <2> QED  BY <2>2 DEF Counted
<1> QED  BY <1>1, <1>2

-----------------------------------------------------------------------------
(* The three steps that move the stream *)

\* A record that is queued continues the backlog.
LEMMA Queued ==
  ASSUME TypeOK, Backlog, Counted, InOrder, NEW m \in Messages, NEW n \in 1..MaxRecord,
         encSeq = Len(sent),
         records' = Append(records, [seq |-> encSeq, msg |-> m, len |-> n]),
         bytes' = bytes + n, sent' = Append(sent, m),
         UNCHANGED <<offset, net, mac>>
  PROVE  Backlog' /\ Counted' /\ InOrder'
<1> DEFINE r == [seq |-> encSeq, msg |-> m, len |-> n]
<1>0. r \in Records /\ records \in Seq(Records) /\ sent \in Seq(Messages)
  BY Constants DEF TypeOK, Records
<1>1. /\ Len(records) \in Nat /\ Len(sent) \in Nat
      /\ Len(records') = Len(records) + 1 /\ Len(sent') = Len(sent) + 1
      /\ \A i \in 1..Len(records) : records'[i] = records[i]
      /\ records'[Len(records) + 1] = r
      /\ \A i \in 1..Len(sent) : sent'[i] = sent[i]
      /\ sent'[Len(sent) + 1] = m
  BY <1>0, AppendProperties
<1>2. Unwritten' = Unwritten /\ Unwritten \in Nat
  BY <1>1 DEF Unwritten, Backlog
<1>3. Backlog'
  <2>1. ASSUME NEW i \in 1..Len(records')
        PROVE  records'[i].seq = Unwritten' + i - 1 /\ records'[i].msg = sent'[Unwritten' + i]
    <3>0. i \in 1..Len(records) \/ i = Len(records) + 1  BY <1>1
    <3>1. CASE i \in 1..Len(records)
      <4>1. Unwritten + i \in 1..Len(sent)  BY <1>1, <1>2, <3>1 DEF Unwritten
      <4> QED  BY <1>1, <1>2, <3>1, <4>1 DEF Backlog
    <3>2. CASE i = Len(records) + 1
      <4>1. Unwritten + i = Len(sent) + 1 /\ i \in Nat  BY <1>1, <3>2 DEF Unwritten
      <4>2. records'[i] = r /\ r.seq = Len(sent) /\ r.msg = m  BY <1>1, <3>2
      <4>3. sent'[Unwritten' + i] = m  BY <1>1, <1>2, <4>1
      <4>4. Len(sent) = Unwritten' + i - 1  BY <1>1, <1>2, <4>1
      <4> QED  BY <4>2, <4>3, <4>4
    <3> QED  BY <3>0, <3>1, <3>2
  <2>2. offset < records'[1].len /\ offset' = offset
    <3>1. CASE records = <<>>
      <4>1. records'[1] = r /\ offset = 0  BY <1>1, <3>1 DEF Backlog
      <4> QED  BY <4>1
    <3>2. CASE records # <<>>
      <4>1. 1 \in 1..Len(records)  BY <1>0, <1>1, <3>2
      <4> QED  BY <1>1, <3>2, <4>1 DEF Backlog
    <3> QED  BY <3>1, <3>2
  <2>3. records' # <<>> /\ Len(records') <= Len(sent')
    BY <1>0, <1>1, AppendProperties DEF Backlog
  <2> QED  BY <2>1, <2>2, <2>3 DEF Backlog
<1>4. Counted'
  <2>1. PICK c : Starts(c)  BY DEF Counted
  <2> DEFINE d == [i \in 1..Len(records) + 2 |->
                     IF i <= Len(records) + 1 THEN c[i] ELSE c[Len(records) + 1] + n]
  <2>2. c[Len(records) + 1] \in Nat /\ c[1] \in Nat
    BY <1>1, <2>1 DEF Starts
  <2>3. d \in [1..Len(records') + 1 -> Nat]
    BY <1>1, <2>1, <2>2, SMTT(30) DEF Starts
  <2>4. ASSUME NEW i \in 1..Len(records')  PROVE d[i + 1] = d[i] + records'[i].len
    BY <1>1, <2>1 DEF Starts
  <2>8. d[Len(records) + 2] = c[Len(records) + 1] + n /\ d[1] = c[1]
    BY <1>1
  <2>5. ASSUME NEW i \in 1..Len(records') + 1  PROVE d[i] <= d[Len(records') + 1]
    <3>1. CASE i = Len(records) + 2
      <4>1. d[i] = d[Len(records') + 1] /\ d[i] \in Nat  BY <1>1, <2>3, <3>1
      <4> QED  BY <4>1
    <3>2. CASE i \in 1..Len(records) + 1
      <4>1. c[i] \in Nat /\ c[i] <= c[Len(records) + 1]
        BY <2>1, <3>2 DEF Starts
      <4>3. d[i] = c[i]  BY <1>1, <3>2
      <4>2. d[Len(records') + 1] = c[Len(records) + 1] + n  BY <1>1, <2>8
      <4> HIDE DEF d
      <4> QED  BY <2>2, <4>1, <4>2, <4>3
    <3> QED  BY <1>1, <3>1, <3>2
  <2>6. bytes' = d[Len(records') + 1] - d[1] - offset'
    <3>1. Len(records') + 1 = Len(records) + 2 /\ bytes \in Nat /\ offset \in Nat
          /\ bytes = c[Len(records) + 1] - c[1] - offset
      BY <1>1, <2>1 DEF Starts, TypeOK
    <3> HIDE DEF d
    <3> QED  BY <2>2, <2>8, <3>1, SMTT(30)
  <2>7. PICK e : e = d  OBVIOUS
  <2> HIDE DEF d
  <2>9. Starts(e)'  BY <2>3, <2>4, <2>5, <2>6, <2>7 DEF Starts
  <2> QED  BY <2>9 DEF Counted
<1>5. InOrder'
  <2>1. net' = net /\ Len(net) \in Nat /\ macGot' = macGot /\ macPos' = macPos /\ offset' = offset
    BY DEF mac, TypeOK
  <2>2. ASSUME NEW j \in 1..Len(net)
        PROVE  net[j].seq < Len(sent') /\ net[j].msg = sent'[net[j].seq + 1]
    <3>1. net[j] \in Fragments  BY <2>1 DEF TypeOK
    <3>2. net[j].seq + 1 \in 1..Len(sent)  BY <1>1, <3>1, SMTT(30) DEF InOrder, Fragments
    <3> QED  BY <1>1, <3>1, <3>2, SMTT(30) DEF InOrder, Fragments
  <2> QED  BY <1>2, <2>1, <2>2 DEF InOrder, NextSeq, NextFrom
<1> QED  BY <1>3, <1>4, <1>5

\* A fragment that is written continues the wire, and the backlog what is left.
LEMMA Written ==
  ASSUME IInv, NEW n \in 1..MaxRecord, Write(n)
  PROVE  Backlog' /\ Counted' /\ InOrder'
<1> DEFINE h == Head(records)
           f == [seq |-> h.seq, msg |-> h.msg, from |-> offset, to |-> offset + n,
                 last |-> offset + n = h.len]
<1>0. /\ records # <<>> /\ records \in Seq(Records) /\ h = records[1]
      /\ h.len \in Nat /\ offset \in Nat /\ bytes \in Nat /\ sent \in Seq(Messages)
      /\ n <= h.len - offset
  <2>1. records # <<>> /\ records \in Seq(Records) /\ n <= h.len - offset
    BY DEF IInv, TypeOK, Write, Writing
  <2>2. h = records[1] /\ h \in Records  BY <2>1, HeadTailProperties
  <2>3. offset \in Nat /\ bytes \in Nat /\ sent \in Seq(Messages)  BY DEF IInv, TypeOK
  <2> HIDE DEF h
  <2>4. h.len \in Nat  BY <2>2 DEF Records
  <2> QED  BY <2>1, <2>2, <2>3, <2>4
<1>1. Len(records) \in Nat /\ Len(records) >= 1 /\ Len(sent) \in Nat
      /\ 1 \in 1..Len(records) /\ Len(records) <= Len(sent)
  BY <1>0 DEF IInv, Backlog
<1>2. /\ net' = Append(net, f) /\ bytes' = bytes - n
      /\ sent' = sent /\ macGot' = macGot /\ macPos' = macPos
  BY DEF Write, Advance, mac
<1>3. f.seq = Unwritten /\ f.msg = sent[Unwritten + 1] /\ Unwritten \in Nat
      /\ Unwritten < Len(sent)
  BY <1>0, <1>1 DEF IInv, Backlog, Unwritten
<1>4. Backlog' /\ Counted' /\ NextSeq(f) = Unwritten' /\ NextFrom(f) = offset'
  <2>1. PICK c : Starts(c)  BY DEF IInv, Counted
  <2>2. CASE offset + n = h.len
    <3>1. /\ records' = Tail(records) /\ offset' = 0 /\ Len(records') = Len(records) - 1
          /\ \A i \in 1..Len(records') : records'[i] = records[i + 1]
      <4>1. records' = Tail(records) /\ offset' = 0  BY <2>2 DEF Write, Advance
      <4> QED  BY <1>0, <4>1, HeadTailProperties
    <3>2. Unwritten' = Unwritten + 1
      <4>1. Len(sent') = Len(sent) /\ Len(records') = Len(records) - 1  BY <1>2, <3>1
      <4> QED  BY <1>1, <4>1 DEF Unwritten
    <3>3. Backlog'
      <4>1. ASSUME NEW i \in 1..Len(records')
            PROVE  records'[i].seq = Unwritten' + i - 1 /\ records'[i].msg = sent'[Unwritten' + i]
        <5>1. i + 1 \in 1..Len(records)  BY <1>1, <3>1
        <5> QED  BY <1>1, <1>2, <1>3, <3>1, <3>2, <5>1 DEF IInv, Backlog
      <4>2. records' # <<>> => offset' < records'[1].len
        <5> SUFFICES ASSUME records' # <<>> PROVE offset' < records'[1].len  OBVIOUS
        <5>1. records' \in Seq(Records)  BY <1>0, <3>1, HeadTailProperties
        <5>2. records'[1] \in Records  BY <5>1
        <5> QED  BY <3>1, <5>2 DEF Records
      <4> QED  BY <1>1, <1>2, <3>1, <4>1, <4>2 DEF Backlog
    <3>4. Counted'
      <4> DEFINE d == [i \in 1..Len(records) |-> c[i + 1]]
      <4>1. d \in [1..Len(records') + 1 -> Nat]  BY <1>1, <2>1, <3>1 DEF Starts
      <4>2. ASSUME NEW i \in 1..Len(records')  PROVE d[i + 1] = d[i] + records'[i].len
        BY <1>1, <2>1, <3>1 DEF Starts
      <4>3. ASSUME NEW i \in 1..Len(records') + 1  PROVE d[i] <= d[Len(records') + 1]
        BY <1>1, <2>1, <3>1 DEF Starts
      <4>4. /\ c[2] = c[1] + h.len /\ c[1] \in Nat /\ c[Len(records) + 1] \in Nat
            /\ bytes = c[Len(records) + 1] - c[1] - offset
        BY <1>0, <1>1, <2>1, SMTT(30) DEF Starts
      <4>5. d[1] = c[2] /\ d[Len(records') + 1] = c[Len(records) + 1]
        BY <1>1, <3>1
      <4>6. bytes' = d[Len(records') + 1] - d[1] - offset'
        <5> HIDE DEF d
        <5> QED  BY <1>0, <1>2, <2>2, <3>1, <4>4, <4>5, SMTT(30)
      <4>7. PICK e : e = d  OBVIOUS
      <4> HIDE DEF d
      <4>8. Starts(e)'  BY <4>1, <4>2, <4>3, <4>6, <4>7 DEF Starts
      <4> QED  BY <4>8 DEF Counted
    <3>5. NextSeq(f) = Unwritten' /\ NextFrom(f) = offset'
      BY <1>3, <2>2, <3>1, <3>2 DEF NextSeq, NextFrom
    <3> QED  BY <3>3, <3>4, <3>5
  <2>3. CASE offset + n # h.len
    <3>1. records' = records /\ offset' = offset + n
      BY <2>3 DEF Write, Advance
    <3>2. Unwritten' = Unwritten  BY <1>2, <3>1 DEF Unwritten
    <3>3. Backlog'
      <4>1. offset + n < records[1].len  BY <1>0, <2>3
      <4> QED  BY <1>0, <1>1, <1>2, <3>1, <3>2, <4>1 DEF IInv, Backlog
    <3>4. Starts(c)'
      <4>1. /\ c[1] \in Nat /\ c[Len(records) + 1] \in Nat
            /\ bytes = c[Len(records) + 1] - c[1] - offset
        BY <1>1, <2>1 DEF Starts
      <4>2. bytes' = c[Len(records') + 1] - c[1] - offset'
        BY <1>0, <1>2, <3>1, <4>1, SMTT(30)
      <4> QED  BY <2>1, <3>1, <4>2 DEF Starts
    <3>5. NextSeq(f) = Unwritten' /\ NextFrom(f) = offset'
      BY <1>3, <2>3, <3>1, <3>2 DEF NextSeq, NextFrom
    <3> QED  BY <3>3, <3>4, <3>5 DEF Counted
  <2> QED  BY <2>2, <2>3
<1>5. InOrder'
  <2>1. f \in Fragments /\ net \in Seq(Fragments)
    <3>1. net \in Seq(Fragments)  BY DEF IInv, TypeOK
    <3>2. h \in Records  BY <1>0, HeadTailProperties
    <3> QED  BY <1>0, <1>3, <3>1, <3>2 DEF Fragments, Records
  <2> HIDE DEF f, h
  <2>2. /\ Len(net) \in Nat /\ Len(net') = Len(net) + 1 /\ net' # <<>>
        /\ \A j \in 1..Len(net) : net'[j] = net[j]
        /\ net'[Len(net) + 1] = f
    BY <1>2, <2>1, AppendProperties
  <2>3. ASSUME NEW j \in 1..Len(net')
        PROVE  net'[j].seq < Len(sent') /\ net'[j].msg = sent'[net'[j].seq + 1]
    BY <1>2, <1>3, <2>2 DEF IInv, InOrder
  <2>4. f.from = offset  BY DEF f
  <2>5. ASSUME NEW j \in 1..Len(net') - 1
        PROVE  net'[j + 1].seq = NextSeq(net'[j]) /\ net'[j + 1].from = NextFrom(net'[j])
    <3>1. CASE j < Len(net)  BY <2>2, <3>1, SMTT(30) DEF IInv, InOrder
    <3>2. CASE j = Len(net)
      <4>1. net # <<>> /\ net'[j] = net[Len(net)] /\ net'[j + 1] = f
        BY <2>1, <2>2, <3>2
      <4> QED  BY <1>3, <2>4, <3>2, <4>1 DEF IInv, InOrder
    <3> QED  BY <2>2, <3>1, <3>2
  <2>6. net'[1].seq = Len(macGot) /\ net'[1].from = macPos
    <3>1. CASE net = <<>>
      <4>1. net'[1] = f  BY <2>2, <3>1
      <4> QED  BY <1>3, <2>4, <3>1, <4>1 DEF IInv, InOrder
    <3>2. CASE net # <<>>
      <4>1. 1 \in 1..Len(net)  BY <2>1, <2>2, <3>2
      <4> QED  BY <2>2, <3>2, <4>1 DEF IInv, InOrder
    <3> QED  BY <3>1, <3>2
  <2>7. NextSeq(net'[Len(net')]) = Unwritten' /\ NextFrom(net'[Len(net')]) = offset'
    BY <1>4, <2>2
  <2> QED  BY <1>2, <2>2, <2>3, <2>5, <2>6, <2>7 DEF InOrder, NextSeq, NextFrom
<1> QED  BY <1>4, <1>5
\* The Mac finds what it expects, and after reading expects what comes next.
LEMMA Read ==
  ASSUME IInv, MacReads
  PROVE  /\ Head(net).seq = Len(macGot) /\ Head(net).from = macPos
         /\ Head(net).msg = sent[Len(macGot) + 1] /\ Len(macGot) < Len(sent)
         /\ Backlog' /\ Counted' /\ InOrder' /\ MacInStep'
<1> DEFINE f == Head(net)
<1>1. /\ net # <<>> /\ net \in Seq(Fragments) /\ sent \in Seq(Messages)
      /\ macGot \in Seq(Messages) /\ macPos \in Nat
  BY DEF IInv, TypeOK, MacReads
<1>2. /\ Len(net) \in Nat /\ 1 \in 1..Len(net) /\ f = net[1] /\ f \in Fragments
      /\ net' = Tail(net) /\ Len(net') = Len(net) - 1
      /\ \A j \in 1..Len(net') : net'[j] = net[j + 1]
  <2>1. net' = Tail(net)  BY DEF MacReads
  <2>2. Len(net) \in Nat /\ Len(net) # 0  BY <1>1
  <2> QED  BY <1>1, <2>1, <2>2, HeadTailProperties
<1>3. /\ f.seq = Len(macGot) /\ f.from = macPos
      /\ f.msg = sent[Len(macGot) + 1] /\ Len(macGot) < Len(sent)
  BY <1>1, <1>2 DEF IInv, InOrder
<1> HIDE DEF f
<1>4. /\ UNCHANGED <<macFailed, records, offset, bytes, sent>>
      /\ IF f.last THEN macGot' = Append(macGot, f.msg) /\ macPos' = 0
                   ELSE macPos' = f.to /\ macGot' = macGot
  BY <1>3 DEF MacReads, outbound, f
<1>5. NextSeq(f) = Len(macGot') /\ NextFrom(f) = macPos'
  <2>1. CASE f.last
    <3>1. f.msg \in Messages  BY <1>2 DEF Fragments
    <3>2. Len(macGot') = Len(macGot) + 1  BY <1>1, <1>4, <2>1, <3>1, AppendProperties
    <3> QED  BY <1>3, <1>4, <2>1, <3>2 DEF NextSeq, NextFrom
  <2>2. CASE ~f.last  BY <1>3, <1>4, <2>2 DEF NextSeq, NextFrom
  <2> QED  BY <2>1, <2>2
<1>6. Backlog' /\ Counted'
  <2>1. PICK c : Starts(c)  BY DEF IInv, Counted
  <2>2. Starts(c)'  BY <1>4, <2>1 DEF Starts
  <2> QED  BY <1>4, <2>2 DEF IInv, Backlog, Counted, Unwritten
<1>7. InOrder'
  <2>1. Unwritten' = Unwritten /\ offset' = offset /\ sent' = sent
    BY <1>4 DEF Unwritten
  <2>2. ASSUME NEW j \in 1..Len(net')
        PROVE  net'[j].seq < Len(sent) /\ net'[j].msg = sent[net'[j].seq + 1]
    <3>1. j + 1 \in 1..Len(net)  BY <1>2
    <3> QED  BY <1>2, <3>1 DEF IInv, InOrder
  <2>3. ASSUME NEW j \in 1..Len(net') - 1
        PROVE  net'[j + 1].seq = NextSeq(net'[j]) /\ net'[j + 1].from = NextFrom(net'[j])
    <3>1. j + 1 \in 1..Len(net) - 1 /\ j \in 1..Len(net') /\ j + 1 \in 1..Len(net')  BY <1>2
    <3> QED  BY <1>2, <3>1 DEF IInv, InOrder
  <2>4. CASE net' = <<>>
    <3>0. Len(net') = 0  BY <2>4
    <3>1. Len(net) = 1  BY <1>2, <3>0
    <3>2. NextSeq(f) = Unwritten /\ NextFrom(f) = offset
      BY <1>1, <1>2, <3>1 DEF IInv, InOrder
    <3> QED  BY <1>5, <2>1, <2>4, <3>2 DEF InOrder
  <2>5. CASE net' # <<>>
    <3>1. net' \in Seq(Fragments)  BY <1>1, <1>2, HeadTailProperties
    <3>2. Len(net') >= 1 /\ 1 \in 1..Len(net) - 1 /\ 1 \in 1..Len(net') /\ Len(net') \in 1..Len(net')
      BY <1>2, <2>5, <3>1
    <3>3. net'[1] = net[2] /\ net'[Len(net')] = net[Len(net)]  BY <1>2, <3>2
    <3>4. net'[1].seq = NextSeq(f) /\ net'[1].from = NextFrom(f)
      BY <1>2, <3>2, <3>3 DEF IInv, InOrder
    <3>5. NextSeq(net'[Len(net')]) = Unwritten /\ NextFrom(net'[Len(net')]) = offset
      BY <1>1, <3>3 DEF IInv, InOrder
    <3> QED
      BY <1>5, <2>1, <2>2, <2>3, <2>5, <3>4, <3>5 DEF InOrder, NextSeq, NextFrom
  <2> QED  BY <2>4, <2>5
<1>8. MacInStep'  BY <1>4 DEF IInv, MacInStep
<1> QED  BY <1>3, <1>6, <1>7, <1>8 DEF f

-----------------------------------------------------------------------------
(* The invariant *)

\* Nothing is queued, written or read yet.
LEMMA Initially == Init => IInv
<1> SUFFICES ASSUME Init PROVE IInv  OBVIOUS
<1>1. TypeOK
  <2>1. /\ records \in Seq(Records) /\ net \in Seq(Fragments)
        /\ macGot \in Seq(Messages) /\ sent \in Seq(Messages)
    BY DEF Init
  <2>2. /\ encSeq \in 0..MaxSeq /\ bytes \in 0..BacklogLimit
        /\ budget \in 0..FlushBudget /\ attempts \in 0..FlushAttempts
        /\ sinceWrite \in 0..StallTime /\ interrupts \in 0..MaxInterrupt
    BY Constants DEF Init
  <2> QED  BY <2>1, <2>2 DEF Init, TypeOK
<1>2. Going /\ MacInStep /\ Stalling
  BY DEF Init, Going, MacInStep, Stalling, StallIsReal
<1>3. Backlog /\ InOrder  BY DEF Init, Backlog, InOrder, Unwritten
<1>4. Counted
  <2>1. Starts([i \in {1} |-> 0])  BY DEF Init, Starts
  <2> QED  BY <2>1 DEF Counted
<1> QED  BY <1>1, <1>2, <1>3, <1>4 DEF IInv

\* A message is handed over.
LEMMA SendKeeps ==
  ASSUME IInv, NEW m \in Messages, NEW n \in 1..MaxRecord, Send(m, n)
  PROVE  IInv'
<1>1. CASE encSeq < MaxSeq /\ bytes + n <= BacklogLimit
  <2>1. /\ encSeq = Len(sent) /\ encSeq' = encSeq + 1
        /\ records' = Append(records, [seq |-> encSeq, msg |-> m, len |-> n])
        /\ bytes' = bytes + n /\ sent' = Append(sent, m)
        /\ pc' = "flush" /\ budget' = FlushBudget /\ attempts' = FlushAttempts
        /\ cause' = cause /\ pc = "idle"
        /\ sinceWrite' = IF records = <<>> THEN 0 ELSE sinceWrite
        /\ UNCHANGED <<offset, stalled, net, mac, interrupts>>
    BY <1>1 DEF Send, Push, EnterFlush, IInv, Going
  <2>2. Backlog' /\ Counted' /\ InOrder'  BY <2>1, Queued DEF IInv
  <2>3. [seq |-> encSeq, msg |-> m, len |-> n] \in Records
    BY DEF IInv, TypeOK, Records
  <2>4. records' \in Seq(Records) /\ sent' \in Seq(Messages) /\ records' # <<>>
        /\ Len(sent') = Len(sent) + 1
    <3>1. records \in Seq(Records) /\ sent \in Seq(Messages)  BY DEF IInv, TypeOK
    <3> QED  BY <2>1, <2>3, <3>1, AppendProperties
  <2>5. TypeOK'
    BY <1>1, <2>1, <2>4, Constants DEF IInv, TypeOK, mac
  <2>6. Going' /\ MacInStep'  BY <2>1, <2>4 DEF IInv, Going, MacInStep, mac
  <2>7. Stalling'
    BY <2>1, <2>4 DEF IInv, Stalling, StallIsReal, Going
  <2> QED  BY <2>2, <2>5, <2>6, <2>7 DEF IInv
<1>2. CASE ~(encSeq < MaxSeq /\ bytes + n <= BacklogLimit)
  <2>1. /\ UNCHANGED <<records, offset, bytes, net, mac, sent, stalled, budget, attempts,
                      interrupts>>
        /\ pc' = "over" /\ cause' \in {"exhausted", "backlog"}
        /\ encSeq' \in {encSeq, encSeq + 1} /\ encSeq' <= MaxSeq
        /\ sinceWrite' = IF records = <<>> THEN 0 ELSE sinceWrite
    BY <1>2, Constants DEF Send, Push, Over, IInv, TypeOK
  <2>2. Backlog' /\ Counted' /\ InOrder' /\ MacInStep'
    BY <2>1, StreamUntouched DEF IInv
  <2>3. TypeOK'  BY <2>1, Constants DEF IInv, TypeOK, mac
  <2>4. Going'  BY <2>1 DEF Going
  <2>5. Stalling'  BY <2>1 DEF IInv, Stalling, StallIsReal
  <2> QED  BY <2>2, <2>3, <2>4, <2>5 DEF IInv
<1> QED  BY <1>1, <1>2
\* Every step of the owner, the network, the Mac and the clock.
LEMMA Inductive == IInv /\ [Next]_vars => IInv'
<1> SUFFICES ASSUME IInv, [Next]_vars PROVE IInv'  OBVIOUS
<1>1. ASSUME NEW n \in 1..MaxRecord, SendInput(n)  PROVE IInv'
  BY <1>1, SendKeeps DEF SendInput, Messages
<1>2. ASSUME NEW n \in 1..MaxRecord, SendBulk(n)  PROVE IInv'
  BY <1>2, SendKeeps DEF SendBulk, Messages
<1>3. CASE Poll
  <2>1. Backlog' /\ Counted' /\ InOrder' /\ MacInStep'
    BY <1>3, StreamUntouched DEF IInv, Poll, outbound
  <2>2. TypeOK'  BY <1>3, Constants DEF IInv, TypeOK, Poll, EnterFlush, outbound, mac
  <2>3. Going' /\ Stalling'
    BY <1>3 DEF IInv, Going, Stalling, StallIsReal, Poll, EnterFlush, outbound
  <2> QED  BY <2>1, <2>2, <2>3 DEF IInv
<1>4. ASSUME NEW n \in 1..MaxRecord, Write(n)  PROVE IInv'
  <2>1. Backlog' /\ Counted' /\ InOrder'  BY <1>4, Written
  <2>2. MacInStep'  BY <1>4 DEF IInv, MacInStep, Write, mac
  <2>3. Going'  BY <1>4 DEF IInv, Going, Write, Writing
  <2>4. Stalling'
    BY <1>4, Constants DEF IInv, Going, Stalling, StallIsReal, Write, Writing, ClearStall
  <2>5. TypeOK'
    <3> DEFINE h == Head(records)
    <3>1. /\ records # <<>> /\ records \in Seq(Records) /\ h = records[1]
          /\ h \in Records /\ n <= h.len - offset /\ n <= budget
      <4>1. /\ records # <<>> /\ records \in Seq(Records) /\ n <= h.len - offset /\ n <= budget
        BY <1>4 DEF IInv, TypeOK, Write, Writing
      <4> QED  BY <4>1, HeadTailProperties
    <3>0. /\ bytes' = bytes - n
          /\ IF offset + n = h.len THEN records' = Tail(records) /\ offset' = 0
                                   ELSE records' = records /\ offset' = offset + n
      BY <1>4 DEF Write, Advance
    <3>2. n \in 1..bytes /\ bytes \in 0..BacklogLimit
      <4>1. h.len - offset \in 1..bytes  BY <3>1, CountCoversHead DEF IInv
      <4>2. bytes \in 0..BacklogLimit /\ n \in Nat /\ n >= 1  BY DEF IInv, TypeOK
      <4> HIDE DEF h
      <4> QED  BY <3>1, <4>1, <4>2
    <3>3. records' \in Seq(Records) /\ offset' \in Nat
      <4>1. Tail(records) \in Seq(Records)  BY <3>1, HeadTailProperties
      <4>2. offset \in Nat /\ n \in Nat  BY DEF IInv, TypeOK
      <4> HIDE DEF h
      <4> QED  BY <3>0, <3>1, <4>1, <4>2
    <3>4. net' \in Seq(Fragments)
      <4> DEFINE f == [seq |-> h.seq, msg |-> h.msg, from |-> offset, to |-> offset + n,
                       last |-> offset + n = h.len]
      <4>0. h.seq \in Nat /\ h.msg \in Messages
        <5>1. h \in Records  BY <3>1
        <5> HIDE DEF h
        <5> QED  BY <5>1 DEF Records
      <4>3. offset \in Nat /\ offset + n \in Nat
        <5>1. offset \in Nat /\ n \in Nat  BY DEF IInv, TypeOK
        <5> QED  BY <5>1
      <4>1. f \in Fragments
        <5> HIDE DEF h
        <5> QED  BY <4>0, <4>3 DEF Fragments
      <4>2. net' = Append(net, f) /\ net \in Seq(Fragments)
        BY <1>4 DEF IInv, TypeOK, Write
      <4> QED  BY <4>1, <4>2, AppendProperties
    <3>5. /\ stalled' = Never /\ budget' = budget - n /\ attempts' = attempts - 1 /\ attempts > 0
          /\ pc' \in {"idle", "flush"} /\ sinceWrite' = 0
          /\ UNCHANGED <<encSeq, cause, mac, sent, interrupts>>
      BY <1>4 DEF Write, Writing, ClearStall
    <3>6. budget' \in 0..FlushBudget /\ attempts' \in 0..FlushAttempts /\ bytes' \in 0..BacklogLimit
      BY <3>0, <3>1, <3>2, <3>5, Constants DEF IInv, TypeOK
    <3> HIDE DEF h
    <3> QED  BY <3>3, <3>4, <3>5, <3>6, Constants DEF IInv, TypeOK, mac
  <2> QED  BY <2>1, <2>2, <2>3, <2>4, <2>5 DEF IInv
<1>5. CASE WriteBlocks
  <2>1. Backlog' /\ Counted' /\ InOrder' /\ MacInStep'
    BY <1>5, StreamUntouched DEF IInv, WriteBlocks
  <2>2. TypeOK'  BY <1>5, Constants DEF IInv, TypeOK, WriteBlocks, Over, mac, Never
  <2>3. Going'  BY <1>5 DEF IInv, Going, WriteBlocks, Writing, Over
  <2>4. Stalling'
    BY <1>5, Constants
       DEF IInv, TypeOK, Going, Stalling, StallIsReal, WriteBlocks, Writing, Over, Never
  <2> QED  BY <2>1, <2>2, <2>3, <2>4 DEF IInv
<1>6. CASE FlushDone \/ WriteInterrupted
  <2>1. UNCHANGED <<encSeq, outbound, cause, net, mac, sent, sinceWrite, budget>>
        /\ pc = "flush" /\ pc' \in {"idle", "flush"} /\ attempts' \in {attempts, attempts - 1}
        /\ attempts' \in 0..FlushAttempts /\ interrupts' \in 0..MaxInterrupt
    BY <1>6, Constants, SMTT(30) DEF IInv, TypeOK, FlushDone, WriteInterrupted, Writing
  <2>2. Backlog' /\ Counted' /\ InOrder' /\ MacInStep'
    BY <2>1, StreamUntouched DEF IInv, outbound
  <2>3. TypeOK'  BY <2>1 DEF IInv, TypeOK, outbound, mac
  <2>4. Going' /\ Stalling'
    BY <2>1 DEF IInv, Going, Stalling, StallIsReal, outbound
  <2> QED  BY <2>2, <2>3, <2>4 DEF IInv
<1>7. CASE WriteFails
  <2>1. Backlog' /\ Counted' /\ InOrder' /\ MacInStep'
    BY <1>7, StreamUntouched DEF IInv, WriteFails, outbound
  <2>2. TypeOK'  BY <1>7 DEF IInv, TypeOK, WriteFails, Over, outbound, mac
  <2>3. Going' /\ Stalling'
    BY <1>7 DEF IInv, Going, Stalling, StallIsReal, WriteFails, Over, outbound
  <2> QED  BY <2>1, <2>2, <2>3 DEF IInv
<1>8. CASE Tick
  <2>1. Backlog' /\ Counted' /\ InOrder' /\ MacInStep'
    BY <1>8, StreamUntouched DEF IInv, Tick
  <2>2. TypeOK'  BY <1>8, Constants DEF IInv, TypeOK, Tick, thread, mac, Never
  <2>3. Going'  BY <1>8 DEF IInv, Going, Tick, thread
  <2>4. Stalling'
    BY <1>8, Constants DEF IInv, TypeOK, Going, Stalling, StallIsReal, Tick, thread, Never
  <2> QED  BY <2>1, <2>2, <2>3, <2>4 DEF IInv
<1>9. CASE MacReads
  <2>1. Backlog' /\ Counted' /\ InOrder' /\ MacInStep'  BY <1>9, Read
  <2>2. TypeOK'
    <3>1. net # <<>> /\ net \in Seq(Fragments) /\ macGot \in Seq(Messages)
      BY <1>9 DEF IInv, TypeOK, MacReads
    <3>2. Head(net) \in Fragments /\ Tail(net) \in Seq(Fragments)
      BY <3>1, HeadTailProperties
    <3>3. Append(macGot, Head(net).msg) \in Seq(Messages)
      BY <3>1, <3>2, AppendProperties DEF Fragments
    <3>4. /\ macGot' \in {macGot, Append(macGot, Head(net).msg)}
          /\ macPos' \in {macPos, 0, Head(net).to}
          /\ net' = Tail(net)
      BY <1>9 DEF MacReads
    <3>6. macGot' \in Seq(Messages)  BY <3>1, <3>3, <3>4
    <3>7. macPos' \in Nat
      <4>1. macPos \in Nat  BY DEF IInv, TypeOK
      <4>2. Head(net).to \in Nat  BY <3>2 DEF Fragments
      <4> QED  BY <3>4, <4>1, <4>2
    <3>8. macFailed' \in BOOLEAN
      <4>1. macFailed' = macFailed  BY <1>9, Read DEF MacReads
      <4> QED  BY <4>1 DEF IInv, TypeOK
    <3>5. UNCHANGED <<encSeq, outbound, thread, sent, sinceWrite, interrupts>>
      BY <1>9 DEF MacReads
    <3> QED  BY <3>2, <3>4, <3>5, <3>6, <3>7, <3>8 DEF IInv, TypeOK, outbound, thread
  <2>3. Going' /\ Stalling'
    BY <1>9 DEF IInv, Going, Stalling, StallIsReal, MacReads, outbound, thread
  <2> QED  BY <2>1, <2>2, <2>3 DEF IInv
<1>10. CASE UNCHANGED vars
  <2>1. Backlog' /\ Counted' /\ InOrder' /\ MacInStep'
    BY <1>10, StreamUntouched DEF IInv, vars, outbound
  <2> QED
    BY <1>10, <2>1
       DEF IInv, TypeOK, Going, Stalling, StallIsReal, vars, outbound, thread, mac
<1> QED
  BY <1>1, <1>2, <1>3, <1>4, <1>5, <1>6, <1>7, <1>8, <1>9, <1>10 DEF Next, Flush

\* What every reachable state satisfies.
LEMMA Invariant == Spec => []IInv
BY Initially, Inductive, PTL DEF Spec

-----------------------------------------------------------------------------
(* The theorems *)

\* The state is well typed: in particular the backlog never exceeds its limit
\* and its count never goes below 0, which in the code would be an overflow.
THEOREM TypeCorrect == Spec => []TypeOK
BY Invariant, PTL DEF IInv

\* The Mac can verify every record it reads, although records are written in
\* pieces and a refused record uses up a sequence number.
THEOREM MacKeepsPlace == Spec => []MacInStep
BY Invariant, PTL DEF IInv

\* The count is 0 exactly while nothing waits.
THEOREM CountIsExact == Spec => []BacklogDrains
<1>1. IInv => BacklogDrains  BY CountDrains
<1> QED  BY Invariant, <1>1, PTL

\* The connection is only given up as stalled after a whole StallTime in which
\* something waited and nothing was taken.
THEOREM StallsAreReal == Spec => []StallIsReal
<1>1. IInv => StallIsReal  BY DEF IInv, Stalling
<1> QED  BY Invariant, <1>1, PTL

\* A sequence of length one is its element alone.
LEMMA Lone ==
  ASSUME NEW S, NEW s \in Seq(S), Len(s) = 1
  PROVE  s = <<s[1]>>
  <1>1. s[1] \in S OBVIOUS
  <1> DEFINE t == <<s[1]>>
  <1>2. t \in Seq(S) /\ Len(t) = 1 /\ t[1] = s[1] BY <1>1
  <1> HIDE DEF t
  <1>3. \A i \in 1..Len(s) : s[i] = t[i] BY <1>2
  <1>4. s = t BY <1>2, <1>3, SeqEqual
  <1> QED BY <1>4 DEF t

\* One element is the piece from it to itself.
LEMMA OneUnit ==
  ASSUME NEW S, NEW s \in Seq(S), NEW k \in 1..Len(s)
  PROVE  SubSeq(s, k, k) = <<s[k]>>
  <1> DEFINE t == SubSeq(s, k, k)
  <1>1. t \in Seq(S) /\ Len(t) = 1 /\ t[1] = s[k] OBVIOUS
  <1> HIDE DEF t
  <1>2. t = <<t[1]>> BY <1>1, Lone
  <1> QED BY <1>1, <1>2 DEF t

\* The sending half implements an ordered stream of whole messages.
THEOREM ImplementsStream == Spec => StreamSpec
<1>1. Init => Stream!Init  BY DEF Init, Stream!Init
<1>2. IInv /\ IInv' /\ [Next]_vars => [Stream!Next]_<<sent, macGot, pc # "over", ~macFailed>>
  <2> SUFFICES ASSUME IInv, IInv', [Next]_vars
               PROVE  [Stream!Next]_<<sent, macGot, pc # "over", ~macFailed>>
    OBVIOUS
  <2>1. ~macFailed /\ ~macFailed'  BY DEF IInv, MacInStep
  <2>2. ASSUME NEW n \in 1..MaxRecord, NEW m \in Messages, Send(m, n)
        PROVE  [Stream!Next]_<<sent, macGot, pc # "over", ~macFailed>>
    <3>1. CASE encSeq < MaxSeq /\ bytes + n <= BacklogLimit
      <4>1. /\ pc = "idle" /\ pc' = "flush" /\ sent' = Append(sent, m) /\ macGot' = macGot
        BY <2>2, <3>1 DEF Send, Push, EnterFlush, mac
      <4> QED  BY <2>1, <4>1 DEF Stream!Next, Stream!Send
    <3>2. CASE ~(encSeq < MaxSeq /\ bytes + n <= BacklogLimit)
      <4>1. /\ pc = "idle" /\ pc' = "over" /\ sent' = sent /\ macGot' = macGot
        BY <2>2, <3>2 DEF Send, Push, Over, mac
      <4> QED  BY <2>1, <4>1 DEF Stream!Next, Stream!Close
    <3> QED  BY <3>1, <3>2
  <2>3. CASE MacReads
    <3>1. /\ Head(net).seq = Len(macGot) /\ Head(net).from = macPos
          /\ Head(net).msg = sent[Len(macGot) + 1] /\ Len(macGot) < Len(sent)
      BY <2>3, Read
    <3>2. macGot' \in {macGot, Append(macGot, sent[Len(macGot) + 1])}
          /\ UNCHANGED <<sent, pc>>
      BY <2>3, <3>1 DEF MacReads, thread
    <3>3. macGot' = macGot \/ Stream!Deliver
      <4> SUFFICES ASSUME macGot' = Append(macGot, sent[Len(macGot) + 1])
                   PROVE  Stream!Deliver
        BY <3>2
      <4>1. macGot \in Seq(Messages) /\ sent \in Seq(Messages)
        BY DEF IInv, TypeOK
      <4>2. Len(macGot) + 1 \in Len(macGot) + 1..Len(sent)
        BY <3>1, <4>1
      <4>3. SubSeq(sent, Len(macGot) + 1, Len(macGot) + 1) = <<sent[Len(macGot) + 1]>>
        BY <4>1, <4>2, OneUnit
      <4>4. Append(macGot, sent[Len(macGot) + 1]) = macGot \o <<sent[Len(macGot) + 1]>>
        BY <4>1, <4>2
      <4> QED  BY <2>1, <3>2, <4>2, <4>3, <4>4 DEF Stream!Deliver
    <3> QED  BY <2>1, <3>2, <3>3 DEF Stream!Next
  <2>4. ASSUME NEW n \in 1..MaxRecord, Write(n)
        PROVE  [Stream!Next]_<<sent, macGot, pc # "over", ~macFailed>>
    BY <2>1, <2>4 DEF Write, Writing, mac
  <2>5. CASE WriteBlocks \/ WriteFails
    <3>1. pc = "flush" /\ pc' \in {"idle", "over"} /\ UNCHANGED <<sent, macGot>>
      BY <2>5 DEF WriteBlocks, WriteFails, Writing, Over, mac
    <3> QED  BY <2>1, <3>1 DEF Stream!Next, Stream!Close
  <2>6. CASE Poll \/ FlushDone \/ WriteInterrupted \/ Tick \/ UNCHANGED vars
    <3>1. (pc # "over") = (pc # "over")' /\ UNCHANGED <<sent, macGot>>
      BY <2>6 DEF Poll, EnterFlush, FlushDone, WriteInterrupted, Writing, Tick, thread,
                  vars, mac
    <3> QED  BY <2>1, <3>1
  <2> QED
    BY <2>2, <2>3, <2>4, <2>5, <2>6 DEF Next, Flush, SendInput, SendBulk, Messages
<1> QED
  BY <1>1, <1>2, Invariant, PTL DEF Spec, StreamSpec, Stream!Spec
=============================================================================
