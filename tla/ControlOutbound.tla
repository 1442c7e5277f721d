--------------------------- MODULE ControlOutbound ---------------------------
(***************************************************************************)
(* The sending half of the encrypted control channel (hp-protocol,         *)
(* record.rs, control_io.rs and lib.rs): messages are encrypted under      *)
(* consecutive sequence numbers into records, the records wait in a        *)
(* bounded backlog, and a non-blocking socket takes them piece by piece.   *)
(*                                                                         *)
(* One thread owns the connection; each call of it runs to its end, but    *)
(* the network and the Mac act between two writes.  Every error the        *)
(* connection returns ends the session (run_session passes it on).         *)
(*                                                                         *)
(* Data: a message is "input" (keys, pointer, clipboard, requests) or      *)
(* "bulk" (file messages); a record is its sequence number, its message    *)
(* and its length; what one write puts on the wire is a fragment of a      *)
(* record.  The Mac is external: it verifies and decrypts records in the   *)
(* order of their sequence numbers and gives up on anything else.          *)
(***************************************************************************)
EXTENDS Integers, Sequences, FiniteSetsExt

CONSTANTS
  BacklogLimit,   \* 512 KiB in the code
  BulkLimit,      \* a fuller backlog takes no bulk: 64 KiB in the code
  FlushBudget,    \* what one flush writes at most: 64 KiB in the code
  FlushAttempts,  \* and in how many writes: 128 in the code
  MaxRecord,      \* length of the longest record
  StallTime,      \* 3 s in the code
  MaxSeq,         \* sequence numbers before they are exhausted, u32::MAX
  MaxNet,         \* bound: fragments on the wire
  MaxInterrupt    \* bound: interrupted writes

ASSUME ConstantsAssumption ==
  /\ {BacklogLimit, BulkLimit, MaxSeq, MaxInterrupt} \subseteq Nat
  /\ {FlushBudget, FlushAttempts, MaxRecord, StallTime, MaxNet}
       \subseteq Nat \ {0}
  /\ BulkLimit + MaxRecord <= BacklogLimit

Messages  == {"input", "bulk"}
Records   == [seq : Nat, msg : Messages, len : 1..MaxRecord]
Fragments == [seq : Nat, msg : Messages, from : Nat, to : Nat, last : BOOLEAN]
Never     == -1

VARIABLES
  encSeq,      \* RecordLayer.enc_seq
  (* Outbound *)
  records, offset, bytes,
  stalled,     \* time since stalled_since, Never for None
  (* the thread that owns the connection *)
  pc,          \* "idle" between calls, "flush" in flush, "over"
  budget, attempts,   \* flush's locals
  cause,       \* why the session is over
  (* the network and the Mac *)
  net,         \* fragments under way
  macGot,      \* messages the Mac has decrypted; their number is the sequence
               \* number it expects next
  macPos,      \* how much it has of the next record
  macFailed,   \* a record did not verify
  (* history *)
  sent,        \* messages the backlog has taken
  sinceWrite,  \* time since the socket last took something or the backlog was
               \* empty, counted up to StallTime
  interrupts

outbound == <<records, offset, bytes, stalled>>
thread   == <<pc, budget, attempts, cause>>
mac      == <<macGot, macPos, macFailed>>
vars     == <<encSeq, outbound, thread, net, mac, sent, sinceWrite, interrupts>>

TypeOK ==
  /\ encSeq \in 0..MaxSeq
  /\ records \in Seq(Records)
  /\ offset \in Nat /\ bytes \in 0..BacklogLimit
  /\ stalled \in 0..StallTime \cup {Never}
  /\ pc \in {"idle", "flush", "over"}
  /\ budget \in 0..FlushBudget /\ attempts \in 0..FlushAttempts
  /\ cause \in {"none", "exhausted", "backlog", "stalled", "closed"}
  /\ net \in Seq(Fragments)
  /\ macGot \in Seq(Messages) /\ macPos \in Nat /\ macFailed \in BOOLEAN
  /\ sent \in Seq(Messages)
  /\ sinceWrite \in 0..StallTime /\ interrupts \in 0..MaxInterrupt

Init ==
  /\ encSeq = 0
  /\ records = <<>> /\ offset = 0 /\ bytes = 0 /\ stalled = Never
  /\ pc = "idle" /\ budget = 0 /\ attempts = 0 /\ cause = "none"
  /\ net = <<>>
  /\ macGot = <<>> /\ macPos = 0 /\ macFailed = FALSE
  /\ sent = <<>> /\ sinceWrite = 0 /\ interrupts = 0

-----------------------------------------------------------------------------
(* The owner of the connection *)

Over(why) == pc' = "over" /\ cause' = why /\ UNCHANGED <<budget, attempts>>

\* flush is entered with its full budget.
EnterFlush ==
  /\ pc' = "flush" /\ budget' = FlushBudget /\ attempts' = FlushAttempts
  /\ UNCHANGED cause

\* write_record that goes on when the backlog refuses a record
PushLossy(m, n) ==
  /\ IF bytes + n <= BacklogLimit
       THEN /\ records' = Append(records, [seq |-> encSeq, msg |-> m, len |-> n])
            /\ bytes' = bytes + n
            /\ sent' = Append(sent, m)
       ELSE UNCHANGED <<records, bytes, sent>>
  /\ EnterFlush

\* push without its limit
PushUnlimited(m, n) ==
  /\ records' = Append(records, [seq |-> encSeq, msg |-> m, len |-> n])
  /\ bytes' = bytes + n
  /\ sent' = Append(sent, m)
  /\ EnterFlush

\* write_record: Outbound::push, then flush.
Push(m, n) ==
  IF bytes + n <= BacklogLimit
    THEN /\ records' = Append(records, [seq |-> encSeq, msg |-> m, len |-> n])
         /\ bytes' = bytes + n
         /\ sent' = Append(sent, m)
         /\ EnterFlush
    ELSE Over("backlog") /\ UNCHANGED <<records, bytes, sent>>

\* send: the sequence number is used up before the backlog is asked.
Send(m, n) ==
  /\ pc = "idle"
  /\ IF encSeq < MaxSeq
       THEN encSeq' = encSeq + 1 /\ Push(m, n)
       ELSE Over("exhausted") /\ UNCHANGED <<encSeq, records, bytes, sent>>
  /\ sinceWrite' = IF records = <<>> THEN 0 ELSE sinceWrite
  /\ UNCHANGED <<offset, stalled, net, mac, interrupts>>

SendInput(n) == Send("input", n)

\* try_send_file_message; a fuller backlog makes it return without a change.
SendBulk(n) == bytes <= BulkLimit /\ Send("bulk", n)

\* poll_control begins with a flush.
Poll ==
  /\ pc = "idle" /\ EnterFlush
  /\ UNCHANGED <<encSeq, outbound, net, mac, sent, sinceWrite, interrupts>>

Writing == pc = "flush" /\ records # <<>> /\ attempts > 0

\* flush: n more units of the first record are written.
Advance(n) ==
  /\ bytes' = bytes - n
  /\ IF offset + n = Head(records).len
       THEN records' = Tail(records) /\ offset' = 0
       ELSE records' = records /\ offset' = offset + n

\* flush: a write that is taken, in part or in full.
ClearStallNever == UNCHANGED stalled
ClearStall == stalled' = Never

Write(n) ==
  /\ Writing /\ Len(net) < MaxNet
  /\ n <= budget /\ n <= Head(records).len - offset
  /\ net' = Append(net, [seq |-> Head(records).seq, msg |-> Head(records).msg,
                         from |-> offset, to |-> offset + n,
                         last |-> offset + n = Head(records).len])
  /\ Advance(n) /\ ClearStall
  /\ budget' = budget - n /\ attempts' = attempts - 1
  /\ pc' = IF budget = n THEN "idle" ELSE "flush"
  /\ sinceWrite' = 0
  /\ UNCHANGED <<encSeq, cause, mac, sent, interrupts>>

\* flush: WouldBlock without the time limit
WriteBlocksForever ==
  /\ Writing
  /\ stalled' = IF stalled = Never THEN 0 ELSE stalled
  /\ pc' = "idle"
  /\ UNCHANGED <<encSeq, records, offset, bytes, budget, attempts, cause, net, mac,
                 sent, sinceWrite, interrupts>>

\* flush: WouldBlock.
WriteBlocks ==
  /\ Writing
  /\ IF stalled = StallTime
       THEN Over("stalled") /\ UNCHANGED stalled
       ELSE /\ stalled' = IF stalled = Never THEN 0 ELSE stalled
            /\ pc' = "idle" /\ UNCHANGED <<budget, attempts, cause>>
  /\ UNCHANGED <<encSeq, records, offset, bytes, net, mac, sent, sinceWrite,
                 interrupts>>

\* flush: Interrupted.
WriteInterrupted ==
  /\ Writing /\ interrupts < MaxInterrupt
  /\ interrupts' = interrupts + 1 /\ attempts' = attempts - 1
  /\ UNCHANGED <<encSeq, outbound, pc, budget, cause, net, mac, sent, sinceWrite>>

\* flush: Ok(0) or any other error.
WriteFails ==
  /\ Writing /\ Over("closed")
  /\ UNCHANGED <<encSeq, outbound, net, mac, sent, sinceWrite, interrupts>>

\* flush: nothing left to write, or no attempt left.
FlushDone ==
  /\ pc = "flush" /\ (records = <<>> \/ attempts = 0)
  /\ pc' = "idle"
  /\ UNCHANGED <<encSeq, outbound, budget, attempts, cause, net, mac, sent,
                 sinceWrite, interrupts>>

-----------------------------------------------------------------------------
(* Time, and the Mac *)

Tick ==
  /\ pc # "over"
  /\ stalled' = IF stalled \in 0..StallTime - 1 THEN stalled + 1 ELSE stalled
  /\ sinceWrite' = IF records # <<>> /\ sinceWrite < StallTime THEN sinceWrite + 1
                                                              ELSE sinceWrite
  /\ UNCHANGED <<encSeq, records, offset, bytes, thread, net, mac, sent, interrupts>>

\* The Mac reads what comes next and verifies a record once it is complete.
MacReads ==
  /\ net # <<>> /\ ~macFailed
  /\ net' = Tail(net)
  /\ LET f == Head(net)
     IN IF f.seq = Len(macGot) /\ f.from = macPos
          THEN /\ UNCHANGED macFailed
               /\ IF f.last THEN macGot' = Append(macGot, f.msg) /\ macPos' = 0
                            ELSE macPos' = f.to /\ UNCHANGED macGot
          ELSE macFailed' = TRUE /\ UNCHANGED <<macGot, macPos>>
  /\ UNCHANGED <<encSeq, outbound, thread, sent, sinceWrite, interrupts>>

Flush ==
  \/ \E n \in 1..MaxRecord : Write(n)
  \/ WriteBlocks \/ FlushDone

Next ==
  \/ \E n \in 1..MaxRecord : SendInput(n) \/ SendBulk(n)
  \/ Poll \/ Flush \/ WriteInterrupted \/ WriteFails
  \/ Tick \/ MacReads

Spec == Init /\ [][Next]_vars

\* run_session polls the connection in every iteration, and time passes.
\* Nothing is assumed of the network and the Mac.
FairSpec == Spec /\ WF_vars(Poll) /\ WF_vars(Flush) /\ WF_vars(Tick)

-----------------------------------------------------------------------------
(* Properties *)

\* The Mac can verify every record: sequence numbers on the wire have no gap
\* and no record is torn, repeated or overtaken by another, although records
\* are written in pieces and a sequence number is used up by records that are
\* never written.
MacInStep == ~macFailed

\* The backlog's count comes back to nothing with the backlog: otherwise bulk
\* would stop, or the limit be lost.
BacklogDrains == records = <<>> <=> bytes = 0

\* A session is only ended as stalled if the socket has taken nothing for the
\* whole time limit while something was waiting.
StallIsReal == cause = "stalled" => sinceWrite = StallTime

\* The other side sees a stream of messages and never loses its place in it.
Stream == INSTANCE MessageStream
            WITH got <- macGot, open <- pc # "over", inStep <- ~macFailed
StreamSpec == Stream!Spec

\* Whatever is in the backlog leaves it, or the session ends: a Mac that stops
\* reading does not hold the session.
Unwritten == Len(sent) - Len(records)
EverythingLeaves == \A k \in 1..MaxSeq : Len(sent) >= k ~> Unwritten >= k \/ pc = "over"
=============================================================================
