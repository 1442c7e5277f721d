------------------------- MODULE FileTransferProofs -------------------------
(***************************************************************************)
(* Proofs about FileTransfer: the safety properties of its runs, for any   *)
(* number of sessions, requests, ids and chunks, and channels of any       *)
(* capacity.                                                               *)
(*                                                                         *)
(* The argument.  Sessions follow one another, and the view's one slot     *)
(* stands for what is queued or worked on in the live one (Lives, Slots).  *)
(* A job is in one place and gets one id, which no other job has (Owned),  *)
(* and the worker's locals say how far it is (Locals).  So the messages    *)
(* that wait for the socket continue what the Mac holds, one after the     *)
(* other (MacHas, Stream: each message on the line has a place in its      *)
(* transfer, and the places follow one another), ids are requested in      *)
(* order, and none after a failed one (Asked).  If the Mac says no more of *)
(* a transfer it has ended, what a worker has not read yet is about its    *)
(* own transfer and ends at most once, last (Answers).                     *)
(***************************************************************************)
EXTENDS FileTransfer, SequenceTheorems, TLAPS

-----------------------------------------------------------------------------
(* The invariant *)

Waiting == {"unborn", "top", "recv", "done"}     \* without a job
Named   == {"prepare", "send", "await", "receive", "flush", "persist", "finish", "report", "latch"}
Past    == {"await", "receive", "flush", "persist"}

\* Sessions come one after the other; only the live one is routed to and has a
\* sender, and only those that were opened have a worker.
Lives ==
  /\ live \in {0, gen} /\ route = live
  /\ live = 0 => spc = "loop" /\ taken = <<>> /\ pending = NoMsg
  /\ spc = "deliver" => taken # <<>>
  /\ \A s \in Sessions :
       /\ s # live => outgoing[s] = <<>>
       /\ w[s].pc = "unborn" <=> s > gen
       /\ s > gen => outgoing[s] = <<>> /\ seen[s].id = NoId /\ seen[s].ids = {}

\* One request at a time: what is queued or worked on is what the view shows.
Slots ==
  /\ BusyCoversJob
  /\ \A s \in Sessions :
       /\ Len(jobq[s]) <= 1
       /\ jobq[s] # <<>> => w[s].pc \notin {"unborn", "done"} /\ ~Working(s)
       /\ w[s].pc \in {"unborn", "done"} => incoming[s] = <<>>

\* Where each worker is with its job.
Local(s) ==
  /\ w[s].job = NoJob <=> w[s].pc \in Waiting
  /\ w[s].pos > 0 => w[s].started
  /\ w[s].started => w[s].pc \in Named \ {"prepare"}
  /\ w[s].pc \in {"send"} \cup Past => w[s].started
  /\ w[s].pc = "latch" => w[s].started /\ ~w[s].ok
  /\ w[s].ok => w[s].pc \in {"finish", "report"}
  /\ w[s].pc \in Named /\ w[s].started => kind[w[s].job] # "none" /\ w[s].pos <= LastPos(s) + 1
  /\ w[s].pc = "send" => w[s].pos <= LastPos(s)
  /\ w[s].pc \in {"flush", "persist"} => w[s].saw /\ w[s].bytes = w[s].total
Locals == \A s \in Sessions : Local(s)

\* A job is in one place, gets its name once, and its result after that.
InHand(s) ==
  /\ jobq[s] # <<>> => kind[Head(jobq[s])] # "none" /\ tid[Head(jobq[s])] = <<0, NoId>>
  /\ w[s].pc \in {"drain", "activate"} => kind[w[s].job] # "none" /\ tid[w[s].job] = <<0, NoId>>
  /\ w[s].pc \in Named => kind[w[s].job] # "none" /\ tid[w[s].job] = <<s, w[s].id>>
  /\ w[s].pc \in Named \ {"latch"} => outcome[w[s].job] = "none"
Apart(s, t) ==
  /\ jobq[s] # <<>> /\ jobq[t] # <<>> /\ Head(jobq[s]) = Head(jobq[t]) => s = t
  /\ w[s].job # NoJob /\ w[s].job = w[t].job => s = t
  /\ w[s].job # NoJob /\ jobq[t] # <<>> => w[s].job # Head(jobq[t])
Placed(j, s) ==
  tid[j][1] = s =>
    /\ w[s].pc # "unborn"
    /\ \/ w[s].pc = "done"
       \/ tid[j][2] < w[s].id
       \/ tid[j][2] = w[s].id /\ w[s].pc \in Named /\ w[s].job = j
InOrder(j) ==
  /\ kind[j] = "none" => tid[j] = <<0, NoId>>
  /\ outcome[j] # "none" => tid[j] # <<0, NoId>>
Distinct(i, j) == tid[i] = tid[j] /\ tid[i] # <<0, NoId>> => i = j
Owned ==
  /\ \A s \in Sessions : InHand(s)
  /\ \A s, t \in Sessions : Apart(s, t)
  /\ \A j \in Jobs : InOrder(j) /\ \A s \in Sessions : Placed(j, s)
  /\ \A i, j \in Jobs : Distinct(i, j)

\* What is on its way to the Mac.
Line == IF pending = NoMsg THEN outgoing[live] ELSE <<pending>> \o outgoing[live]

KindAt(j, p) == CASE p = 0                -> kind[j]
                  [] p \in 1..2           -> "meta"
                  [] p \in 3..2 + size[j] -> "data"
                  [] OTHER                -> "end"
LastAt(j) == IF kind[j] = "upload" THEN size[j] + 3 ELSE 0

\* The Mac holds the beginning of the last transfer it was asked for.
Held(x, j) ==
  /\ x.meta <= 2 /\ x.data <= size[j]
  /\ x.data > 0 => x.meta = 2
  /\ x.end => x.meta = 2 /\ x.data = size[j]
  /\ x.meta > 0 \/ x.end => kind[j] = "upload"

MacHas ==
  \A s \in Sessions :
    /\ seen[s].id = NoId => seen[s] = [ids |-> {}, id |-> NoId, meta |-> 0, data |-> 0, end |-> FALSE]
    /\ seen[s].id # NoId => \E j \in Jobs : tid[j] = <<s, seen[s].id>> /\ Held(seen[s], j)

\* How many messages of its last transfer the Mac has, less one.
PlaceOf(x) == x.meta + x.data + (IF x.end THEN 1 ELSE 0)
Place(s) == PlaceOf(seen[s])

MessageOf(s, m, p) ==
  \E j \in Jobs : tid[j] = <<s, m.id>> /\ p <= LastAt(j) /\ m.kind = KindAt(j, p)

Follows(i, p, k, q) == (k = i /\ q = p + 1) \/ (k > i /\ q = 0)

IdBefore(s, line, k) == IF k = 1 THEN seen[s].id ELSE line[k - 1].id
LastId(s, line) == IF Len(line) = 0 THEN seen[s].id ELSE line[Len(line)].id

Chain(s, line, f) ==
  /\ f[0] = Place(s)
  /\ \A k \in 1..Len(line) :
       /\ MessageOf(s, line[k], f[k])
       /\ Follows(IdBefore(s, line, k), f[k - 1], line[k].id, f[k])

Stream ==
  live # 0 =>
    \E f \in [0..Len(Line) -> 0..MaxChunk + 3] :
       /\ Chain(live, Line, f)
       /\ w[live].pos > 0 => LastId(live, Line) = w[live].id /\ f[Len(Line)] = w[live].pos - 1

\* Which transfers the Mac was asked for, or will be.
Requested(s, i) == i \in seen[s].ids \/ (s = live /\ \E k \in 1..Len(Line) : Line[k].id = i)

Asked ==
  \A s \in Sessions :
    /\ \A i \in seen[s].ids : i <= seen[s].id
    /\ seen[s].id # NoId => seen[s].id \in seen[s].ids
    /\ \A i \in Ids : Requested(s, i) => i <= w[s].id
    /\ Requested(s, w[s].id) => w[s].pc = "done" \/ w[s].pos > 0
    /\ \A j \in Jobs : outcome[j] = "failed" /\ tid[j][1] = s /\ Requested(s, tid[j][2])
                         => tid[j][2] = w[s].id

\* What the Mac answers, when it says no more of a transfer it has ended: all of
\* it is about the worker's transfer, and an end comes last.
Terminal(m) == m.kind \in {"end", "reject"}
Abouts(s) ==
  {m \in Replies : /\ m.id = w[s].id /\ m.id \in seen[s].ids
                   /\ Terminal(m) => <<s, m.id>> \in final
                   /\ m.kind = "end" => <<s, m.id>> \in ended}
All(q, A)   == \A k \in 1..Len(q) : q[k] \in A
HasEnd(q)   == \E k \in 1..Len(q) : Terminal(q[k])
EndsLast(q) == \A k \in 1..Len(q) : Terminal(q[k]) => k = Len(q)

Confirmed(s) == w[s].pc \in {"flush", "persist"} \/ w[s].ok

Answered(s) ==
  /\ \A i \in Ids : Requested(s, i) /\ i < w[s].id => <<s, i>> \in final
  /\ All(incoming[s], Abouts(s)) /\ EndsLast(incoming[s])
  /\ s = live => /\ All(taken, Abouts(s)) /\ EndsLast(taken)
                 /\ HasEnd(incoming[s]) => taken = <<>>
  /\ Confirmed(s) => /\ incoming[s] = <<>> /\ (s = live => taken = <<>>)
                     /\ <<s, w[s].id>> \in final /\ <<s, w[s].id>> \in ended

Answers ==
  /\ \A s \in Sessions : w[s].pc # "done" => Answered(s)
  /\ CompletionConfirmed

Core == TypeOK /\ Lives /\ Slots /\ Locals /\ Owned
IInv == Core /\ MacHas /\ Stream /\ Asked /\ (~MacRepeats => Answers)

-----------------------------------------------------------------------------
(* Types *)

\* The constants, one by one.
LEMMA Constants ==
  /\ MaxSession \in Nat \ {0} /\ MaxJob \in Nat \ {0} /\ MaxChunk \in Nat /\ MaxReply \in Nat
  /\ MaxId \in Nat /\ MaxId >= 2 /\ Requests \in [Jobs -> {"upload", "download"}]
  /\ Sessions = 1..MaxSession /\ Jobs = 1..MaxJob /\ Ids = 2..MaxId
  BY ConstantsAssumption DEF Sessions, Jobs, Ids

\* A worker that begins anew, and one that ends.
LEMMA FreshTyped ==
  ASSUME NEW i \in Ids
  PROVE  /\ Fresh(i) \in Workers
         /\ \A p \in WorkerPcs, j \in Jobs \cup {NoJob} :
              [Fresh(i) EXCEPT !.pc = p, !.job = j] \in Workers
         /\ \A p \in WorkerPcs : [Fresh(i) EXCEPT !.pc = p] \in Workers
  <1>1. Fresh(i) \in Workers
    <2>1. "top" \in WorkerPcs /\ Unknown \in 0..MaxChunk \cup {Unknown} /\ 0 \in 0..MaxChunk /\ NoJob \in Jobs \cup {NoJob}
      BY Constants DEF WorkerPcs
    <2> QED BY <2>1 DEF Fresh, Workers
  <1>2. ASSUME NEW p \in WorkerPcs, NEW j \in Jobs \cup {NoJob}
        PROVE  [Fresh(i) EXCEPT !.pc = p, !.job = j] \in Workers
    BY <1>1, <1>2 DEF Workers
  <1>3. ASSUME NEW p \in WorkerPcs
        PROVE  [Fresh(i) EXCEPT !.pc = p] \in Workers
    BY <1>1, <1>3 DEF Workers
  <1> QED BY <1>1, <1>2, <1>3

\* A queue by session, with one message more, one less, or none.
LEMMA QueuesTyped ==
  ASSUME NEW T, NEW q \in [Sessions -> Seq(T)], NEW s \in Sessions
  PROVE  /\ \A x \in T : [q EXCEPT ![s] = Append(@, x)] \in [Sessions -> Seq(T)]
         /\ [q EXCEPT ![s] = <<>>] \in [Sessions -> Seq(T)]
         /\ q[s] # <<>> => [q EXCEPT ![s] = Tail(@)] \in [Sessions -> Seq(T)] /\ Head(q[s]) \in T
  <1>1. q[s] \in Seq(T) /\ <<>> \in Seq(T)
    OBVIOUS
  <1>2. \A x \in T : Append(q[s], x) \in Seq(T)
    BY <1>1
  <1>3. q[s] # <<>> => Tail(q[s]) \in Seq(T) /\ Head(q[s]) \in T
    BY <1>1, HeadTailProperties
  <1> QED BY <1>1, <1>2, <1>3

\* A reply has an id, a kind and a size.
LEMMA RepliesTyped ==
  ASSUME NEW m \in Replies
  PROVE  /\ m.id \in Ids /\ m.n \in 0..MaxChunk
         /\ m.kind \in {"item", "new", "data", "end", "reject"}
  BY Constants DEF Replies

\* The start.
LEMMA TypeInit == Init => TypeOK
  <1> SUFFICES ASSUME Init PROVE TypeOK
    OBVIOUS
  <1>1. 2 \in Ids
    BY Constants
  <1>2. [Fresh(2) EXCEPT !.pc = "unborn"] \in Workers
    BY <1>1, FreshTyped DEF WorkerPcs
  <1>3. w \in [Sessions -> Workers]
    BY <1>2 DEF Init
  <1>4. seen \in [Sessions -> [ids : SUBSET Ids, id : Ids \cup {NoId}, meta : Nat, data : Nat, end : BOOLEAN]]
    BY DEF Init
  <1>5. /\ jobq \in [Sessions -> Seq(Jobs)] /\ incoming \in [Sessions -> Seq(Replies)]
        /\ outgoing \in [Sessions -> Seq(Outbound)] /\ taken \in Seq(Replies)
    BY DEF Init
  <1>6. /\ kind \in [Jobs -> {"none", "upload", "download"}] /\ size \in [Jobs -> 0..MaxChunk]
        /\ outcome \in [Jobs -> {"none", "complete", "failed"}]
        /\ tid \in [Jobs -> (Sessions \X Ids) \cup {<<0, NoId>>}]
    BY Constants DEF Init
  <1>7. /\ gen \in 0..MaxSession /\ route \in 0..MaxSession /\ live \in 0..MaxSession /\ replies \in 0..MaxReply
        /\ closed \in [Sessions -> BOOLEAN] /\ disconnect \in [Sessions -> BOOLEAN]
        /\ activeId \in [Sessions -> Ids \cup {NoId}]
    BY Constants DEF Init
  <1> QED BY <1>3, <1>4, <1>5, <1>6, <1>7 DEF Init, TypeOK

\* Each step keeps the types: a request ...
LEMMA SubmitTyped == ASSUME TypeOK, NEW j \in Jobs, Submit(j) PROVE TypeOK'
  <1>1. route \in Sessions
    BY Constants DEF Submit, TypeOK
  <1>2. jobq' \in [Sessions -> Seq(Jobs)] /\ kind' \in [Jobs -> {"none", "upload", "download"}]
    <2>1. jobq' \in [Sessions -> Seq(Jobs)]
      BY <1>1, QueuesTyped DEF Submit, TypeOK
    <2>2. Requests[j] \in {"none", "upload", "download"}
      BY Constants
    <2> QED BY <2>1, <2>2 DEF Submit, TypeOK
  <1> QED BY <1>2, Constants DEF Submit, TypeOK, pump, flags, mac, history

\* ... the steps that move no message and no job ...
LEMMA CalmTyped == ASSUME TypeOK, Cancel \/ ForeignCreates \/ PumpBegin \/ SessionFails \/ DropClose PROVE TypeOK'
  <1>1. CASE Cancel
    BY <1>1 DEF Cancel, TypeOK, shared, pump, chans, flags, mac, history
  <1>2. CASE ForeignCreates
    BY <1>2 DEF ForeignCreates, TypeOK, shared, jobs, pump, chans, flags, mac, history
  <1>3. CASE PumpBegin \/ SessionFails
    BY <1>3 DEF PumpBegin, SessionFails, TypeOK, shared, jobs, chans, flags, mac, history
  <1>4. CASE DropClose
    BY <1>4 DEF DropClose, TypeOK, shared, jobs, chans, flags, mac, history
  <1> QED BY <1>1, <1>2, <1>3, <1>4

\* ... a session that opens ...
LEMMA NewSessionTyped == ASSUME TypeOK, NewSession PROVE TypeOK'
  <1>1. gen + 1 \in Sessions /\ 2 \in Ids
    BY Constants DEF NewSession, TypeOK
  <1>2. Fresh(2) \in Workers
    BY <1>1, FreshTyped
  <1>3. w' \in [Sessions -> Workers]
    BY <1>1, <1>2 DEF NewSession, TypeOK
  <1>4. /\ gen' \in 0..MaxSession /\ live' \in 0..MaxSession /\ route' \in 0..MaxSession
        /\ current' \in Jobs \cup {NoJob} /\ replies' \in 0..MaxReply
    BY <1>1, Constants DEF NewSession
  <1> QED BY <1>3, <1>4 DEF NewSession, TypeOK, jobs, chans, flags, history

\* ... a reply that is matched and delivered ...
LEMMA ReplyTyped == ASSUME TypeOK, Lives, ReplyMatch \/ ReplyDeliver PROVE TypeOK'
  <1>1. taken # <<>> /\ Head(taken) \in Replies /\ Tail(taken) \in Seq(Replies)
    BY HeadTailProperties DEF ReplyMatch, ReplyDeliver, TypeOK, Lives
  <1>2. CASE ReplyMatch
    BY <1>1, <1>2 DEF ReplyMatch, TypeOK, shared, jobs, chans, flags, mac, history
  <1>3. CASE ReplyDeliver
    <2>1. live \in Sessions
      BY <1>3, Constants DEF ReplyDeliver, TypeOK, Lives
    <2>2. incoming' \in [Sessions -> Seq(Replies)]
      <3>1. [incoming EXCEPT ![live] = Append(@, Head(taken))] \in [Sessions -> Seq(Replies)]
        BY <1>1, <2>1, QueuesTyped DEF TypeOK
      <3> QED BY <1>3, <3>1 DEF ReplyDeliver, TypeOK
    <2>3. closed' \in [Sessions -> BOOLEAN] /\ disconnect' \in [Sessions -> BOOLEAN] /\ status' \in {"overrun", status}
      BY <1>3, <2>1 DEF ReplyDeliver, TypeOK
    <2> QED BY <1>1, <1>3, <2>2, <2>3 DEF ReplyDeliver, TypeOK, jobs, mac, history
  <1> QED BY <1>2, <1>3

\* What the Mac holds is well typed after any message.
LEMMA ReceivesTyped ==
  ASSUME NEW m \in Outbound,
         NEW x \in [ids : SUBSET Ids, id : Ids \cup {NoId}, meta : Nat, data : Nat, end : BOOLEAN]
  PROVE  Receives(x, m) \in [ids : SUBSET Ids, id : Ids \cup {NoId}, meta : Nat, data : Nat, end : BOOLEAN]
  <1>1. m.id \in Ids /\ m.kind \in {"upload", "download", "meta", "data", "end"}
    BY DEF Outbound
  <1>2. CASE m.kind \in {"upload", "download"}
    BY <1>1, <1>2 DEF Receives
  <1>3. CASE m.kind \notin {"upload", "download"}
    <2>1. /\ [x EXCEPT !.meta = x.meta + 1] \in [ids : SUBSET Ids, id : Ids \cup {NoId}, meta : Nat, data : Nat, end : BOOLEAN]
          /\ [x EXCEPT !.data = x.data + 1] \in [ids : SUBSET Ids, id : Ids \cup {NoId}, meta : Nat, data : Nat, end : BOOLEAN]
          /\ [x EXCEPT !.end = TRUE] \in [ids : SUBSET Ids, id : Ids \cup {NoId}, meta : Nat, data : Nat, end : BOOLEAN]
      <3>1. x.meta + 1 \in Nat /\ x.data + 1 \in Nat /\ TRUE \in BOOLEAN
        OBVIOUS
      <3>2. [x EXCEPT !.meta = x.meta + 1] \in [ids : SUBSET Ids, id : Ids \cup {NoId}, meta : Nat, data : Nat, end : BOOLEAN]
        BY <3>1
      <3>3. [x EXCEPT !.data = x.data + 1] \in [ids : SUBSET Ids, id : Ids \cup {NoId}, meta : Nat, data : Nat, end : BOOLEAN]
        BY <3>1
      <3>4. [x EXCEPT !.end = TRUE] \in [ids : SUBSET Ids, id : Ids \cup {NoId}, meta : Nat, data : Nat, end : BOOLEAN]
        BY <3>1
      <3> QED BY <3>2, <3>3, <3>4
    <2>2. CASE m.kind = "meta"
      BY <2>1, <2>2 DEF Receives
    <2>3. CASE m.kind = "data"
      BY <2>1, <2>3 DEF Receives
    <2>4. CASE m.kind = "end"
      BY <2>1, <2>4 DEF Receives
    <2> QED BY <1>1, <1>3, <2>2, <2>3, <2>4
  <1> QED BY <1>2, <1>3

\* ... a message that is sent to the Mac ...
LEMMA PumpSendTyped == ASSUME TypeOK, Lives, PumpSend PROVE TypeOK'
  <1>1. live \in Sessions
    BY Constants DEF PumpSend, TypeOK, Lives
  <1> DEFINE fetch == pending = NoMsg /\ outgoing[live] # <<>>
             next  == IF fetch THEN Head(outgoing[live]) ELSE pending
  <1>2. next \in Outbound \cup {NoMsg}
    BY <1>1, QueuesTyped DEF TypeOK
  <1>3. fetch => [outgoing EXCEPT ![live] = Tail(@)] \in [Sessions -> Seq(Outbound)]
    BY <1>1, QueuesTyped DEF TypeOK
  <1>4. outgoing' \in [Sessions -> Seq(Outbound)]
    BY <1>3 DEF PumpSend, TypeOK
  <1>5. pending' \in Outbound \cup {NoMsg}
    BY <1>2 DEF PumpSend, Yield, TypeOK
  <1>6. seen' \in [Sessions -> [ids : SUBSET Ids, id : Ids \cup {NoId}, meta : Nat, data : Nat, end : BOOLEAN]]
    <2>1. CASE UNCHANGED seen
      BY <2>1 DEF TypeOK
    <2>2. CASE next # NoMsg /\ seen' = [seen EXCEPT ![live] = Receives(@, next)]
      <3>1. Receives(seen[live], next) \in [ids : SUBSET Ids, id : Ids \cup {NoId}, meta : Nat, data : Nat, end : BOOLEAN]
        BY <1>1, <1>2, <2>2, ReceivesTyped DEF TypeOK
      <3> QED BY <1>1, <2>2, <3>1 DEF TypeOK
    <2> QED BY <2>1, <2>2 DEF PumpSend, Yield
  <1>7. spc' \in {"dropping", "loop"}
    BY DEF PumpSend
  <1> QED BY <1>4, <1>5, <1>6, <1>7 DEF PumpSend, TypeOK, shared, jobs, flags, history

\* ... a session that is dropped ...
LEMMA DropReleaseTyped == ASSUME TypeOK, Lives, DropRelease PROVE TypeOK'
  <1>1. live \in Sessions
    BY Constants DEF DropRelease, TypeOK, Lives
  <1>2. outgoing' \in [Sessions -> Seq(Outbound)]
    BY <1>1, QueuesTyped DEF DropRelease, TypeOK
  <1>3. /\ route' \in 0..MaxSession /\ live' \in 0..MaxSession /\ current' \in Jobs \cup {NoJob}
    <2>1. 0 \in 0..MaxSession /\ route' \in {0, route} /\ live' = 0 /\ current' \in {NoJob, current}
      BY Constants DEF DropRelease
    <2> QED BY <2>1 DEF TypeOK
  <1>4. cancelled' \subseteq Jobs /\ busy' \in BOOLEAN
    BY DEF DropRelease, TypeOK
  <1>5. status' \in {"stopped", status}
    BY DEF DropRelease
  <1>6. spc' = "loop" /\ taken' = <<>> /\ pending' = NoMsg
    BY DEF DropRelease
  <1>7. taken' \in Seq(Replies)
    BY <1>6
  <1> QED BY <1>2, <1>3, <1>4, <1>5, <1>6, <1>7 DEF DropRelease, TypeOK, flags, mac, history

\* ... and a message from the Mac.
LEMMA MacReplyTyped == ASSUME TypeOK, Lives, NEW m \in Replies, MacReply(m) PROVE TypeOK'
  <1>1. live \in Sessions /\ m.id \in Ids
    BY Constants, RepliesTyped DEF MacReply, TypeOK, Lives
  <1>2. taken' \in Seq(Replies) /\ replies' \in 0..MaxReply
    BY Constants DEF MacReply, TypeOK
  <1>3. ended' \subseteq Sessions \X Ids /\ final' \subseteq Sessions \X Ids
    BY <1>1 DEF MacReply, TypeOK
  <1> QED BY <1>2, <1>3 DEF MacReply, TypeOK, shared, jobs, chans, flags, history

-----------------------------------------------------------------------------
(* The worker's steps, and what each does to its locals *)

\* A step of one worker leaves the locals of the others alone.
Alone(s, x) ==
  w' \in [Sessions -> Workers] /\ w'[s] = x /\ \A t \in Sessions \ {s} : w'[t] = w[t]

\* One worker's locals replaced.
LEMMA WorkerLocals ==
  ASSUME TypeOK, NEW s \in Sessions, NEW x \in Workers, w' = [w EXCEPT ![s] = x]
  PROVE  Alone(s, x)
  BY DEF TypeOK, Alone

\* The fields of a worker's locals.
LEMMA WorkerTyped ==
  ASSUME TypeOK, NEW s \in Sessions
  PROVE  /\ w[s] \in Workers
         /\ w[s].pc \in WorkerPcs /\ w[s].id \in Ids /\ w[s].job \in Jobs \cup {NoJob}
         /\ w[s].started \in BOOLEAN /\ w[s].pos \in Nat /\ w[s].bytes \in 0..MaxChunk
         /\ w[s].total \in 0..MaxChunk \cup {Unknown} /\ w[s].saw \in BOOLEAN /\ w[s].ok \in BOOLEAN
  BY DEF TypeOK, Workers

\* What a step of worker s leaves in the locals that say where it is, and of
\* whom; the other workers keep theirs.
After(s, pc, id, job, started, pos, ok) ==
  /\ w' \in [Sessions -> Workers] /\ \A t \in Sessions \ {s} : w'[t] = w[t]
  /\ w'[s].pc = pc /\ w'[s].id = id /\ w'[s].job = job /\ w'[s].started = started
  /\ w'[s].pos = pos /\ w'[s].ok = ok

SameData(s) == w'[s].saw = w[s].saw /\ w'[s].bytes = w[s].bytes /\ w'[s].total = w[s].total

To(s, p)   == After(s, p, w[s].id, w[s].job, w[s].started, w[s].pos, w[s].ok)
Ends(s, b) == After(s, "finish", w[s].id, w[s].job, w[s].started, w[s].pos, b)
Gone(s)    == After(s, "done", w[s].id, NoJob, FALSE, 0, FALSE)

\* A worker that ends.
LEMMA ExitTyped ==
  ASSUME TypeOK, NEW s \in Sessions, Exit(s)
  PROVE  Gone(s) /\ jobq' \in [Sessions -> Seq(Jobs)] /\ incoming' \in [Sessions -> Seq(Replies)]
  <1>1. [Fresh(w[s].id) EXCEPT !.pc = "done"] \in Workers
    BY WorkerTyped, FreshTyped DEF WorkerPcs
  <1>2. jobq' \in [Sessions -> Seq(Jobs)] /\ incoming' \in [Sessions -> Seq(Replies)]
    BY QueuesTyped DEF Exit, TypeOK
  <1>3. Alone(s, [Fresh(w[s].id) EXCEPT !.pc = "done"])
    BY <1>1, WorkerLocals DEF Exit
  <1>4. Gone(s)
    BY <1>3 DEF Alone, After, Gone, Fresh
  <1> QED BY <1>2, <1>4

\* What the worker sends next is a message.
LEMMA MessageTyped ==
  ASSUME TypeOK, Locals, NEW s \in Sessions, w[s].pc = "send"
  PROVE  MessageAt(s) \in Outbound
  <1>1. w[s].started /\ w[s].job \in Jobs /\ kind[w[s].job] \in {"upload", "download"}
    BY WorkerTyped DEF Locals, Local, TypeOK, Waiting, Named
  <1>2. MessageAt(s).kind \in {"upload", "download", "meta", "data", "end"} /\ MessageAt(s).id \in Ids
    BY <1>1, WorkerTyped DEF MessageAt
  <1>3. MessageAt(s) = [id |-> MessageAt(s).id, kind |-> MessageAt(s).kind]
    BY DEF MessageAt
  <1> QED BY <1>2, <1>3 DEF Outbound

\* The records that the steps make of the locals.
LEMMA ShapesTyped ==
  ASSUME NEW x \in Workers
  PROVE  /\ \A p \in WorkerPcs : [x EXCEPT !.pc = p] \in Workers
         /\ \A p \in WorkerPcs, b \in BOOLEAN : /\ [x EXCEPT !.pc = p, !.ok = b] \in Workers
                                                /\ [x EXCEPT !.pc = p, !.started = b] \in Workers
         /\ \A p \in WorkerPcs, n \in Nat : [x EXCEPT !.pos = n, !.pc = p] \in Workers
         /\ \A n \in 0..MaxChunk : /\ [x EXCEPT !.total = n] \in Workers
                                   /\ [x EXCEPT !.total = n, !.saw = TRUE] \in Workers
                                   /\ [x EXCEPT !.bytes = n] \in Workers
  BY DEF Workers

\* A failure of upload or download.
LEMMA FailTyped ==
  ASSUME TypeOK, NEW s \in Sessions, Fail(s)
  PROVE  Ends(s, FALSE)
  <1>1. "finish" \in WorkerPcs /\ w[s] \in Workers
    BY WorkerTyped DEF WorkerPcs
  <1>2. w' = [w EXCEPT ![s] = [w[s] EXCEPT !.pc = "finish", !.ok = FALSE]]
    BY DEF Fail, TypeOK, Workers
  <1>3. [w[s] EXCEPT !.pc = "finish", !.ok = FALSE] \in Workers
    BY <1>1, ShapesTyped
  <1>4. Alone(s, [w[s] EXCEPT !.pc = "finish", !.ok = FALSE])
    BY <1>2, <1>3, WorkerLocals
  <1> QED BY <1>1, <1>4 DEF Alone, After, Ends, Workers

\* A step to another place.
LEMMA MoveTyped ==
  ASSUME TypeOK, NEW s \in Sessions, NEW p \in WorkerPcs, Move(s, p)
  PROVE  To(s, p) /\ SameData(s)
  <1>1. w' = [w EXCEPT ![s] = [w[s] EXCEPT !.pc = p]]
    BY DEF Move, TypeOK, Workers
  <1>2. [w[s] EXCEPT !.pc = p] \in Workers /\ w[s] \in Workers
    BY WorkerTyped, ShapesTyped
  <1>3. Alone(s, [w[s] EXCEPT !.pc = p])
    BY <1>1, <1>2, WorkerLocals
  <1> QED BY <1>2, <1>3 DEF Alone, After, To, SameData, Workers

\* What each step of the worker makes of its locals.
LEMMA LoopTopStep ==
  ASSUME TypeOK, NEW s \in Sessions, LoopTop(s)
  PROVE  \/ To(s, "recv") /\ UNCHANGED <<jobq, incoming>>
         \/ Gone(s) /\ Exit(s)
  BY ExitTyped, MoveTyped DEF LoopTop, WorkerPcs

\* It takes the queued job, or ends.
LEMMA RecvJobStep ==
  ASSUME TypeOK, NEW s \in Sessions, RecvJob(s)
  PROVE  \/ /\ jobq[s] # <<>> /\ jobq' = [jobq EXCEPT ![s] = Tail(@)] /\ UNCHANGED incoming
            /\ After(s, "drain", w[s].id, Head(jobq[s]), FALSE, 0, FALSE)
         \/ Gone(s) /\ Exit(s)
  <1>1. CASE Exit(s)
    BY <1>1, ExitTyped
  <1>2. CASE ~Exit(s)
    <2>1. jobq[s] # <<>> /\ jobq' = [jobq EXCEPT ![s] = Tail(@)] /\ UNCHANGED incoming
      BY <1>2 DEF RecvJob
    <2>2. Head(jobq[s]) \in Jobs
      BY <2>1, QueuesTyped DEF TypeOK
    <2>3. [Fresh(w[s].id) EXCEPT !.pc = "drain", !.job = Head(jobq[s])] \in Workers
      BY <2>2, WorkerTyped, FreshTyped DEF WorkerPcs
    <2>4. Alone(s, [Fresh(w[s].id) EXCEPT !.pc = "drain", !.job = Head(jobq[s])])
      BY <1>2, <2>3, WorkerLocals DEF RecvJob
    <2>5. After(s, "drain", w[s].id, Head(jobq[s]), FALSE, 0, FALSE)
      BY <2>4 DEF Alone, After, Fresh
    <2> QED BY <2>1, <2>5
  <1> QED BY <1>1, <1>2

\* It refuses the transfer, or starts it with the size of the file.
LEMMA PrepareStep ==
  ASSUME TypeOK, NEW s \in Sessions, Prepare(s)
  PROVE  \/ Ends(s, FALSE) /\ UNCHANGED <<status, size>>
         \/ /\ After(s, "send", w[s].id, w[s].job, TRUE, w[s].pos, w[s].ok)
            /\ size' \in [Jobs -> 0..MaxChunk] /\ \A j \in Jobs \ {w[s].job} : size'[j] = size[j]
            /\ status' \in {"active", status}
  <1>1. CASE Fail(s) /\ UNCHANGED <<status, size>>
    BY <1>1, FailTyped
  <1>2. CASE ~(Fail(s) /\ UNCHANGED <<status, size>>)
    <2>1. w' = [w EXCEPT ![s].pc = "send", ![s].started = TRUE]
      BY <1>2 DEF Prepare
    <2>2. w' = [w EXCEPT ![s] = [w[s] EXCEPT !.pc = "send", !.started = TRUE]]
      BY <2>1 DEF TypeOK, Workers
    <2>3. [w[s] EXCEPT !.pc = "send", !.started = TRUE] \in Workers
      BY WorkerTyped, ShapesTyped DEF WorkerPcs
    <2>4. size' \in [Jobs -> 0..MaxChunk] /\ \A j \in Jobs \ {w[s].job} : size'[j] = size[j]
      <3>1. size' = size \/ \E n \in 0..MaxChunk : size' = [size EXCEPT ![w[s].job] = n]
        BY <1>2 DEF Prepare
      <3>2. CASE size' = size
        BY <3>2 DEF TypeOK
      <3>3. ASSUME NEW n \in 0..MaxChunk, size' = [size EXCEPT ![w[s].job] = n]
            PROVE  size' \in [Jobs -> 0..MaxChunk] /\ \A j \in Jobs \ {w[s].job} : size'[j] = size[j]
        <4>1. size \in [Jobs -> 0..MaxChunk]
          BY DEF TypeOK
        <4> QED BY <3>3, <4>1
      <3> QED BY <3>1, <3>2, <3>3
    <2>5. status' \in {"active", status}
      BY <1>2 DEF Prepare
    <2>6. Alone(s, [w[s] EXCEPT !.pc = "send", !.started = TRUE])
      BY <2>2, <2>3, WorkerLocals
    <2>7. After(s, "send", w[s].id, w[s].job, TRUE, w[s].pos, w[s].ok)
      BY <2>6, WorkerTyped DEF Alone, After, Workers
    <2> QED BY <2>4, <2>5, <2>7
  <1> QED BY <1>1, <1>2

NextPlace(s) == IF w[s].pos < LastPos(s) THEN "send"
                ELSE IF kind[w[s].job] = "upload" THEN "await" ELSE "receive"

\* It gives up, or queues the next message.
LEMMA SendStep ==
  ASSUME TypeOK, NEW s \in Sessions, Send(s)
  PROVE  \/ Ends(s, FALSE) /\ UNCHANGED outgoing
         \/ /\ live = s /\ outgoing' = [outgoing EXCEPT ![s] = Append(@, MessageAt(s))]
            /\ After(s, NextPlace(s), w[s].id, w[s].job, w[s].started, w[s].pos + 1, w[s].ok)
  <1>1. CASE Fail(s) /\ UNCHANGED outgoing
    BY <1>1, FailTyped
  <1>2. CASE ~(Fail(s) /\ UNCHANGED outgoing)
    <2> DEFINE p == NextPlace(s)
    <2>1. w' = [w EXCEPT ![s].pos = w[s].pos + 1, ![s].pc = p]
      BY <1>2 DEF Send, NextPlace, TypeOK
    <2>2. w' = [w EXCEPT ![s] = [w[s] EXCEPT !.pos = w[s].pos + 1, !.pc = p]]
      BY <2>1 DEF TypeOK, Workers
    <2>3. p \in WorkerPcs /\ w[s].pos + 1 \in Nat
      BY WorkerTyped DEF WorkerPcs, NextPlace
    <2> HIDE DEF p
    <2>4. [w[s] EXCEPT !.pos = w[s].pos + 1, !.pc = p] \in Workers
      BY <2>3, WorkerTyped, ShapesTyped
    <2>5. Alone(s, [w[s] EXCEPT !.pos = w[s].pos + 1, !.pc = p])
      BY <2>2, <2>4, WorkerLocals
    <2>6. After(s, p, w[s].id, w[s].job, w[s].started, w[s].pos + 1, w[s].ok)
      BY <2>5, WorkerTyped DEF Alone, After, Workers
    <2> QED BY <1>2, <2>6 DEF Send, p
  <1> QED BY <1>1, <1>2

\* The reply to an upload ends it.
LEMMA AwaitReplyStep ==
  ASSUME TypeOK, NEW s \in Sessions, AwaitReply(s)
  PROVE  Ends(s, Head(incoming[s]).kind = "end")
  <1> DEFINE b == Head(incoming[s]).kind = "end"
  <1>1. w' = [w EXCEPT ![s] = [w[s] EXCEPT !.pc = "finish", !.ok = b]]
    BY DEF AwaitReply, Confirms, TypeOK, Workers
  <1>2. b \in BOOLEAN
    OBVIOUS
  <1> HIDE DEF b
  <1>3. [w[s] EXCEPT !.pc = "finish", !.ok = b] \in Workers
    BY <1>2, WorkerTyped, ShapesTyped DEF WorkerPcs
  <1>4. Alone(s, [w[s] EXCEPT !.pc = "finish", !.ok = b])
    BY <1>1, <1>3, WorkerLocals
  <1>5. Ends(s, b)
    BY <1>4, WorkerTyped DEF Alone, After, Ends, Workers
  <1> QED BY <1>5 DEF b

\* A reply to a download ends it badly, is taken, or leads to the flush of a
\* file of the announced size.
LEMMA ReceiveReplyStep ==
  ASSUME TypeOK, NEW s \in Sessions, ReceiveReply(s)
  PROVE  /\ Head(incoming[s]) \in Replies
         /\ \/ Ends(s, FALSE)
            \/ To(s, "receive")
            \/ /\ To(s, "flush") /\ SameData(s)
               /\ Head(incoming[s]).kind = "end" /\ w[s].saw /\ w[s].bytes = w[s].total
  <1> DEFINE m == Head(incoming[s])
  <1>1. m \in Replies /\ w[s] \in Workers /\ w[s].pc = "receive"
    BY QueuesTyped, WorkerTyped DEF ReceiveReply, TypeOK
  <1>2. m.n \in 0..MaxChunk /\ m.kind \in {"item", "new", "data", "end", "reject"}
    BY <1>1, RepliesTyped
  <1>3. CASE ~Acceptable(w[s], m)
    BY <1>1, <1>3, FailTyped DEF ReceiveReply
  <1>4. CASE Acceptable(w[s], m) /\ m.kind = "item"
    <2>1. w' = [w EXCEPT ![s] = [w[s] EXCEPT !.total = m.n]]
      BY <1>4 DEF ReceiveReply, TypeOK, Workers
    <2>2. [w[s] EXCEPT !.total = m.n] \in Workers
      BY <1>1, <1>2, ShapesTyped
    <2>3. Alone(s, [w[s] EXCEPT !.total = m.n])
      BY <2>1, <2>2, WorkerLocals
    <2>4. To(s, "receive")
      BY <1>1, <2>3 DEF Alone, After, To, Workers
    <2> QED BY <1>1, <2>4
  <1>5. CASE Acceptable(w[s], m) /\ m.kind = "new"
    <2>1. w' = [w EXCEPT ![s] = [w[s] EXCEPT !.total = m.n, !.saw = TRUE]]
      BY <1>5 DEF ReceiveReply, TypeOK, Workers
    <2>2. [w[s] EXCEPT !.total = m.n, !.saw = TRUE] \in Workers
      BY <1>1, <1>2, ShapesTyped
    <2>3. Alone(s, [w[s] EXCEPT !.total = m.n, !.saw = TRUE])
      BY <2>1, <2>2, WorkerLocals
    <2>4. To(s, "receive")
      BY <1>1, <2>3 DEF Alone, After, To, Workers
    <2> QED BY <1>1, <2>4
  <1>6. CASE Acceptable(w[s], m) /\ m.kind = "data"
    <2>1. w[s].bytes + m.n \in 0..MaxChunk
      <3>1. MaxChunk \in Nat /\ w[s].bytes \in 0..MaxChunk /\ w[s].total \in 0..MaxChunk \cup {Unknown}
        BY Constants, WorkerTyped
      <3>2. w[s].bytes + m.n <= (IF w[s].total = Unknown THEN MaxChunk ELSE w[s].total)
        BY <1>6 DEF Acceptable
      <3>3. w[s].bytes + m.n <= MaxChunk
        BY <1>2, <3>1, <3>2
      <3> QED BY <1>2, <3>1, <3>3
    <2>2. w' = [w EXCEPT ![s].bytes = w[s].bytes + m.n]
      BY <1>6 DEF ReceiveReply, TypeOK
    <2>3. w' = [w EXCEPT ![s] = [w[s] EXCEPT !.bytes = w[s].bytes + m.n]]
      BY <2>2 DEF TypeOK, Workers
    <2>4. [w[s] EXCEPT !.bytes = w[s].bytes + m.n] \in Workers
      BY <1>1, <2>1, ShapesTyped
    <2>5. Alone(s, [w[s] EXCEPT !.bytes = w[s].bytes + m.n])
      BY <2>3, <2>4, WorkerLocals
    <2>6. To(s, "receive")
      BY <1>1, <2>5 DEF Alone, After, To, Workers
    <2> QED BY <1>1, <2>6
  <1>7. CASE Acceptable(w[s], m) /\ m.kind = "end"
    <2>1. Move(s, "flush") /\ w[s].saw /\ w[s].bytes = w[s].total
      BY <1>7 DEF ReceiveReply, Acceptable
    <2> QED BY <1>1, <1>7, <2>1, MoveTyped DEF WorkerPcs
  <1>8. CASE Acceptable(w[s], m) /\ m.kind = "reject"
    BY <1>8 DEF Acceptable
  <1> QED BY <1>2, <1>3, <1>4, <1>5, <1>6, <1>7, <1>8

\* The flush leads to the publication or fails.
LEMMA FlushStep ==
  ASSUME TypeOK, NEW s \in Sessions, Flush(s)
  PROVE  (To(s, "persist") /\ SameData(s)) \/ Ends(s, FALSE)
  BY FailTyped, MoveTyped DEF Flush, WorkerPcs

\* The publication takes the free path or fails.
LEMMA PersistStep ==
  ASSUME TypeOK, NEW s \in Sessions, Persist(s)
  PROVE  \/ Ends(s, TRUE) /\ dest = Absent /\ dest' = w[s].job
         \/ Ends(s, FALSE) /\ UNCHANGED dest
  <1>1. CASE dest # Absent
    BY <1>1, FailTyped DEF Persist
  <1>2. CASE dest = Absent
    <2>1. w' = [w EXCEPT ![s] = [w[s] EXCEPT !.pc = "finish", !.ok = TRUE]]
      BY <1>2 DEF Persist, TypeOK, Workers
    <2>2. [w[s] EXCEPT !.pc = "finish", !.ok = TRUE] \in Workers
      BY WorkerTyped, ShapesTyped DEF WorkerPcs
    <2>3. Alone(s, [w[s] EXCEPT !.pc = "finish", !.ok = TRUE])
      BY <2>1, <2>2, WorkerLocals
    <2>4. Ends(s, TRUE)
      BY <2>3, WorkerTyped DEF Alone, After, Ends, Workers
    <2> QED BY <1>2, <2>4 DEF Persist
  <1> QED BY <1>1, <1>2

\* After the report it holds on, takes the next id, or ends.
LEMMA ReportStep ==
  ASSUME TypeOK, NEW s \in Sessions, Report(s)
  PROVE  \/ EndsSession(w[s]) /\ To(s, "latch") /\ UNCHANGED <<jobq, incoming>>
         \/ /\ ~EndsSession(w[s]) /\ w[s].id + 1 \in Ids
            /\ After(s, "top", w[s].id + 1, NoJob, FALSE, 0, FALSE) /\ UNCHANGED <<jobq, incoming>>
         \/ ~EndsSession(w[s]) /\ Exit(s) /\ Gone(s)
  <1>1. CASE EndsSession(w[s])
    <2>1. w' = [w EXCEPT ![s] = [w[s] EXCEPT !.pc = "latch"]] /\ UNCHANGED <<jobq, incoming>>
      BY <1>1 DEF Report, TypeOK
    <2>2. [w[s] EXCEPT !.pc = "latch"] \in Workers
      BY WorkerTyped, ShapesTyped DEF WorkerPcs
    <2>3. Alone(s, [w[s] EXCEPT !.pc = "latch"])
      BY <2>1, <2>2, WorkerLocals
    <2>4. To(s, "latch")
      BY <2>3, WorkerTyped DEF Alone, After, To, Workers
    <2> QED BY <1>1, <2>1, <2>4
  <1>2. CASE ~EndsSession(w[s]) /\ w[s].id < MaxId
    <2>1. w' = [w EXCEPT ![s] = Fresh(w[s].id + 1)] /\ UNCHANGED <<jobq, incoming>>
      BY <1>2 DEF Report, TypeOK
    <2>2. w[s].id + 1 \in Ids
      BY <1>2, WorkerTyped, Constants
    <2>3. Alone(s, Fresh(w[s].id + 1))
      BY <2>1, <2>2, FreshTyped, WorkerLocals
    <2>4. After(s, "top", w[s].id + 1, NoJob, FALSE, 0, FALSE)
      BY <2>3 DEF Alone, After, Fresh
    <2> QED BY <1>2, <2>1, <2>2, <2>4
  <1>3. CASE ~EndsSession(w[s]) /\ ~(w[s].id < MaxId)
    BY <1>3, ExitTyped DEF Report
  <1> QED BY <1>1, <1>2, <1>3

\* A worker's steps keep the types.
LEMMA WorkerThreadTyped ==
  ASSUME TypeOK, Lives, Locals, NEW s \in Sessions, WorkerThread(s)
  PROVE  TypeOK'
  <1>1. CASE LoopTop(s)
    <2>1. /\ w' \in [Sessions -> Workers]
          /\ jobq' \in [Sessions -> Seq(Jobs)] /\ incoming' \in [Sessions -> Seq(Replies)]
      BY <1>1, LoopTopStep, ExitTyped DEF After, To, Ends, Gone, TypeOK
    <2> QED BY <1>1, <2>1, ZenonT(40) DEF LoopTop, TypeOK, shared, jobs, pump, flags, mac, history
  <1>2. CASE RecvJob(s)
    <2>1. jobq[s] # <<>> => [jobq EXCEPT ![s] = Tail(@)] \in [Sessions -> Seq(Jobs)]
      BY QueuesTyped DEF TypeOK
    <2>2. /\ w' \in [Sessions -> Workers]
          /\ jobq' \in [Sessions -> Seq(Jobs)] /\ incoming' \in [Sessions -> Seq(Replies)]
      BY <1>2, <2>1, RecvJobStep, ExitTyped DEF After, To, Ends, Gone, TypeOK
    <2> QED BY <1>2, <2>2, ZenonT(40) DEF RecvJob, TypeOK, shared, jobs, pump, flags, mac, history
  <1>3. CASE Drain(s)
    <2>1. incoming' \in [Sessions -> Seq(Replies)]
      <3>1. incoming[s] # <<>> => [incoming EXCEPT ![s] = Tail(@)] \in [Sessions -> Seq(Replies)]
        BY QueuesTyped DEF TypeOK
      <3> QED BY <1>3, <3>1 DEF Drain, TypeOK
    <2>2. w' \in [Sessions -> Workers]
      BY <1>3, MoveTyped DEF Drain, After, To, Ends, Gone, WorkerPcs, TypeOK
    <2> QED BY <1>3, <2>1, <2>2, SMTT(30) DEF Drain, TypeOK, shared, jobs, pump, flags, mac, history
  <1>4. CASE Activate(s)
    <2>1. activeId' \in [Sessions -> Ids \cup {NoId}] /\ tid' \in [Jobs -> (Sessions \X Ids) \cup {<<0, NoId>>}]
      BY <1>4, WorkerTyped DEF Activate, TypeOK
    <2>2. w' \in [Sessions -> Workers]
      BY <1>4, MoveTyped DEF Activate, After, To, Ends, Gone, WorkerPcs
    <2> QED BY <1>4, <2>1, <2>2, ZenonT(40) DEF Activate, TypeOK, shared, jobs, pump, chans, mac
  <1>5. CASE Prepare(s)
    <2>1. w' \in [Sessions -> Workers] /\ size' \in [Jobs -> 0..MaxChunk] /\ status' \in {status, "active"}
      BY <1>5, PrepareStep DEF After, To, Ends, Gone, TypeOK
    <2> QED BY <1>5, <2>1, ZenonT(40) DEF Prepare, TypeOK, jobs, pump, chans, flags, mac
  <1>6. CASE Send(s)
    <2>1. w' \in [Sessions -> Workers]
      BY <1>6, SendStep DEF After, To, Ends, Gone
    <2>2. outgoing' \in [Sessions -> Seq(Outbound)]
      <3>1. [outgoing EXCEPT ![s] = Append(@, MessageAt(s))] \in [Sessions -> Seq(Outbound)]
        BY <1>6, MessageTyped, QueuesTyped DEF Send, TypeOK
      <3> QED BY <1>6, <3>1 DEF Send, TypeOK
    <2> QED BY <1>6, <2>1, <2>2, ZenonT(40) DEF Send, TypeOK, shared, jobs, pump, flags, mac, history
  <1>7. CASE ReceiveFails(s)
    <2>1. w' \in [Sessions -> Workers]
      BY <1>7, FailTyped DEF ReceiveFails, After, Ends
    <2> QED BY <1>7, <2>1, ZenonT(40) DEF ReceiveFails, TypeOK, shared, jobs, pump, chans, flags, mac, history
  <1>8. CASE AwaitReply(s)
    <2>1. incoming' \in [Sessions -> Seq(Replies)]
      BY <1>8, QueuesTyped DEF AwaitReply, TypeOK
    <2>2. w' \in [Sessions -> Workers]
      BY <1>8, AwaitReplyStep DEF After, Ends
    <2> QED BY <1>8, <2>1, <2>2, ZenonT(40) DEF AwaitReply, TypeOK, shared, jobs, pump, flags, mac, history
  <1>9. CASE ReceiveReply(s)
    <2>1. incoming' \in [Sessions -> Seq(Replies)]
      BY <1>9, QueuesTyped DEF ReceiveReply, TypeOK
    <2>2. w' \in [Sessions -> Workers]
      BY <1>9, ReceiveReplyStep DEF After, To, Ends, Gone
    <2> QED BY <1>9, <2>1, <2>2, ZenonT(40) DEF ReceiveReply, TypeOK, shared, jobs, pump, flags, mac, history
  <1>10. CASE Flush(s)
    <2>1. w' \in [Sessions -> Workers]
      BY <1>10, FlushStep DEF After, To, Ends, Gone
    <2> QED BY <1>10, <2>1, ZenonT(40) DEF Flush, TypeOK, shared, jobs, pump, chans, flags, mac, history
  <1>11. CASE Persist(s)
    <2>1. w[s].job \in Jobs
      BY <1>11, WorkerTyped DEF Persist, Locals, Local, Waiting
    <2>2. dest' \in Jobs \cup {Absent, Foreign} /\ w' \in [Sessions -> Workers]
      <3>1. w' \in [Sessions -> Workers]
        BY <1>11, PersistStep DEF After, Ends
      <3>2. dest' \in {dest, w[s].job}
        BY <1>11, PersistStep
      <3> QED BY <2>1, <3>1, <3>2 DEF TypeOK
    <2> QED BY <1>11, <2>2 DEF Persist, TypeOK, shared, jobs, pump, chans, flags, mac, history
  <1>12. CASE Finish(s)
    <2>1. activeId' \in [Sessions -> Ids \cup {NoId}] /\ w' \in [Sessions -> Workers]
      BY <1>12, MoveTyped DEF Finish, After, To, Ends, Gone, WorkerPcs, TypeOK
    <2> QED BY <1>12, <2>1, ZenonT(40) DEF Finish, TypeOK, shared, jobs, pump, chans, mac, history
  <1>13. CASE Report(s)
    <2>1. busy' \in BOOLEAN
      BY <1>13 DEF Report, TypeOK
    <2>2. outcome' \in [Jobs -> {"none", "complete", "failed"}] /\ status' \in {"complete", "stopped", status}
      BY <1>13 DEF Report, TypeOK
    <2>3. /\ w' \in [Sessions -> Workers]
          /\ jobq' \in [Sessions -> Seq(Jobs)] /\ incoming' \in [Sessions -> Seq(Replies)]
      BY <1>13, ReportStep, ExitTyped DEF After, To, Ends, Gone, TypeOK
    <2> QED BY <1>13, <2>1, <2>2, <2>3, ZenonT(40) DEF Report, TypeOK, jobs, pump, flags, mac
  <1>14. CASE Latch(s)
    <2>1. disconnect' \in [Sessions -> BOOLEAN]
      BY <1>14 DEF Latch, TypeOK
    <2>2. /\ w' \in [Sessions -> Workers]
          /\ jobq' \in [Sessions -> Seq(Jobs)] /\ incoming' \in [Sessions -> Seq(Replies)]
      BY <1>14, ExitTyped DEF Latch, After, Gone
    <2> QED BY <1>14, <2>1, <2>2, ZenonT(40) DEF Latch, TypeOK, shared, jobs, pump, mac, history
  <1> QED BY <1>1, <1>2, <1>3, <1>4, <1>5, <1>6, <1>7, <1>8, <1>9, <1>10, <1>11, <1>12, <1>13, <1>14
          DEF WorkerThread

\* What no step of a worker changes.
LEMMA WorkerUnchanged ==
  ASSUME NEW s \in Sessions, WorkerThread(s)
  PROVE  /\ UNCHANGED <<gen, route, current, jobs, pump, closed, mac>>
         /\ w[s].pc \notin {"unborn", "done"}
  BY DEF WorkerThread, LoopTop, RecvJob, Drain, Activate, Prepare,
     Send, ReceiveFails, AwaitReply, ReceiveReply, Flush, Persist, Finish, Report, Latch, shared, jobs, pump, chans, flags, mac

\* The queues of other sessions are not its queues.
LEMMA WorkerQueues ==
  ASSUME TypeOK, NEW s \in Sessions, WorkerThread(s), NEW t \in Sessions \ {s}
  PROVE  jobq'[t] = jobq[t] /\ incoming'[t] = incoming[t] /\ outgoing'[t] = outgoing[t]
  <1>1. Exit(s) => jobq'[t] = jobq[t] /\ incoming'[t] = incoming[t]
    BY DEF Exit, TypeOK
  <1>2. jobq'[t] = jobq[t]
    BY <1>1 DEF WorkerThread, LoopTop, RecvJob, Drain, Activate, Prepare,
     Send, ReceiveFails, AwaitReply, ReceiveReply, Flush, Persist, Finish, Report, Latch, chans, TypeOK
  <1>3. incoming'[t] = incoming[t]
    BY <1>1 DEF WorkerThread, LoopTop, RecvJob, Drain, Activate, Prepare,
     Send, ReceiveFails, AwaitReply, ReceiveReply, Flush, Persist, Finish, Report, Latch, chans, TypeOK
  <1>4. outgoing'[t] = outgoing[t]
    BY DEF WorkerThread, LoopTop, RecvJob, Drain, Activate, Prepare,
     Send, ReceiveFails, AwaitReply, ReceiveReply, Flush, Persist, Finish, Report, Latch, chans, TypeOK
  <1> QED BY <1>2, <1>3, <1>4

\* Nor are the locals of other workers its locals.
LEMMA WorkerAlone ==
  ASSUME TypeOK, NEW s \in Sessions, WorkerThread(s)
  PROVE  w'[s].pc # "unborn" /\ \A t \in Sessions \ {s} : w'[t] = w[t]
  <1>1. w[s] \in Workers /\ w[s].id \in Ids /\ Fresh(w[s].id) \in Workers
    BY WorkerTyped, FreshTyped
  <1>4. CASE LoopTop(s)
    BY <1>1, <1>4, LoopTopStep DEF After, To, Ends, Gone
  <1>5. CASE RecvJob(s)
    BY <1>1, <1>5, RecvJobStep DEF After, To, Ends, Gone
  <1>6. CASE Drain(s)
    BY <1>1, <1>6, MoveTyped DEF Drain, After, To, Ends, Gone, WorkerPcs
  <1>7. CASE Activate(s)
    BY <1>1, <1>7, MoveTyped DEF Activate, After, To, Ends, Gone, WorkerPcs
  <1>8. CASE Prepare(s)
    BY <1>1, <1>8, PrepareStep DEF After, To, Ends, Gone
  <1>9. CASE Send(s)
    BY <1>1, <1>9, SendStep DEF After, To, Ends, Gone, NextPlace
  <1>10. CASE ReceiveFails(s)
    BY <1>1, <1>10, FailTyped DEF ReceiveFails, After, To, Ends, Gone, WorkerPcs
  <1>11. CASE AwaitReply(s)
    BY <1>1, <1>11, AwaitReplyStep DEF After, To, Ends, Gone
  <1>12. CASE ReceiveReply(s)
    BY <1>1, <1>12, ReceiveReplyStep DEF ReceiveReply, After, To, Ends
  <1>13. CASE Flush(s)
    BY <1>1, <1>13, FlushStep DEF After, To, Ends, Gone
  <1>14. CASE Persist(s)
    BY <1>1, <1>14, PersistStep DEF After, To, Ends, Gone
  <1>15. CASE Finish(s)
    BY <1>1, <1>15, MoveTyped DEF Finish, After, To, Ends, Gone, WorkerPcs
  <1>16. CASE Report(s)
    BY <1>1, <1>16, ReportStep DEF After, To, Ends, Gone
  <1>17. CASE Latch(s)
    BY <1>1, <1>17, ExitTyped DEF Latch, After, To, Ends, Gone, WorkerPcs
  <1> QED BY <1>4, <1>5, <1>6, <1>7, <1>8, <1>9, <1>10, <1>11, <1>12, <1>13, <1>14, <1>15, <1>16, <1>17
          DEF WorkerThread

\* All of it, and who sends.
LEMMA WorkerFrame ==
  ASSUME TypeOK, Lives, NEW s \in Sessions, WorkerThread(s)
  PROVE  /\ UNCHANGED <<gen, route, current, jobs, pump, closed, mac>>
         /\ \A t \in Sessions \ {s} : w'[t] = w[t] /\ jobq'[t] = jobq[t] /\ incoming'[t] = incoming[t]
                                        /\ outgoing'[t] = outgoing[t]
         /\ w[s].pc \notin {"unborn", "done"} /\ w'[s].pc # "unborn"
         /\ outgoing' # outgoing => live = s
  <1>1. outgoing' # outgoing => live = s
    BY DEF WorkerThread, LoopTop, RecvJob, Drain, Activate, Prepare,
     Send, ReceiveFails, AwaitReply, ReceiveReply, Flush, Persist, Finish, Report, Latch, chans
  <1> QED BY <1>1, WorkerUnchanged, WorkerQueues, WorkerAlone

-----------------------------------------------------------------------------
(* Lives: one session at a time *)

\* Steps that neither begin nor end anything.
Calm == Cancel \/ ForeignCreates \/ PumpBegin \/ SessionFails \/ DropClose

\* What they change.
LEMMA CalmFrame ==
  ASSUME TypeOK, Calm
  PROVE  /\ UNCHANGED <<gen, route, current, busy, kind, live, taken, pending, chans, w, mac, history>>
         /\ spc' # "loop" => live # 0 \/ spc # "loop"
         /\ spc' = "deliver" => spc = "deliver"
  BY DEF Calm, Cancel, ForeignCreates, PumpBegin, SessionFails, DropClose, shared, pump, jobs, chans, mac, history

\* Sessions keep coming one after the other.
LEMMA LivesKeeps == Core /\ Next => Lives'
  <1> SUFFICES ASSUME Core, Next PROVE Lives'
    OBVIOUS
  <1>1. TypeOK /\ Lives
    BY DEF Core
  <1>2. CASE Calm
    BY <1>1, <1>2, CalmFrame DEF Lives, chans, mac, Calm, DropClose
  <1>3. CASE \E j \in Jobs : Submit(j)
    BY <1>1, <1>3 DEF Submit, Lives, pump, mac
  <1>4. CASE NewSession
    <2>1. gen + 1 \in Sessions /\ gen \in Nat
      BY <1>1, <1>4, Constants DEF NewSession, TypeOK
    <2>2. w'[gen + 1].pc = "top" /\ \A t \in Sessions \ {gen + 1} : w'[t] = w[t]
      BY <1>1, <1>4, <2>1 DEF NewSession, TypeOK, Fresh
    <2>3. \A t \in Sessions : t \in Nat
      BY Constants
    <2>4. gen' = gen + 1 /\ live' = gen + 1 /\ route' = gen + 1 /\ spc' = "loop" /\ UNCHANGED <<outgoing, seen>>
      BY <1>4 DEF NewSession, chans
    <2>5. live = 0
      BY <1>4 DEF NewSession
    <2>6. \A t \in Sessions : w'[t].pc = "unborn" <=> t > gen + 1
      BY <1>1, <2>1, <2>2, <2>3 DEF Lives
    <2>7. /\ live' \in {0, gen'} /\ route' = live' /\ live' # 0 /\ spc' # "deliver"
      BY <2>1, <2>4
    <2>8. ASSUME NEW t \in Sessions
          PROVE  /\ t # live' => outgoing'[t] = <<>>
                 /\ w'[t].pc = "unborn" <=> t > gen'
                 /\ t > gen' => outgoing'[t] = <<>> /\ seen'[t].id = NoId /\ seen'[t].ids = {}
      <3>1. t > gen + 1 => t > gen
        BY <2>1, <2>3
      <3>2. t # 0
        BY Constants
      <3>3. outgoing[t] = <<>>
        BY <1>1, <2>5, <3>2 DEF Lives
      <3> QED BY <1>1, <2>4, <2>6, <3>1, <3>3 DEF Lives
    <2> QED BY <2>7, <2>8 DEF Lives
  <1>5. CASE ReplyMatch \/ ReplyDeliver
    <2>1. live # 0 /\ outgoing' = outgoing /\ UNCHANGED <<gen, live, route, w, seen>>
      BY <1>1, <1>5 DEF ReplyMatch, ReplyDeliver, Lives, shared, chans, mac
    <2>2. spc' = "deliver" => taken' # <<>>
      BY <1>1, <1>5 DEF ReplyMatch, ReplyDeliver
    <2> QED BY <1>1, <2>1, <2>2 DEF Lives
  <1>6. CASE PumpSend
    <2>1. live \in Sessions
      BY <1>1, <1>6, Constants DEF PumpSend, Lives, TypeOK
    <2>2. /\ \A t \in Sessions \ {live} : outgoing'[t] = outgoing[t] /\ seen'[t] = seen[t]
          /\ UNCHANGED <<gen, live, route, w>> /\ spc' # "deliver"
      BY <1>1, <1>6, <2>1 DEF PumpSend, Yield, TypeOK, shared
    <2>3. ~(live > gen)
      BY <1>1, <1>6 DEF PumpSend, Lives, TypeOK
    <2> QED BY <1>1, <1>6, <2>1, <2>2, <2>3 DEF Lives, PumpSend
  <1>7. CASE DropRelease
    <2>1. live \in Sessions /\ gen = live
      BY <1>1, <1>7, Constants DEF DropRelease, Lives, TypeOK
    <2>2. outgoing'[live] = <<>> /\ \A t \in Sessions \ {live} : outgoing'[t] = outgoing[t]
      BY <1>1, <1>7, <2>1 DEF DropRelease, TypeOK
    <2> QED BY <1>1, <1>7, <2>1, <2>2 DEF DropRelease, Lives, mac
  <1>8. ASSUME NEW m \in Replies, MacReply(m) PROVE Lives'
    BY <1>1, <1>8 DEF MacReply, Lives, shared, chans
  <1>9. ASSUME NEW s \in Sessions, WorkerThread(s) PROVE Lives'
    <2>1. \A t \in Sessions : (w'[t].pc = "unborn" <=> w[t].pc = "unborn")
      BY <1>1, <1>9, WorkerFrame
    <2>2. \A t \in Sessions : t # live \/ t > gen => outgoing'[t] = outgoing[t]
      BY <1>1, <1>9, WorkerFrame, ZenonT(40) DEF Lives, TypeOK
    <2> QED BY <1>1, <1>9, <2>1, <2>2, WorkerFrame DEF Lives, pump, mac
  <1> QED BY <1>2, <1>3, <1>4, <1>5, <1>6, <1>7, <1>8, <1>9 DEF Next, SessionThread, Calm

-----------------------------------------------------------------------------
(* Slots: one request at a time *)

\* The steps between taking a job and reporting its result.
Midway(s) ==
  Drain(s) \/ Activate(s) \/ Prepare(s) \/ Send(s) \/ ReceiveFails(s) \/ AwaitReply(s)
  \/ ReceiveReply(s) \/ Flush(s) \/ Persist(s) \/ Finish(s)

\* They stay within it, and touch neither the queue of jobs nor the view's slot.
LEMMA MidwayFrame ==
  ASSUME TypeOK, NEW s \in Sessions, Midway(s)
  PROVE  Working(s) /\ Working(s)' /\ UNCHANGED <<jobq, busy>>
  <1>1. CASE Drain(s)
    <2>1. Move(s, "activate") => w'[s].pc = "activate"
      BY MoveTyped DEF To, After, WorkerPcs
    <2> QED BY <1>1, <2>1 DEF Drain, Working, shared
  <1>2. CASE Activate(s)
    BY <1>2, MoveTyped DEF Activate, Working, To, After, WorkerPcs, chans, shared
  <1>3. CASE Prepare(s)
    BY <1>3, PrepareStep DEF Prepare, Working, Ends, After, chans
  <1>4. CASE Send(s)
    BY <1>4, SendStep DEF Send, Working, Ends, After, NextPlace, shared
  <1>5. CASE ReceiveFails(s)
    BY <1>5, FailTyped DEF ReceiveFails, Working, Ends, After, chans, shared
  <1>6. CASE AwaitReply(s)
    BY <1>6, AwaitReplyStep DEF AwaitReply, Working, Ends, After, shared
  <1>7. CASE ReceiveReply(s)
    BY <1>7, ReceiveReplyStep DEF ReceiveReply, Working, Ends, To, After, shared
  <1>8. CASE Flush(s)
    BY <1>8, FlushStep DEF Flush, Working, Ends, To, After, chans, shared
  <1>9. CASE Persist(s)
    BY <1>9, PersistStep DEF Persist, Working, Ends, After, chans, shared
  <1>10. CASE Finish(s)
    BY <1>10, MoveTyped DEF Finish, Working, To, After, WorkerPcs, chans, shared
  <1> QED BY <1>1, <1>2, <1>3, <1>4, <1>5, <1>6, <1>7, <1>8, <1>9, <1>10 DEF Midway

\* What a worker's step makes of its slot: it ends with what was queued for it,
\* begins only with a queued job, and frees the view's slot with its report.
LEMMA WorkerSlots ==
  ASSUME TypeOK, Slots, NEW s \in Sessions, WorkerThread(s)
  PROVE  /\ jobq'[s] \in {jobq[s], <<>>}
         /\ jobq'[s] # <<>> => w'[s].pc # "done" /\ ~Working(s)'
         /\ w'[s].pc = "done" => incoming'[s] = <<>>
         /\ Working(s)' => Working(s) \/ jobq[s] # <<>>
         /\ busy' # busy => gen = s /\ Working(s) /\ ~Working(s)'
  <1>1. CASE Midway(s)
    BY <1>1, MidwayFrame DEF Slots, Working
  <1>2. Exit(s) => jobq'[s] = <<>> /\ incoming'[s] = <<>> /\ w'[s].pc = "done"
    BY ExitTyped DEF Exit, Gone, After, TypeOK
  <1>3. CASE LoopTop(s)
    BY <1>2, <1>3, LoopTopStep DEF LoopTop, Working, To, After, shared
  <1>4. CASE RecvJob(s)
    <2>1. CASE Exit(s)
      BY <1>2, <1>4, <2>1 DEF RecvJob, Working, shared
    <2>2. CASE ~Exit(s)
      <3>1. jobq[s] # <<>> /\ jobq' = [jobq EXCEPT ![s] = Tail(@)] /\ w'[s].pc = "drain" /\ busy' = busy
        BY <1>4, <2>2, RecvJobStep DEF RecvJob, After, shared
      <3>2. Tail(jobq[s]) = <<>>
        BY <3>1 DEF Slots, TypeOK
      <3> QED BY <3>1, <3>2 DEF TypeOK
    <2> QED BY <2>1, <2>2
  <1>5. CASE Report(s)
    <2>1. w[s].pc = "report" /\ jobq[s] = <<>>
      BY <1>5 DEF Report, Slots, Working
    <2>2. w'[s].pc \in {"latch", "top", "done"} /\ (w'[s].pc = "done" => Exit(s)) /\ (Exit(s) \/ UNCHANGED jobq)
      BY <1>5, ReportStep DEF To, After, Gone
    <2>3. busy' # busy => gen = s
      BY <1>5 DEF Report, Matches
    <2> QED BY <1>2, <2>1, <2>2, <2>3 DEF Working
  <1>6. CASE Latch(s)
    BY <1>2, <1>6 DEF Latch, Working, shared
  <1> QED BY <1>1, <1>3, <1>4, <1>5, <1>6 DEF WorkerThread, Midway

\* The view's slot keeps covering what is queued and worked on.
LEMMA SlotsKeeps == Core /\ Next => Slots'
  <1> SUFFICES ASSUME Core, Next PROVE Slots'
    OBVIOUS
  <1>1. TypeOK /\ Lives /\ Slots
    BY DEF Core
  <1>2. CASE Calm
    BY <1>1, <1>2, CalmFrame DEF Slots, BusyCoversJob, Working, chans
  <1>3. ASSUME NEW j \in Jobs, Submit(j) PROVE Slots'
    <2>1. route \in Sessions /\ route = gen
      BY <1>1, <1>3, Constants DEF Submit, Lives, TypeOK
    <2>2. w[route].pc \notin {"unborn", "done"} /\ ~Working(route)
      BY <1>1, <1>3, <2>1, Constants DEF Submit, Lives, Slots, BusyCoversJob
    <2>3. /\ UNCHANGED <<w, incoming, route>> /\ busy'
          /\ \A t \in Sessions \ {route} : jobq'[t] = jobq[t]
          /\ Len(jobq'[route]) = 1
      BY <1>1, <1>3, <2>1 DEF Submit, TypeOK
    <2>4. BusyCoversJob'
      BY <2>3 DEF BusyCoversJob
    <2>5. ASSUME NEW t \in Sessions
          PROVE  /\ Len(jobq'[t]) <= 1
                 /\ jobq'[t] # <<>> => w'[t].pc \notin {"unborn", "done"} /\ ~Working(t)'
                 /\ w'[t].pc \in {"unborn", "done"} => incoming'[t] = <<>>
      <3>1. w'[t] = w[t] /\ incoming'[t] = incoming[t]
        BY <2>3
      <3>2. CASE t = route
        <4>1. Len(jobq'[t]) <= 1
          <5>1. Len(jobq'[t]) = 1
            BY <2>3, <3>2
          <5> QED BY <5>1
        <4>2. w'[t].pc \notin {"unborn", "done"} /\ ~Working(t)'
          BY <2>2, <3>1, <3>2 DEF Working
        <4> QED BY <4>1, <4>2
      <3>3. CASE t # route
        BY <1>1, <2>3, <3>1, <3>3 DEF Slots, Working
      <3> QED BY <3>2, <3>3
    <2> QED BY <2>4, <2>5 DEF Slots
  <1>4. CASE NewSession
    <2>1. gen + 1 \in Sessions /\ w[gen + 1].pc = "unborn"
      BY <1>1, <1>4, Constants DEF NewSession, TypeOK, Lives
    <2>2. w'[gen + 1].pc = "top" /\ \A t \in Sessions \ {gen + 1} : w'[t] = w[t]
      BY <1>1, <1>4, <2>1 DEF NewSession, TypeOK, Fresh
    <2>3. route' = gen + 1 /\ UNCHANGED <<jobq, incoming>> /\ jobq[gen + 1] = <<>>
      BY <1>1, <1>4, <2>1 DEF NewSession, Slots, chans
    <2> QED BY <1>1, <2>1, <2>2, <2>3 DEF Slots, BusyCoversJob, Working
  <1>5. CASE ReplyMatch \/ PumpSend \/ (\E m \in Replies : MacReply(m))
    BY <1>1, <1>5 DEF ReplyMatch, PumpSend, MacReply, shared, chans, Slots, BusyCoversJob, Working
  <1>6. CASE ReplyDeliver
    <2>1. /\ UNCHANGED <<route, busy, jobq, w>>
          /\ \A t \in Sessions : incoming'[t] # incoming[t] => t = live /\ w[t].pc # "done"
      BY <1>1, <1>6 DEF ReplyDeliver, TypeOK
    <2>2. \A t \in Sessions : t = live => w[t].pc # "unborn"
      <3>1. \A t \in Sessions : t # 0 /\ t \in Nat
        BY Constants
      <3>2. gen \in Nat /\ ~(gen > gen)
        BY <1>1 DEF TypeOK
      <3> QED BY <1>1, <3>1, <3>2 DEF Lives
    <2> QED BY <1>1, <2>1, <2>2 DEF Slots, BusyCoversJob, Working
  <1>7. CASE DropRelease
    <2>1. route' = 0 /\ UNCHANGED <<jobq, incoming, w>>
      BY <1>1, <1>7 DEF DropRelease, Lives
    <2> QED BY <1>1, <2>1 DEF Slots, BusyCoversJob, Working
  <1>8. ASSUME NEW s \in Sessions, WorkerThread(s) PROVE Slots'
    <2>1. \A t \in Sessions \ {s} : w'[t] = w[t] /\ jobq'[t] = jobq[t] /\ incoming'[t] = incoming[t]
      BY <1>1, <1>8, WorkerFrame
    <2>2. route' = route /\ route \in {0, gen} /\ route \in 0..MaxSession /\ w'[s].pc # "unborn"
      BY <1>1, <1>8, WorkerFrame DEF Lives, TypeOK
    <2>3. \A t \in Sessions : /\ Len(jobq'[t]) <= 1
                              /\ jobq'[t] # <<>> => w'[t].pc \notin {"unborn", "done"} /\ ~Working(t)'
                              /\ w'[t].pc \in {"unborn", "done"} => incoming'[t] = <<>>
      <3>1. Len(<<>>) <= 1
        OBVIOUS
      <3> QED BY <1>1, <1>8, <2>1, <2>2, <3>1, WorkerSlots DEF Slots, Working
    <2>4. BusyCoversJob'
      <3> SUFFICES ASSUME route # 0, ~busy' PROVE jobq'[route] = <<>> /\ ~Working(route)'
        BY <2>2 DEF BusyCoversJob, Working
      <3>1. route \in Sessions /\ route = gen
        BY <2>2, Constants
      <3>2. CASE route # s
        <4>1. busy' = busy
          BY <1>1, <1>8, <3>1, <3>2, WorkerSlots
        <4>2. jobq[route] = <<>> /\ ~Working(route)
          BY <1>1, <3>1, <4>1 DEF Slots, BusyCoversJob, Lives
        <4> QED BY <2>1, <2>2, <3>1, <3>2, <4>2 DEF Working
      <3>3. CASE route = s
        <4>1. ~Working(s)' /\ jobq'[s] \in {jobq[s], <<>>}
          BY <1>1, <1>8, <3>3, WorkerSlots DEF Slots, BusyCoversJob
        <4>2. jobq[s] = <<>>
          BY <1>1, <1>8, <3>3, WorkerSlots DEF Slots, BusyCoversJob
        <4> QED BY <2>2, <3>3, <4>1, <4>2 DEF Working
      <3> QED BY <3>2, <3>3
    <2> QED BY <2>3, <2>4 DEF Slots
  <1> QED BY <1>2, <1>3, <1>4, <1>5, <1>6, <1>7, <1>8 DEF Next, SessionThread, Calm

-----------------------------------------------------------------------------
(* Locals: where each worker is with its job *)

\* A worker that has a job in hand has one that was submitted.
LEMMA JobInHand ==
  ASSUME TypeOK, Locals, Owned, NEW s \in Sessions, w[s].pc \notin Waiting
  PROVE  w[s].job \in Jobs /\ kind[w[s].job] \in {"upload", "download"}
  <1>1. w[s].job \in Jobs
    BY WorkerTyped DEF Locals, Local
  <1>2. w[s].pc \in Named \cup {"drain", "activate"}
    BY WorkerTyped DEF WorkerPcs, Waiting, Named
  <1> QED BY <1>1, <1>2 DEF Owned, InHand, TypeOK

\* A worker stays where it is, and its job what it is.
LEMMA LocalFrame ==
  ASSUME NEW s \in Sessions, Local(s), w'[s] = w[s],
         w[s].job # NoJob => kind'[w[s].job] = kind[w[s].job] /\ size'[w[s].job] = size[w[s].job]
  PROVE  Local(s)'
  BY DEF Local, LastPos, Waiting, Named

\* A worker without a job.
LEMMA IdleLocal ==
  ASSUME NEW s \in Sessions, NEW p \in Waiting, NEW i, After(s, p, i, NoJob, FALSE, 0, FALSE)
  PROVE  Local(s)'
  BY DEF After, Local, Waiting, Named, Past

\* A worker that is through with its job, one way or the other.
LEMMA EndsLocal ==
  ASSUME TypeOK, NEW s \in Sessions, Local(s), NEW b \in BOOLEAN, Ends(s, b),
         w[s].pc \in {"prepare", "send"} \cup Past, UNCHANGED <<kind, size>>
  PROVE  Local(s)'
  <1>1. /\ w'[s].job = w[s].job /\ w'[s].started = w[s].started /\ w'[s].pos = w[s].pos
        /\ w'[s].pc = "finish"
    BY DEF Ends, After
  <1>2. LastPos(s)' = LastPos(s)
    BY <1>1 DEF LastPos
  <1> QED BY <1>1, <1>2 DEF Local, Waiting, Named, Past

\* A worker's own steps leave its locals in order ...
LEMMA LocalMoves ==
  ASSUME TypeOK, Locals, Owned, NEW s \in Sessions, WorkerThread(s)
  PROVE  Local(s)'
  <1>1. kind' = kind /\ w[s].pos \in Nat /\ Local(s)
    BY WorkerUnchanged, WorkerTyped DEF jobs, Locals
  <1>2. w[s].pc \notin Waiting => w[s].job \in Jobs /\ LastPos(s) \in Nat
    <2> SUFFICES ASSUME w[s].pc \notin Waiting PROVE w[s].job \in Jobs /\ LastPos(s) \in Nat
      OBVIOUS
    <2>1. w[s].job \in Jobs
      BY JobInHand
    <2>2. size[w[s].job] \in Nat
      <3>1. size[w[s].job] \in 0..MaxChunk
        BY <2>1 DEF TypeOK
      <3> QED BY <3>1, Constants
    <2> QED BY <2>1, <2>2 DEF LastPos
  <1>3. Gone(s) => Local(s)'
    <2>1. "done" \in Waiting
      BY DEF Waiting
    <2> QED BY <2>1, IdleLocal DEF Gone
  <1>4. ~Prepare(s) => size' = size
    BY DEF WorkerThread, LoopTop, RecvJob, Drain, Activate,
     Send, ReceiveFails, AwaitReply, ReceiveReply, Flush, Persist, Finish, Report, Latch, history
  <1>5. CASE LoopTop(s)
    <2>1. To(s, "recv") => Local(s)'
      <3>1. w[s].pc = "top" /\ w[s].job = NoJob /\ ~w[s].started /\ ~(w[s].pos > 0) /\ ~w[s].ok
        BY <1>1, <1>5 DEF LoopTop, Local, Waiting, Named
      <3> QED BY <1>1, <3>1 DEF To, After, Local, Waiting, Named, Past
    <2> QED BY <1>3, <1>5, <2>1, LoopTopStep
  <1>6. CASE RecvJob(s)
    <2>1. ASSUME jobq[s] # <<>>, After(s, "drain", w[s].id, Head(jobq[s]), FALSE, 0, FALSE)
          PROVE  Local(s)'
      <3>1. Head(jobq[s]) # NoJob
        <4>1. Head(jobq[s]) \in Jobs
          BY <2>1, QueuesTyped DEF TypeOK
        <4> QED BY <4>1, Constants DEF NoJob
      <3> QED BY <2>1, <3>1 DEF After, Local, Waiting, Named, Past
    <2> QED BY <1>3, <1>6, <2>1, RecvJobStep
  <1>7. CASE Drain(s)
    <2>1. w[s].pc = "drain" /\ ~w[s].started /\ ~(w[s].pos > 0) /\ ~w[s].ok /\ w[s].job # NoJob
      BY <1>1, <1>7 DEF Drain, Local, Waiting, Named
    <2>2. To(s, "activate") => Local(s)'
      BY <2>1 DEF To, After, Local, Waiting, Named, Past
    <2>3. UNCHANGED w => Local(s)'
      BY <2>1 DEF Local, Waiting, Named, Past
    <2> QED BY <1>7, <2>2, <2>3, MoveTyped DEF Drain, WorkerPcs
  <1>8. CASE Activate(s)
    <2>1. w[s].pc = "activate" /\ ~w[s].started /\ ~(w[s].pos > 0) /\ ~w[s].ok /\ w[s].job # NoJob
      BY <1>1, <1>8 DEF Activate, Local, Waiting, Named
    <2>2. To(s, "prepare")
      BY <1>8, MoveTyped DEF Activate, WorkerPcs
    <2> QED BY <2>1, <2>2 DEF To, After, Local, Waiting, Named, Past
  <1>9. CASE Prepare(s)
    <2>1. w[s].pc = "prepare" /\ ~w[s].started /\ ~(w[s].pos > 0) /\ ~w[s].ok /\ w[s].job # NoJob
      BY <1>1, <1>9 DEF Prepare, Local, Waiting, Named
    <2>2. CASE Ends(s, FALSE)
      BY <2>1, <2>2 DEF Ends, After, Local, Waiting, Named, Past
    <2>3. ASSUME After(s, "send", w[s].id, w[s].job, TRUE, w[s].pos, w[s].ok), size' \in [Jobs -> 0..MaxChunk]
          PROVE  Local(s)'
      <3>1. w[s].job \in Jobs /\ kind[w[s].job] # "none"
        BY <2>1, JobInHand DEF Waiting
      <3>2. LastPos(s)' \in Nat /\ w'[s].pos = 0
        BY <1>1, <2>1, <2>3, <3>1 DEF LastPos, After
      <3>3. /\ w'[s].pc = "send" /\ w'[s].job = w[s].job /\ w'[s].started /\ ~w'[s].ok
        BY <2>1, <2>3 DEF After
      <3>4. 0 <= LastPos(s)' /\ 0 <= LastPos(s)' + 1
        BY <3>2
      <3> QED BY <1>1, <2>1, <3>1, <3>2, <3>3, <3>4 DEF Local, Waiting, Named, Past
    <2> QED BY <1>9, <2>2, <2>3, PrepareStep
  <1>10. CASE Send(s)
    <2>1. /\ w[s].pc = "send" /\ w[s].started /\ ~w[s].ok /\ w[s].job # NoJob /\ w[s].pos <= LastPos(s)
          /\ LastPos(s) \in Nat /\ kind[w[s].job] # "none"
      BY <1>1, <1>2, <1>10 DEF Send, Local, Waiting, Named
    <2>2. CASE Ends(s, FALSE)
      BY <1>1, <1>4, <1>10, <2>1, <2>2, EndsLocal DEF Prepare, Send
    <2>3. ASSUME After(s, NextPlace(s), w[s].id, w[s].job, w[s].started, w[s].pos + 1, w[s].ok)
          PROVE  Local(s)'
      <3>1. LastPos(s)' = LastPos(s)
        BY <1>1, <1>4, <1>10, <2>1, <2>3 DEF After, LastPos, Prepare
      <3>2. w[s].pos + 1 <= LastPos(s) + 1 /\ (NextPlace(s) = "send" => w[s].pos + 1 <= LastPos(s))
        BY <1>1, <2>1 DEF NextPlace
      <3>3. NextPlace(s) \in {"send", "await", "receive"}
        BY DEF NextPlace
      <3> HIDE DEF NextPlace, LastPos
      <3> QED BY <1>1, <2>1, <2>3, <3>1, <3>2, <3>3 DEF After, Local, Waiting, Named, Past
    <2> QED BY <1>10, <2>2, <2>3, SendStep
  <1>11. CASE ReceiveFails(s)
    BY <1>1, <1>4, <1>11, FailTyped, EndsLocal DEF ReceiveFails, Past, Prepare, Fail
  <1>12. CASE AwaitReply(s)
    <2>1. Ends(s, Head(incoming[s]).kind = "end") /\ (Head(incoming[s]).kind = "end") \in BOOLEAN
      BY <1>12, AwaitReplyStep
    <2> QED BY <1>1, <1>4, <1>12, <2>1, EndsLocal DEF AwaitReply, Past, Prepare
  <1>13. CASE ReceiveReply(s)
    <2>1. w[s].pc = "receive" /\ w[s].started /\ ~w[s].ok /\ w[s].job # NoJob /\ size' = size
      BY <1>1, <1>4, <1>13 DEF ReceiveReply, Prepare, Local, Waiting, Named, Past
    <2>2. CASE Ends(s, FALSE)
      BY <1>1, <2>1, <2>2, EndsLocal DEF Past
    <2>3. CASE To(s, "receive")
      <3>1. LastPos(s)' = LastPos(s)
        BY <1>1, <2>1, <2>3 DEF LastPos, To, After
      <3> QED BY <1>1, <2>1, <2>3, <3>1 DEF To, After, Local, Waiting, Named, Past
    <2>4. CASE To(s, "flush") /\ SameData(s) /\ w[s].saw /\ w[s].bytes = w[s].total
      <3>1. LastPos(s)' = LastPos(s)
        BY <1>1, <2>1, <2>4 DEF LastPos, To, After
      <3> QED BY <1>1, <2>1, <2>4, <3>1 DEF To, After, SameData, Local, Waiting, Named, Past
    <2> QED BY <1>13, <2>2, <2>3, <2>4, ReceiveReplyStep
  <1>14. CASE Flush(s)
    <2>1. w[s].pc = "flush" /\ w[s].started /\ ~w[s].ok /\ w[s].job # NoJob /\ size' = size
      BY <1>1, <1>4, <1>14 DEF Flush, Prepare, Local, Waiting, Named, Past
    <2>2. CASE Ends(s, FALSE)
      BY <1>1, <2>1, <2>2, EndsLocal DEF Past
    <2>3. CASE To(s, "persist") /\ SameData(s)
      <3>1. LastPos(s)' = LastPos(s)
        BY <1>1, <2>1, <2>3 DEF LastPos, To, After
      <3> QED BY <1>1, <2>1, <2>3, <3>1 DEF To, After, SameData, Local, Waiting, Named, Past
    <2> QED BY <1>14, <2>2, <2>3, FlushStep
  <1>15. CASE Persist(s)
    BY <1>1, <1>4, <1>15, PersistStep, EndsLocal DEF Persist, Past, Prepare
  <1>16. CASE Finish(s)
    <2>1. w[s].pc = "finish" /\ w[s].job # NoJob /\ size' = size
      BY <1>1, <1>4, <1>16 DEF Finish, Prepare, Local, Waiting
    <2>2. To(s, "report")
      BY <1>16, MoveTyped DEF Finish, WorkerPcs
    <2>3. LastPos(s)' = LastPos(s)
      BY <1>1, <2>1, <2>2 DEF LastPos, To, After
    <2> QED BY <1>1, <2>1, <2>2, <2>3 DEF To, After, Local, Waiting, Named, Past
  <1>17. CASE Report(s)
    <2>1. w[s].pc = "report" /\ w[s].job # NoJob /\ size' = size
      BY <1>1, <1>4, <1>17 DEF Report, Prepare, Local, Waiting
    <2>2. CASE EndsSession(w[s]) /\ To(s, "latch")
      <3>1. LastPos(s)' = LastPos(s)
        BY <1>1, <2>1, <2>2 DEF LastPos, To, After
      <3> QED BY <1>1, <2>1, <2>2, <3>1 DEF EndsSession, To, After, Local, Waiting, Named, Past
    <2>3. CASE After(s, "top", w[s].id + 1, NoJob, FALSE, 0, FALSE)
      <3>1. "top" \in Waiting
        BY DEF Waiting
      <3> QED BY <2>3, <3>1, IdleLocal
    <2> QED BY <1>3, <1>17, <2>2, <2>3, ReportStep
  <1>18. CASE Latch(s)
    BY <1>3, <1>18, ExitTyped DEF Latch
  <1> QED BY <1>5, <1>6, <1>7, <1>8, <1>9, <1>10, <1>11, <1>12, <1>13, <1>14, <1>15, <1>16, <1>17, <1>18
          DEF WorkerThread

\* ... and so do all others.
LEMMA LocalsKeeps == Core /\ Next => Locals'
  <1> SUFFICES ASSUME Core, Next PROVE Locals'
    OBVIOUS
  <1>1. TypeOK /\ Lives /\ Slots /\ Locals /\ Owned
    BY DEF Core
  <1>2. \A t \in Sessions : w[t].job # NoJob => w[t].job \in Jobs /\ kind[w[t].job] # "none"
    <2> SUFFICES ASSUME NEW t \in Sessions, w[t].job # NoJob
                 PROVE  w[t].job \in Jobs /\ kind[w[t].job] # "none"
      OBVIOUS
    <2>1. w[t].pc \notin Waiting
      BY <1>1 DEF Locals, Local
    <2> QED BY <1>1, <2>1, JobInHand
  <1>3. CASE Calm
    BY <1>1, <1>3, CalmFrame, LocalFrame DEF Locals, history
  <1>4. ASSUME NEW j \in Jobs, Submit(j) PROVE Locals'
    <2>1. kind[j] = "none" /\ w' = w /\ size' = size /\ \A i \in Jobs \ {j} : kind'[i] = kind[i]
      BY <1>1, <1>4 DEF Submit, TypeOK, history
    <2> QED BY <1>1, <1>2, <2>1, LocalFrame DEF Locals
  <1>5. CASE NewSession
    <2>1. PICK n \in Sessions : n = gen + 1
      BY <1>1, <1>5, Constants DEF NewSession, TypeOK
    <2>2. w'[n] = Fresh(2) /\ (\A t \in Sessions \ {n} : w'[t] = w[t]) /\ UNCHANGED <<kind, size>>
      BY <1>1, <1>5, <2>1 DEF NewSession, TypeOK, jobs, history
    <2>3. Local(n)'
      BY <2>2 DEF Fresh, Local, Waiting, Named, Past
    <2>4. \A t \in Sessions \ {n} : Local(t)'
      BY <1>1, <2>2, LocalFrame DEF Locals
    <2> QED BY <2>3, <2>4 DEF Locals
  <1>6. CASE ReplyMatch \/ ReplyDeliver \/ PumpSend \/ DropRelease \/ (\E m \in Replies : MacReply(m))
    <2>1. UNCHANGED <<w, kind, size>>
      BY <1>6 DEF ReplyMatch, ReplyDeliver, PumpSend, DropRelease, MacReply, jobs, history
    <2> QED BY <1>1, <2>1, LocalFrame DEF Locals
  <1>7. ASSUME NEW s \in Sessions, WorkerThread(s) PROVE Locals'
    <2>1. ASSUME NEW t \in Sessions \ {s} PROVE Local(t)'
      <3>1. w'[t] = w[t] /\ kind' = kind
        BY <1>1, <1>7, WorkerFrame DEF jobs
      <3>2. ASSUME w[t].job # NoJob PROVE size'[w[t].job] = size[w[t].job]
        <4>1. size' = size \/ Prepare(s)
          BY <1>7 DEF WorkerThread, LoopTop, RecvJob, Drain, Activate,
             Send, ReceiveFails, AwaitReply, ReceiveReply, Flush, Persist, Finish, Report, Latch, history
        <4>2. w[t].job \in Jobs \ {w[s].job}
          BY <1>1, <1>2, <3>2 DEF Owned, Apart
        <4> QED BY <1>1, <4>1, <4>2, PrepareStep
      <3> QED BY <1>1, <3>1, <3>2, LocalFrame DEF Locals
    <2>2. Local(s)'
      BY <1>1, <1>7, LocalMoves
    <2> QED BY <2>1, <2>2 DEF Locals
  <1> QED BY <1>3, <1>4, <1>5, <1>6, <1>7 DEF Next, SessionThread, Calm

-----------------------------------------------------------------------------
(* Owned: a job is in one place, and has one name *)

\* What a worker's step makes of its job: it goes on with it, takes one, gives
\* it its name, reports it, holds on to it because the session is to end, or
\* leaves.
GoesOn(s) ==
  /\ w'[s].id = w[s].id /\ w'[s].job = w[s].job /\ UNCHANGED <<jobq, tid, outcome>>
  /\ \E c \in {{"top", "recv"}, {"drain", "activate"}, Named \ {"latch"}} : w[s].pc \in c /\ w'[s].pc \in c
Takes(s) ==
  /\ w[s].pc = "recv" /\ w'[s].pc = "drain" /\ w'[s].id = w[s].id /\ UNCHANGED <<tid, outcome>>
  /\ jobq[s] # <<>> /\ w'[s].job = Head(jobq[s]) /\ jobq'[s] = <<>>
Names(s) ==
  /\ w[s].pc = "activate" /\ w'[s].pc = "prepare" /\ w'[s].id = w[s].id /\ w'[s].job = w[s].job
  /\ UNCHANGED <<jobq, outcome>> /\ tid' = [tid EXCEPT ![w[s].job] = <<s, w[s].id>>]
Notes(s) == w[s].pc = "report" /\ tid' = tid /\ \A j \in Jobs \ {w[s].job} : outcome'[j] = outcome[j]
Reports(s) == Notes(s) /\ w'[s].pc = "top" /\ w'[s].id = w[s].id + 1 /\ w'[s].job = NoJob /\ UNCHANGED jobq
Holds(s) == Notes(s) /\ w'[s].pc = "latch" /\ w'[s].id = w[s].id /\ w'[s].job = w[s].job /\ UNCHANGED jobq
Leaves(s) ==
  /\ w'[s].pc = "done" /\ w'[s].job = NoJob /\ jobq'[s] = <<>> /\ tid' = tid
  /\ w'[s].id = w[s].id /\ (outcome' = outcome \/ Notes(s))

\* These are all its steps.
LEMMA WorkerOwns ==
  ASSUME TypeOK, Slots, NEW s \in Sessions, WorkerThread(s)
  PROVE  GoesOn(s) \/ Takes(s) \/ Names(s) \/ Reports(s) \/ Holds(s) \/ Leaves(s)
  <1> DEFINE within == Named \ {"latch"}
  <1>1. ASSUME Exit(s), tid' = tid, outcome' = outcome \/ Notes(s) PROVE Leaves(s)
    BY <1>1, ExitTyped DEF Leaves, Exit, Gone, After, TypeOK
  <1>2. ASSUME w'[s].id = w[s].id, w'[s].job = w[s].job, UNCHANGED <<jobq, tid, outcome>>,
               w[s].pc \in within, w'[s].pc \in within
        PROVE  GoesOn(s)
    BY <1>2 DEF GoesOn
  <1>3. CASE LoopTop(s)
    <2>1. To(s, "recv") /\ UNCHANGED jobq => GoesOn(s)
      BY <1>3 DEF LoopTop, To, After, GoesOn, history
    <2> QED BY <1>1, <1>3, <2>1, LoopTopStep DEF LoopTop, history
  <1>4. CASE RecvJob(s)
    <2>1. UNCHANGED <<tid, outcome>> /\ w[s].pc = "recv"
      BY <1>4 DEF RecvJob, history
    <2>2. ASSUME jobq[s] # <<>>, jobq' = [jobq EXCEPT ![s] = Tail(@)],
                 After(s, "drain", w[s].id, Head(jobq[s]), FALSE, 0, FALSE)
          PROVE  Takes(s)
      <3>1. Tail(jobq[s]) = <<>>
        BY <2>2 DEF Slots, TypeOK
      <3>2. jobq'[s] = <<>>
        BY <2>2, <3>1 DEF TypeOK
      <3> QED BY <2>1, <2>2, <3>2 DEF After, Takes
    <2> QED BY <1>1, <1>4, <2>1, <2>2, RecvJobStep
  <1>5. CASE Drain(s)
    <2>1. UNCHANGED <<jobq, tid, outcome>> /\ w[s].pc = "drain"
      BY <1>5 DEF Drain, history
    <2>2. CASE w' = w
      BY <2>1, <2>2 DEF GoesOn
    <2>3. CASE To(s, "activate")
      BY <2>1, <2>3 DEF GoesOn, To, After
    <2> QED BY <1>5, <2>2, <2>3, MoveTyped DEF Drain, WorkerPcs
  <1>6. CASE Activate(s)
    BY <1>6, MoveTyped DEF Activate, Names, To, After, WorkerPcs, chans
  <1>7. CASE Prepare(s)
    BY <1>2, <1>7, PrepareStep DEF Prepare, Ends, After, Named, chans
  <1>8. CASE Send(s)
    BY <1>2, <1>8, SendStep DEF Send, Ends, After, Named, NextPlace, history
  <1>9. CASE ReceiveFails(s)
    BY <1>2, <1>9, FailTyped DEF ReceiveFails, Ends, After, Named, chans, history
  <1>10. CASE AwaitReply(s)
    BY <1>2, <1>10, AwaitReplyStep DEF AwaitReply, Ends, After, Named, history
  <1>11. CASE ReceiveReply(s)
    BY <1>2, <1>11, ReceiveReplyStep DEF ReceiveReply, Ends, To, After, Named, history
  <1>12. CASE Flush(s)
    BY <1>2, <1>12, FlushStep DEF Flush, Ends, To, After, Named, chans, history
  <1>13. CASE Persist(s)
    BY <1>2, <1>13, PersistStep DEF Persist, Ends, After, Named, chans, history
  <1>14. CASE Finish(s)
    BY <1>2, <1>14, MoveTyped DEF Finish, To, After, WorkerPcs, Named, chans, history
  <1>15. CASE Report(s)
    <2>1. Notes(s)
      BY <1>15 DEF Report, Notes, TypeOK
    <2>2. To(s, "latch") /\ UNCHANGED jobq => Holds(s)
      BY <2>1 DEF To, After, Holds
    <2>3. After(s, "top", w[s].id + 1, NoJob, FALSE, 0, FALSE) /\ UNCHANGED jobq => Reports(s)
      BY <2>1 DEF After, Reports
    <2> QED BY <1>1, <1>15, <2>1, <2>2, <2>3, ReportStep DEF Notes
  <1>16. CASE Latch(s)
    BY <1>1, <1>16 DEF Latch, history
  <1> QED BY <1>3, <1>4, <1>5, <1>6, <1>7, <1>8, <1>9, <1>10, <1>11, <1>12, <1>13, <1>14, <1>15, <1>16
          DEF WorkerThread

\* Nothing changes for what a session has in hand.
LEMMA OwnedFrame ==
  ASSUME Owned, UNCHANGED <<jobq, w, kind, tid, outcome>>
  PROVE  Owned'
  BY ZenonT(40) DEF Owned, InHand, Apart, Placed, InOrder, Distinct

\* The parts of Owned, for the names that jobs can have.
LEMMA OwnedParts ==
  ASSUME TypeOK, Owned, NEW s \in Sessions, NEW t \in Sessions, NEW i \in Jobs, NEW j \in Jobs
  PROVE  /\ InHand(s) /\ Apart(s, t) /\ Placed(j, s) /\ InOrder(j) /\ Distinct(i, j)
         /\ s # 0 /\ s \in Nat /\ w[s].id \in Nat /\ tid[j][2] \in Nat
  <1>1. tid[j] \in (Sessions \X Ids) \cup {<<0, NoId>>}
    BY DEF TypeOK
  <1>2. tid[j][2] \in Nat
    BY <1>1, Constants DEF NoId
  <1>3. w[s].id \in Nat
    BY WorkerTyped, Constants
  <1>4. s # 0 /\ s \in Nat
    BY Constants
  <1> QED BY <1>2, <1>3, <1>4 DEF Owned

\* A worker's steps keep every job in one place and its name its own ...
LEMMA OwnedMoves ==
  ASSUME TypeOK, Slots, Locals, Owned, NEW s \in Sessions, WorkerThread(s)
  PROVE  Owned'
  <1>1. \A t \in Sessions \ {s} : w'[t] = w[t] /\ jobq'[t] = jobq[t]
    BY WorkerQueues, WorkerAlone
  <1>2. kind' = kind
    BY WorkerUnchanged DEF jobs
  <1>3. w[s].job = NoJob <=> w[s].pc \in Waiting
    BY DEF Locals, Local
  <1>4. CASE GoesOn(s)
    <2>1. ASSUME NEW t \in Sessions PROVE InHand(t)'
      <3>1. InHand(t)
        BY DEF Owned
      <3>2. CASE t = s
        BY <1>2, <1>4, <3>1, <3>2 DEF InHand, GoesOn, Named
      <3>3. CASE t # s
        BY <1>1, <1>2, <1>4, <3>1, <3>3 DEF InHand, GoesOn
      <3> QED BY <3>2, <3>3
    <2>2. ASSUME NEW t \in Sessions, NEW u \in Sessions PROVE Apart(t, u)'
      BY <1>1, <1>4, <2>2 DEF Owned, Apart, GoesOn
    <2>3. ASSUME NEW j \in Jobs, NEW t \in Sessions PROVE Placed(j, t)'
      BY <1>1, <1>4, <2>3 DEF Owned, Placed, GoesOn, Named
    <2>4. ASSUME NEW i \in Jobs, NEW j \in Jobs PROVE InOrder(j)' /\ Distinct(i, j)'
      BY <1>2, <1>4, <2>4 DEF Owned, InOrder, Distinct, GoesOn
    <2> QED BY <2>1, <2>2, <2>3, <2>4 DEF Owned
  <1>5. CASE Takes(s)
    <2>1. ASSUME NEW t \in Sessions PROVE InHand(t)'
      BY <1>1, <1>2, <1>5, <2>1, ZenonT(40) DEF Owned, InHand, Takes, Named
    <2>2. ASSUME NEW t \in Sessions, NEW u \in Sessions PROVE Apart(t, u)'
      BY <1>1, <1>5, <2>2 DEF Owned, Apart, Takes
    <2>3. ASSUME NEW j \in Jobs, NEW t \in Sessions PROVE Placed(j, t)'
      BY <1>1, <1>5, <2>3 DEF Owned, Placed, Takes, Named
    <2>4. ASSUME NEW i \in Jobs, NEW j \in Jobs PROVE InOrder(j)' /\ Distinct(i, j)'
      BY <1>2, <1>5, <2>4 DEF Owned, InOrder, Distinct, Takes
    <2> QED BY <2>1, <2>2, <2>3, <2>4 DEF Owned
  <1>6. CASE Names(s)
    <2> DEFINE new == w[s].job
    <2>1. new \in Jobs /\ new # NoJob /\ tid[new] = <<0, NoId>> /\ outcome[new] = "none" /\ kind[new] # "none"
      BY <1>3, <1>6, WorkerTyped DEF Names, Owned, InHand, InOrder, Waiting
    <2>2. tid'[new] = <<s, w[s].id>> /\ (\A j \in Jobs \ {new} : tid'[j] = tid[j]) /\ UNCHANGED <<jobq, outcome>>
      BY <1>6, <2>1 DEF Names, TypeOK
    <2>3. jobq[s] = <<>>
      BY <1>6 DEF Names, Slots, Working
    <2>4. w'[s].pc = "prepare" /\ w'[s].id = w[s].id /\ w'[s].job = new /\ w[s].pc = "activate"
      BY <1>6 DEF Names
    <2> HIDE DEF new
    <2>5. \A t \in Sessions \ {s} : /\ w[t].job # new
                                    /\ jobq[t] # <<>> => Head(jobq[t]) # new
      BY <2>1 DEF Owned, Apart, new
    <2>6. \A t \in Sessions : w[t].pc \notin Waiting => w[t].job \in Jobs
      BY JobInHand
    <2>7. \A t \in Sessions : jobq[t] # <<>> => Head(jobq[t]) \in Jobs
      BY QueuesTyped DEF TypeOK
    <2>8. ASSUME NEW t \in Sessions PROVE InHand(t)'
      <3>1. CASE t = s
        BY <1>2, <2>1, <2>2, <2>3, <2>4, <3>1 DEF InHand, Named
      <3>2. CASE t # s
        <4>1. InHand(t) /\ w'[t] = w[t] /\ jobq'[t] = jobq[t]
          BY <1>1, <3>2 DEF Owned
        <4>2. w[t].pc \in Named \cup {"drain", "activate"} => tid'[w[t].job] = tid[w[t].job]
          BY <2>2, <2>5, <2>6, <3>2 DEF Named, Waiting
        <4>3. jobq[t] # <<>> => tid'[Head(jobq[t])] = tid[Head(jobq[t])]
          BY <2>2, <2>5, <2>7, <3>2
        <4> QED BY <1>2, <2>2, <4>1, <4>2, <4>3 DEF InHand
      <3> QED BY <3>1, <3>2
    <2>9. ASSUME NEW t \in Sessions, NEW u \in Sessions PROVE Apart(t, u)'
      BY <1>1, <2>2, <2>4, <2>9 DEF Owned, Apart, new
    <2>10. \A j \in Jobs : tid[j][1] = s => tid[j][2] < w[s].id
      BY <2>4 DEF Owned, Placed, Named
    <2>11. ASSUME NEW j \in Jobs, NEW t \in Sessions PROVE Placed(j, t)'
      <3>1. CASE j = new
        BY <2>2, <2>4, <3>1 DEF Placed, Named
      <3>2. CASE j # new /\ t = s
        BY <2>2, <2>4, <2>10, <3>2 DEF Placed
      <3>3. CASE j # new /\ t # s
        BY <1>1, <2>2, <3>3 DEF Owned, Placed
      <3> QED BY <3>1, <3>2, <3>3
    <2>12. ASSUME NEW j \in Jobs PROVE InOrder(j)'
      BY <1>2, <2>1, <2>2, Constants DEF Owned, InOrder
    <2>13. ASSUME NEW i \in Jobs, NEW j \in Jobs PROVE Distinct(i, j)'
      <3>1. w[s].id \in Nat
        BY WorkerTyped, Constants
      <3>2. \A k \in Jobs : tid[k] # <<s, w[s].id>>
        BY <2>10, <3>1
      <3>3. CASE i = new \/ j = new
        BY <2>2, <3>2, <3>3 DEF Distinct
      <3>4. CASE i # new /\ j # new
        BY <2>2, <3>4 DEF Owned, Distinct
      <3> QED BY <3>3, <3>4
    <2> QED BY <2>8, <2>9, <2>11, <2>12, <2>13 DEF Owned
  <1>7. CASE Reports(s) \/ Holds(s) \/ Leaves(s)
    <2>1. /\ tid' = tid /\ (outcome' # outcome => w[s].pc = "report")
          /\ \A j \in Jobs \ {w[s].job} : outcome'[j] = outcome[j]
          /\ w'[s].pc \in {"top", "latch", "done"}
      BY <1>7 DEF Reports, Holds, Leaves, Notes
    <2>2. jobq'[s] \in {jobq[s], <<>>} /\ w'[s].job \in {NoJob, w[s].job}
      BY <1>7 DEF Reports, Holds, Leaves
    <2>3. ASSUME NEW t \in Sessions PROVE InHand(t)'
      <3>1. CASE t = s
        BY <1>2, <1>7, <2>1, <2>2, <3>1 DEF Owned, InHand, Reports, Holds, Leaves, Notes, Named
      <3>2. CASE t # s
        <4>1. w[t].pc \in Named => outcome'[w[t].job] = outcome[w[t].job]
          <5> SUFFICES ASSUME w[t].pc \in Named PROVE outcome'[w[t].job] = outcome[w[t].job]
            OBVIOUS
          <5>1. w[t].job \in Jobs /\ w[t].job # NoJob
            BY JobInHand DEF Named, Waiting, Locals, Local
          <5>2. w[s].job # w[t].job
            BY <3>2, <5>1 DEF Owned, Apart
          <5> QED BY <2>1, <5>1, <5>2
        <4> QED BY <1>1, <1>2, <2>1, <3>2, <4>1, ZenonT(40) DEF Owned, InHand
      <3> QED BY <3>1, <3>2
    <2>4. ASSUME NEW t \in Sessions, NEW u \in Sessions PROVE Apart(t, u)'
      BY <1>1, <2>2, <2>4 DEF Owned, Apart
    <2>5. ASSUME NEW j \in Jobs, NEW t \in Sessions PROVE Placed(j, t)'
      <3>1. tid[j][2] \in Nat /\ w[s].id \in Nat
        BY OwnedParts
      <3>2. CASE t = s
        BY <1>7, <2>1, <3>1, <3>2, SMTT(30) DEF Owned, Placed, Reports, Holds, Leaves, Notes, Named
      <3>3. CASE t # s
        BY <1>1, <2>1, <3>3 DEF Owned, Placed
      <3> QED BY <3>2, <3>3
    <2>6. ASSUME NEW j \in Jobs PROVE InOrder(j)'
      <3>1. CASE outcome' = outcome \/ j # w[s].job
        BY <1>2, <2>1, <3>1 DEF Owned, InOrder
      <3>2. CASE outcome' # outcome /\ j = w[s].job
        <4>1. tid[j] = <<s, w[s].id>> /\ kind[j] # "none" /\ s # 0
          BY <2>1, <3>2, OwnedParts DEF InHand, Named
        <4> QED BY <1>2, <2>1, <4>1 DEF InOrder
      <3> QED BY <3>1, <3>2
    <2>7. ASSUME NEW i \in Jobs, NEW j \in Jobs PROVE Distinct(i, j)'
      BY <2>1 DEF Owned, Distinct
    <2> QED BY <2>3, <2>4, <2>5, <2>6, <2>7 DEF Owned
  <1> QED BY <1>4, <1>5, <1>6, <1>7, WorkerOwns

\* ... and so do all others.
LEMMA OwnedKeeps == Core /\ Next => Owned'
  <1> SUFFICES ASSUME Core, Next PROVE Owned'
    OBVIOUS
  <1>1. TypeOK /\ Lives /\ Slots /\ Locals /\ Owned
    BY DEF Core
  <1>2. CASE Calm
    BY <1>1, <1>2, CalmFrame, OwnedFrame DEF chans, history
  <1>3. ASSUME NEW n \in Jobs, Submit(n) PROVE Owned'
    <2>1. route \in Sessions /\ jobq[route] = <<>> /\ kind[n] = "none"
      BY <1>1, <1>3, Constants DEF Submit, TypeOK
    <2>2. /\ UNCHANGED <<w, tid, outcome>> /\ kind'[n] # "none"
          /\ \A j \in Jobs \ {n} : kind'[j] = kind[j]
      BY <1>1, <1>3, Constants DEF Submit, TypeOK, history
    <2>3. /\ \A t \in Sessions \ {route} : jobq'[t] = jobq[t]
          /\ jobq'[route] = <<n>>
      BY <1>1, <1>3, <2>1 DEF Submit, TypeOK
    <2>4. tid[n] = <<0, NoId>>
      BY <1>1, <2>1 DEF Owned, InOrder
    <2>5. ASSUME NEW t \in Sessions
          PROVE  /\ jobq[t] # <<>> => Head(jobq[t]) \in Jobs \ {n}
                 /\ w[t].job # NoJob => w[t].job \in Jobs \ {n} /\ w[t].pc \notin Waiting
      <3>1. jobq[t] # <<>> => Head(jobq[t]) \in Jobs
        BY <1>1, QueuesTyped DEF TypeOK
      <3>2. w[t].job # NoJob => w[t].job \in Jobs /\ w[t].pc \notin Waiting /\ kind[w[t].job] # "none"
        BY <1>1, JobInHand DEF Locals, Local
      <3> QED BY <1>1, <2>1, <3>1, <3>2 DEF Owned, InHand
    <2>6. Head(<<n>>) = n /\ <<n>> # <<>>
      OBVIOUS
    <2>7. ASSUME NEW t \in Sessions PROVE InHand(t)'
      <3>1. w[t].pc \in Named \cup {"drain", "activate"} => w[t].job \in Jobs \ {n}
        BY <1>1, <2>5 DEF Locals, Local, Waiting, Named
      <3>2. InHand(t)
        BY <1>1 DEF Owned
      <3>3. CASE t = route
        BY <2>2, <2>3, <2>4, <2>6, <3>1, <3>2, <3>3 DEF InHand
      <3>4. CASE t # route
        BY <2>2, <2>3, <2>5, <3>1, <3>2, <3>4 DEF InHand
      <3> QED BY <3>3, <3>4
    <2>8. ASSUME NEW t \in Sessions, NEW u \in Sessions PROVE Apart(t, u)'
      BY <1>1, <2>2, <2>3, <2>5, <2>6, <2>8 DEF Owned, Apart
    <2>9. ASSUME NEW j \in Jobs, NEW t \in Sessions PROVE Placed(j, t)'
      BY <1>1, <2>2 DEF Owned, Placed
    <2>10. ASSUME NEW i \in Jobs, NEW j \in Jobs PROVE InOrder(j)' /\ Distinct(i, j)'
      BY <1>1, <2>2, <2>4 DEF Owned, InOrder, Distinct
    <2> QED BY <2>7, <2>8, <2>9, <2>10 DEF Owned
  <1>4. CASE NewSession
    <2>1. PICK n \in Sessions : n = gen + 1
      BY <1>1, <1>4, Constants DEF NewSession, TypeOK
    <2>2. /\ w'[n].pc = "top" /\ w'[n].job = NoJob /\ \A t \in Sessions \ {n} : w'[t] = w[t]
          /\ UNCHANGED <<jobq, kind, tid, outcome>>
      BY <1>1, <1>4, <2>1 DEF NewSession, TypeOK, Fresh, chans, jobs, history
    <2>3. w[n].pc = "unborn" /\ jobq[n] = <<>> /\ w[n].job = NoJob
      BY <1>1, <1>4, <2>1 DEF Lives, Slots, Locals, Local, Waiting, TypeOK
    <2>4. ASSUME NEW t \in Sessions PROVE InHand(t)'
      BY <1>1, <2>2, <2>3 DEF Owned, InHand, Named
    <2>5. ASSUME NEW t \in Sessions, NEW u \in Sessions PROVE Apart(t, u)'
      BY <1>1, <2>2, <2>3 DEF Owned, Apart
    <2>6. ASSUME NEW j \in Jobs, NEW t \in Sessions PROVE Placed(j, t)'
      BY <1>1, <2>2, <2>3 DEF Owned, Placed
    <2>7. ASSUME NEW i \in Jobs, NEW j \in Jobs PROVE InOrder(j)' /\ Distinct(i, j)'
      BY <1>1, <2>2 DEF Owned, InOrder, Distinct
    <2> QED BY <2>4, <2>5, <2>6, <2>7 DEF Owned
  <1>5. CASE ReplyMatch \/ ReplyDeliver \/ PumpSend \/ DropRelease \/ (\E m \in Replies : MacReply(m))
    <2>1. UNCHANGED <<jobq, w, kind, tid, outcome>>
      BY <1>5 DEF ReplyMatch, ReplyDeliver, PumpSend, DropRelease, MacReply, jobs, chans, history
    <2> QED BY <1>1, <2>1, OwnedFrame
  <1>6. ASSUME NEW s \in Sessions, WorkerThread(s) PROVE Owned'
    BY <1>1, <1>6, OwnedMoves
  <1> QED BY <1>2, <1>3, <1>4, <1>5, <1>6 DEF Next, SessionThread, Calm

-----------------------------------------------------------------------------
(* The line to the Mac *)

\* It is a line of messages.
LEMMA LineTyped ==
  ASSUME TypeOK, live \in Sessions
  PROVE  /\ Line \in Seq(Outbound) /\ Len(Line) \in Nat
         /\ \A k \in 1..Len(Line) : Line[k] \in Outbound /\ Line[k].id \in Ids
         /\ pending = NoMsg => Line = outgoing[live]
         /\ pending # NoMsg => /\ Len(Line) = Len(outgoing[live]) + 1 /\ Line[1] = pending
                               /\ \A k \in 1..Len(outgoing[live]) : Line[k + 1] = outgoing[live][k]
  <1>1. outgoing[live] \in Seq(Outbound) /\ (pending # NoMsg => pending \in Outbound)
    BY DEF TypeOK
  <1>2. Line \in Seq(Outbound)
    BY <1>1 DEF Line
  <1>3. \A k \in 1..Len(Line) : Line[k] \in Outbound /\ Line[k].id \in Ids
    <2> SUFFICES ASSUME NEW k \in 1..Len(Line) PROVE Line[k] \in Outbound /\ Line[k].id \in Ids
      OBVIOUS
    <2>1. Line[k] \in Outbound
      BY <1>2
    <2> QED BY <2>1 DEF Outbound
  <1>4. ASSUME pending # NoMsg
        PROVE  /\ Len(Line) = Len(outgoing[live]) + 1 /\ Line[1] = pending
               /\ \A k \in 1..Len(outgoing[live]) : Line[k + 1] = outgoing[live][k]
    <2>1. Line = <<pending>> \o outgoing[live] /\ <<pending>> \in Seq(Outbound) /\ Len(<<pending>>) = 1
      BY <1>1, <1>4 DEF Line
    <2> QED BY <1>1, <2>1
  <1> QED BY <1>2, <1>3, <1>4 DEF Line

\* The line as it was, one message less, and one more.
Stays == Len(Line') = Len(Line) /\ \A k \in 1..Len(Line) : Line'[k] = Line[k]
Moves ==
  /\ Len(Line) > 0 /\ Len(Line') = Len(Line) - 1 /\ \A k \in 1..Len(Line') : Line'[k] = Line[k + 1]
Grows(m) ==
  /\ Len(Line') = Len(Line) + 1 /\ Line'[Len(Line) + 1] = m /\ \A k \in 1..Len(Line) : Line'[k] = Line[k]

\* A message that is sent is the first of the line.
LEMMA PumpLine ==
  ASSUME TypeOK, Lives, PumpSend
  PROVE  /\ live \in Sessions /\ live' = live /\ \A t \in Sessions \ {live} : seen'[t] = seen[t]
         /\ \/ Stays /\ seen' = seen
            \/ Moves /\ seen'[live] = Receives(seen[live], Line[1])
  <1>1. live \in Sessions /\ live' = live
    BY Constants DEF PumpSend, TypeOK, Lives
  <1>2. \A t \in Sessions \ {live} : seen'[t] = seen[t]
    BY <1>1 DEF PumpSend, Yield, TypeOK
  <1>3. TypeOK'
    BY PumpSendTyped
  <1> DEFINE q == outgoing[live]
  <1>4. q \in Seq(Outbound) /\ (q # <<>> => /\ Tail(q) \in Seq(Outbound) /\ Head(q) = q[1] /\ Head(q) \in Outbound
                                            /\ Len(q) > 0 /\ Len(Tail(q)) = Len(q) - 1
                                            /\ \A k \in 1..Len(q) - 1 : Tail(q)[k] = q[k + 1])
    <2>1. q \in Seq(Outbound)
      BY <1>1 DEF TypeOK
    <2> QED BY <2>1, HeadTailProperties
  <1>5. NoMsg \notin Outbound
    BY DEF NoMsg, Outbound
  <1>6. CASE UNCHANGED <<outgoing, pending, seen>>
    <2>1. Line' = Line
      BY <1>1, <1>6 DEF Line
    <2> QED BY <1>1, <1>2, <1>6, <2>1 DEF Stays
  <1>7. CASE pending = NoMsg /\ q # <<>> /\ outgoing' = [outgoing EXCEPT ![live] = Tail(@)]
    <2>1. outgoing'[live] = Tail(q)
      BY <1>1, <1>7 DEF TypeOK
    <2>2. Line = q
      BY <1>7 DEF Line
    <2>3. CASE pending' = NoMsg /\ seen' = [seen EXCEPT ![live] = Receives(@, Head(q))]
      <3>1. Line' = Tail(q)
        BY <1>1, <2>1, <2>3 DEF Line
      <3>2. seen'[live] = Receives(seen[live], Line[1])
        BY <1>1, <1>4, <1>7, <2>2, <2>3 DEF TypeOK
      <3> QED BY <1>1, <1>2, <1>4, <1>7, <2>2, <3>1, <3>2 DEF Moves
    <2>4. CASE pending' = Head(q) /\ seen' = seen
      <3>1. pending' # NoMsg
        BY <1>4, <1>5, <1>7, <2>4
      <3>2. /\ Len(Line') = Len(Tail(q)) + 1 /\ Line'[1] = Head(q)
            /\ \A k \in 1..Len(Tail(q)) : Line'[k + 1] = Tail(q)[k]
        <4>1. Line' = <<pending'>> \o Tail(q)
          BY <1>1, <2>1, <3>1 DEF Line
        <4>2. <<pending'>> \in Seq(Outbound) /\ Tail(q) \in Seq(Outbound) /\ Len(<<pending'>>) = 1
          BY <1>4, <1>7, <2>4
        <4> QED BY <4>1, <4>2, <2>4
      <3>3. Len(Line') = Len(q) /\ Line'[1] = q[1]
        BY <1>4, <1>7, <3>2
      <3>4. ASSUME NEW k \in 1..Len(q) PROVE Line'[k] = q[k]
        <4>1. CASE k = 1
          BY <3>3, <4>1
        <4>2. CASE k # 1
          <5>1. k - 1 \in 1..Len(q) - 1 /\ (k - 1) + 1 = k
            BY <1>4, <4>2
          <5>2. k - 1 \in 1..Len(Tail(q))
            BY <1>4, <1>7, <5>1
          <5> QED BY <1>4, <1>7, <3>2, <5>1, <5>2
        <4> QED BY <4>1, <4>2
      <3> QED BY <1>1, <1>2, <2>2, <2>4, <3>3, <3>4 DEF Stays
    <2>5. outgoing' # outgoing
      <3>1. Tail(q) # q
        <4>1. Len(Tail(q)) = Len(q) - 1 /\ Len(q) \in Nat
          BY <1>4, <1>7
        <4>2. Len(Tail(q)) # Len(q)
          BY <4>1
        <4> QED BY <4>2
      <3> QED BY <2>1, <3>1
    <2>6. ~disconnect[live]
      BY <2>5 DEF PumpSend
    <2>7. \/ pending' = NoMsg /\ seen' = [seen EXCEPT ![live] = Receives(@, Head(q))]
          \/ pending' = Head(q) /\ seen' = seen
      BY <1>7, <2>6 DEF PumpSend, Yield
    <2> QED BY <2>3, <2>4, <2>7
  <1>8. CASE pending # NoMsg /\ outgoing' = outgoing /\ pending' = NoMsg
             /\ seen' = [seen EXCEPT ![live] = Receives(@, pending)]
    <2>1. Line' = q
      BY <1>1, <1>8 DEF Line
    <2>2. /\ Len(Line) = Len(q) + 1 /\ Line[1] = pending /\ \A k \in 1..Len(q) : Line[k + 1] = q[k]
      BY <1>1, <1>8, LineTyped
    <2>3. Len(q) \in Nat /\ seen'[live] = Receives(seen[live], Line[1])
      BY <1>1, <1>4, <1>8, <2>2 DEF TypeOK
    <2> QED BY <1>1, <1>2, <2>1, <2>2, <2>3 DEF Moves
  <1> QED BY <1>6, <1>7, <1>8 DEF PumpSend, Yield

\* What the live session's worker sends is the last of the line.
LEMMA SendLine ==
  ASSUME TypeOK, live \in Sessions, live' = live, pending' = pending, NEW m \in Outbound,
         outgoing' = [outgoing EXCEPT ![live] = Append(@, m)]
  PROVE  Grows(m)
  <1> DEFINE q == outgoing[live]
  <1>1. q \in Seq(Outbound) /\ outgoing'[live] = Append(q, m)
    BY DEF TypeOK
  <1>2. Line' = Append(Line, m)
    <2>1. CASE pending = NoMsg
      BY <1>1, <2>1 DEF Line
    <2>2. CASE pending # NoMsg
      <3>1. pending \in Outbound
        BY <2>2 DEF TypeOK
      <3>2. <<pending>> \o Append(q, m) = Append(<<pending>> \o q, m)
        BY <1>1, <3>1
      <3> QED BY <1>1, <2>2, <3>2 DEF Line
    <2> QED BY <2>1, <2>2
  <1>3. Line \in Seq(Outbound)
    BY LineTyped
  <1> QED BY <1>2, <1>3 DEF Grows

\* What is kept, so far.
LEMMA CoreKeeps == Core /\ Next => Core'
  <1> SUFFICES ASSUME Core, Next PROVE Core'
    OBVIOUS
  <1>1. TypeOK /\ Lives /\ Slots /\ Locals /\ Owned
    BY DEF Core
  <1>2. TypeOK'
    <2>1. CASE Calm
      BY <1>1, <2>1, CalmTyped DEF Calm
    <2>2. ASSUME NEW j \in Jobs, Submit(j) PROVE TypeOK'
      BY <1>1, <2>2, SubmitTyped
    <2>3. CASE NewSession
      BY <1>1, <2>3, NewSessionTyped
    <2>4. CASE ReplyMatch \/ ReplyDeliver
      BY <1>1, <2>4, ReplyTyped
    <2>5. CASE PumpSend
      BY <1>1, <2>5, PumpSendTyped
    <2>6. CASE DropRelease
      BY <1>1, <2>6, DropReleaseTyped
    <2>7. ASSUME NEW m \in Replies, MacReply(m) PROVE TypeOK'
      BY <1>1, <2>7, MacReplyTyped
    <2>8. ASSUME NEW s \in Sessions, WorkerThread(s) PROVE TypeOK'
      BY <1>1, <2>8, WorkerThreadTyped
    <2> QED BY <2>1, <2>2, <2>3, <2>4, <2>5, <2>6, <2>7, <2>8 DEF Next, SessionThread, Calm
  <1> QED BY <1>2, LivesKeeps, SlotsKeeps, LocalsKeeps, OwnedKeeps DEF Core

\* A job keeps the name it was given and what it asks for.
LEMMA NamesKept ==
  ASSUME Core, Next, NEW j \in Jobs, tid[j] # <<0, NoId>>
  PROVE  tid'[j] = tid[j] /\ kind'[j] = kind[j]
  <1>1. TypeOK /\ Slots /\ Locals /\ Owned
    BY DEF Core
  <1>2. kind[j] # "none"
    BY <1>1 DEF Owned, InOrder
  <1>3. CASE Calm
    BY <1>1, <1>3, CalmFrame DEF history
  <1>4. ASSUME NEW i \in Jobs, Submit(i) PROVE tid'[j] = tid[j] /\ kind'[j] = kind[j]
    BY <1>1, <1>2, <1>4 DEF Submit, TypeOK, history
  <1>5. CASE NewSession \/ ReplyMatch \/ ReplyDeliver \/ PumpSend \/ DropRelease \/ (\E m \in Replies : MacReply(m))
    BY <1>5 DEF NewSession, ReplyMatch, ReplyDeliver, PumpSend, DropRelease, MacReply, jobs, history
  <1>6. ASSUME NEW s \in Sessions, WorkerThread(s) PROVE tid'[j] = tid[j] /\ kind'[j] = kind[j]
    <2>1. kind' = kind
      BY <1>6, WorkerUnchanged DEF jobs
    <2>2. CASE Names(s)
      <3>1. w[s].job # j
        BY <1>1, <2>2 DEF Names, Owned, InHand
      <3> QED BY <1>1, <2>1, <2>2, <3>1 DEF Names, TypeOK
    <2>3. CASE ~Names(s)
      <3>1. tid' = tid
        BY <1>1, <1>6, <2>3, WorkerOwns DEF GoesOn, Takes, Reports, Holds, Leaves, Notes
      <3> QED BY <2>1, <3>1
    <2> QED BY <2>2, <2>3
  <1> QED BY <1>3, <1>4, <1>5, <1>6 DEF Next, SessionThread, Calm

\* And, once it was requested, its size.
LEMMA SizeKept ==
  ASSUME Core, Asked, Next, NEW s \in Sessions, NEW i \in Ids, NEW j \in Jobs, tid[j] = <<s, i>>, Requested(s, i)
  PROVE  size'[j] = size[j]
  <1>1. TypeOK /\ Slots /\ Locals /\ Owned
    BY DEF Core
  <1>2. CASE Calm
    BY <1>1, <1>2, CalmFrame DEF history
  <1>3. CASE \/ (\E n \in Jobs : Submit(n)) \/ (\E m \in Replies : MacReply(m))
             \/ NewSession \/ ReplyMatch \/ ReplyDeliver \/ PumpSend \/ DropRelease
    BY <1>3 DEF Submit, NewSession, ReplyMatch, ReplyDeliver, PumpSend, DropRelease, MacReply, history
  <1>4. ASSUME NEW t \in Sessions, WorkerThread(t), ~Prepare(t) PROVE size'[j] = size[j]
    BY <1>4 DEF WorkerThread, LoopTop, RecvJob, Drain, Activate,
       Send, ReceiveFails, AwaitReply, ReceiveReply, Flush, Persist, Finish, Report, Latch, history
  <1>5. ASSUME NEW t \in Sessions, Prepare(t) PROVE size'[j] = size[j]
    <2>1. w[t].pc = "prepare" /\ ~(w[t].pos > 0)
      BY <1>1, <1>5 DEF Prepare, Locals, Local
    <2>2. CASE j = w[t].job
      <3>1. tid[j] = <<t, w[t].id>>
        BY <1>1, <2>1, <2>2 DEF Owned, InHand, Named
      <3>2. t = s /\ i = w[s].id
        BY <3>1
      <3> QED BY <2>1, <3>2 DEF Asked
    <2>3. CASE j # w[t].job
      BY <1>1, <1>5, <2>3, PrepareStep
    <2> QED BY <2>2, <2>3
  <1> QED BY <1>2, <1>3, <1>4, <1>5 DEF Next, SessionThread, Calm

-----------------------------------------------------------------------------
(* What the Mac holds, and what is on its way to it *)

\* The next message of a transfer is what the Mac does not have of it yet.
LEMMA HeldNext ==
  ASSUME TypeOK, NEW j \in Jobs, kind[j] # "none",
         NEW x \in [ids : SUBSET Ids, id : Ids \cup {NoId}, meta : Nat, data : Nat, end : BOOLEAN],
         Held(x, j), NEW m \in Outbound, PlaceOf(x) + 1 <= LastAt(j), m.kind = KindAt(j, PlaceOf(x) + 1)
  PROVE  /\ Held(Receives(x, m), j) /\ PlaceOf(Receives(x, m)) = PlaceOf(x) + 1
         /\ Receives(x, m).id = x.id /\ Receives(x, m).ids = x.ids
  <1> DEFINE q == PlaceOf(x) + 1
  <1>1. x.meta \in Nat /\ x.data \in Nat /\ x.end \in BOOLEAN
    OBVIOUS
  <1>2. size[j] \in Nat
    <2>1. size[j] \in 0..MaxChunk
      BY DEF TypeOK
    <2> QED BY <2>1, Constants
  <1>3. PlaceOf(x) \in Nat /\ q >= 1
    BY <1>1 DEF PlaceOf
  <1>4. kind[j] = "upload" /\ q <= size[j] + 3
    BY <1>3 DEF LastAt
  <1>5. ~x.end /\ q = x.meta + x.data + 1
    BY <1>1, <1>2, <1>4 DEF PlaceOf, Held
  <1>6. CASE q <= 2
    <2>1. m.kind = "meta" /\ x.meta + 1 <= 2 /\ x.data = 0
      BY <1>1, <1>3, <1>5, <1>6 DEF KindAt, Held
    <2>2. Receives(x, m) = [x EXCEPT !.meta = x.meta + 1]
      BY <2>1 DEF Receives
    <2>3. /\ Receives(x, m).meta = x.meta + 1 /\ Receives(x, m).data = x.data /\ Receives(x, m).end = x.end
          /\ Receives(x, m).id = x.id /\ Receives(x, m).ids = x.ids
      BY <2>2
    <2> HIDE DEF q
    <2> QED BY <1>1, <1>2, <1>4, <1>5, <2>1, <2>3 DEF Held, PlaceOf
  <1>7. CASE 3 <= q /\ q <= 2 + size[j]
    <2>1. m.kind = "data" /\ x.meta = 2 /\ x.data + 1 <= size[j]
      BY <1>1, <1>2, <1>3, <1>5, <1>7 DEF KindAt, Held
    <2>2. Receives(x, m) = [x EXCEPT !.data = x.data + 1]
      BY <2>1 DEF Receives
    <2>3. /\ Receives(x, m).meta = x.meta /\ Receives(x, m).data = x.data + 1 /\ Receives(x, m).end = x.end
          /\ Receives(x, m).id = x.id /\ Receives(x, m).ids = x.ids
      BY <2>2
    <2> HIDE DEF q
    <2> QED BY <1>1, <1>2, <1>4, <1>5, <2>1, <2>3 DEF Held, PlaceOf
  <1>8. CASE q = size[j] + 3
    <2>1. m.kind = "end" /\ x.meta = 2 /\ x.data = size[j]
      BY <1>1, <1>2, <1>3, <1>5, <1>8 DEF KindAt, Held
    <2>2. Receives(x, m) = [x EXCEPT !.end = TRUE]
      BY <2>1 DEF Receives
    <2>3. /\ Receives(x, m).meta = x.meta /\ Receives(x, m).data = x.data /\ Receives(x, m).end = TRUE
          /\ Receives(x, m).id = x.id /\ Receives(x, m).ids = x.ids
      BY <2>2
    <2> HIDE DEF q
    <2> QED BY <1>1, <1>2, <1>4, <1>5, <2>1, <2>3 DEF Held, PlaceOf
  <1> QED BY <1>2, <1>3, <1>4, <1>6, <1>7, <1>8

\* A request begins the next transfer.
LEMMA HeldFirst ==
  ASSUME TypeOK, NEW j \in Jobs, kind[j] # "none",
         NEW x \in [ids : SUBSET Ids, id : Ids \cup {NoId}, meta : Nat, data : Nat, end : BOOLEAN],
         NEW m \in Outbound, m.kind = KindAt(j, 0)
  PROVE  /\ Held(Receives(x, m), j) /\ PlaceOf(Receives(x, m)) = 0
         /\ Receives(x, m).id = m.id /\ Receives(x, m).ids = x.ids \cup {m.id}
  <1>1. m.kind \in {"upload", "download"}
    BY DEF KindAt, TypeOK
  <1>2. Receives(x, m) = [ids |-> x.ids \cup {m.id}, id |-> m.id, meta |-> 0, data |-> 0, end |-> FALSE]
    BY <1>1 DEF Receives
  <1>3. size[j] \in Nat
    <2>1. size[j] \in 0..MaxChunk
      BY DEF TypeOK
    <2> QED BY <2>1, Constants
  <1> QED BY <1>2, <1>3 DEF Held, PlaceOf

\* A message of a transfer that was requested remains one.
LEMMA MessageKept ==
  ASSUME Core, Asked, Next, NEW s \in Sessions, NEW m \in Outbound, NEW p \in Nat,
         Requested(s, m.id), MessageOf(s, m, p)
  PROVE  \E j \in Jobs : tid'[j] = <<s, m.id>> /\ p <= LastAt(j)' /\ m.kind = KindAt(j, p)'
  <1>1. m.id \in Ids
    BY DEF Outbound
  <1>2. PICK j \in Jobs : tid[j] = <<s, m.id>> /\ p <= LastAt(j) /\ m.kind = KindAt(j, p)
    BY DEF MessageOf
  <1>3. tid'[j] = tid[j] /\ kind'[j] = kind[j] /\ size'[j] = size[j]
    <2>1. tid[j] # <<0, NoId>>
      BY <1>1, <1>2, Constants
    <2> QED BY <1>1, <1>2, <2>1, NamesKept, SizeKept
  <1> QED BY <1>2, <1>3 DEF LastAt, KindAt

\* A line and what it holds, in the next state.
LEMMA StreamIs ==
  ASSUME live \in Sessions, live' = live, NEW g \in [0..Len(Line') -> 0..MaxChunk + 3],
         g[0] = PlaceOf(seen'[live]),
         \A k \in 1..Len(Line') :
           \E j \in Jobs : /\ tid'[j] = <<live, Line'[k].id>> /\ g[k] <= LastAt(j)'
                           /\ Line'[k].kind = KindAt(j, g[k])',
         \A k \in 1..Len(Line') :
           Follows(IF k = 1 THEN seen'[live].id ELSE Line'[k - 1].id, g[k - 1], Line'[k].id, g[k]),
         w'[live].pos > 0 =>
           /\ (IF Len(Line') = 0 THEN seen'[live].id ELSE Line'[Len(Line')].id) = w'[live].id
           /\ g[Len(Line')] = w'[live].pos - 1
  PROVE  Stream'
  <1>1. Chain(live, Line, g)'
    BY DEF Chain, MessageOf, IdBefore, Place, PlaceOf
  <1>2. w'[live].pos > 0 => LastId(live, Line)' = w'[live].id /\ g[Len(Line')] = w'[live].pos - 1
    BY DEF LastId
  <1> QED BY <1>1, <1>2 DEF Stream

\* The line of a session, with its places.
Places(f) ==
  /\ f[0] = PlaceOf(seen[live])
  /\ \A k \in 1..Len(Line) :
       /\ Line[k] \in Outbound /\ Line[k].id \in Ids /\ Requested(live, Line[k].id)
       /\ f[k] \in Nat /\ f[k - 1] \in Nat /\ MessageOf(live, Line[k], f[k])
       /\ Follows(IF k = 1 THEN seen[live].id ELSE Line[k - 1].id, f[k - 1], Line[k].id, f[k])
  /\ w[live].pos > 0 =>
       /\ (IF Len(Line) = 0 THEN seen[live].id ELSE Line[Len(Line)].id) = w[live].id
       /\ f[Len(Line)] = w[live].pos - 1

\* There are such places, as long as the stream is in order.
LEMMA StreamHas ==
  ASSUME Core, Stream, live \in Sessions
  PROVE  /\ Len(Line) \in Nat
         /\ \E f \in [0..Len(Line) -> 0..MaxChunk + 3] : Places(f)
  <1>1. live # 0
    BY Constants
  <1>2. TypeOK
    BY DEF Core
  <1>3. PICK f \in [0..Len(Line) -> 0..MaxChunk + 3] :
               /\ Chain(live, Line, f)
               /\ w[live].pos > 0 => LastId(live, Line) = w[live].id /\ f[Len(Line)] = w[live].pos - 1
    BY <1>1 DEF Stream
  <1>4. Len(Line) \in Nat
    BY <1>2, LineTyped
  <1>5. ASSUME NEW k \in 1..Len(Line)
        PROVE  /\ Line[k] \in Outbound /\ Line[k].id \in Ids /\ Requested(live, Line[k].id)
               /\ f[k] \in Nat /\ f[k - 1] \in Nat
    <2>1. Line[k] \in Outbound /\ Line[k].id \in Ids
      BY <1>2, LineTyped
    <2>2. k \in 0..Len(Line) /\ k - 1 \in 0..Len(Line)
      BY <1>4
    <2>3. f[k] \in 0..MaxChunk + 3 /\ f[k - 1] \in 0..MaxChunk + 3
      BY <2>2
    <2> QED BY <2>1, <2>3, Constants DEF Requested
  <1>6. ASSUME NEW k \in 1..Len(Line)
        PROVE  /\ MessageOf(live, Line[k], f[k])
               /\ Follows(IF k = 1 THEN seen[live].id ELSE Line[k - 1].id, f[k - 1], Line[k].id, f[k])
    BY <1>3 DEF Chain, IdBefore
  <1>7. f[0] = PlaceOf(seen[live])
    BY <1>3 DEF Chain, Place
  <1>8. w[live].pos > 0 =>
          /\ (IF Len(Line) = 0 THEN seen[live].id ELSE Line[Len(Line)].id) = w[live].id
          /\ f[Len(Line)] = w[live].pos - 1
    BY <1>3 DEF LastId
  <1> QED BY <1>3, <1>4, <1>5, <1>6, <1>7, <1>8 DEF Places

\* Each message of it remains in its place.
LEMMA PlaceKept ==
  ASSUME Core, Asked, Next, live \in Sessions, NEW f, Places(f), NEW k \in 1..Len(Line)
  PROVE  \E j \in Jobs : tid'[j] = <<live, Line[k].id>> /\ f[k] <= LastAt(j)' /\ Line[k].kind = KindAt(j, f[k])'
  <1>1. PICK m \in Outbound : m = Line[k]
    BY DEF Places
  <1>2. PICK p \in Nat : p = f[k]
    BY DEF Places
  <1>3. Requested(live, m.id) /\ MessageOf(live, m, p)
    BY <1>1, <1>2 DEF Places
  <1>4. PICK s \in Sessions : s = live
    OBVIOUS
  <1>5. \E j \in Jobs : tid'[j] = <<s, m.id>> /\ p <= LastAt(j)' /\ m.kind = KindAt(j, p)'
    BY <1>3, <1>4, MessageKept
  <1> QED BY <1>1, <1>2, <1>4, <1>5

\* Nothing is sent or received.
LEMMA StreamStays ==
  ASSUME Core, Asked, Stream, Next, live \in Sessions, live' = live, Stays, seen'[live] = seen[live],
         w'[live].pos > 0 => w'[live].pos = w[live].pos /\ w'[live].id = w[live].id
  PROVE  Stream'
  <1>1. PICK f \in [0..Len(Line) -> 0..MaxChunk + 3] : Places(f)
    BY StreamHas
  <1>2. Len(Line) \in Nat /\ Len(Line') = Len(Line) /\ \A k \in 1..Len(Line) : Line'[k] = Line[k]
    BY StreamHas DEF Stays
  <1>3. ASSUME NEW k \in 1..Len(Line')
        PROVE  \E j \in Jobs : /\ tid'[j] = <<live, Line'[k].id>> /\ f[k] <= LastAt(j)'
                               /\ Line'[k].kind = KindAt(j, f[k])'
    <2>1. Line'[k] = Line[k]
      BY <1>2
    <2> QED BY <1>1, <1>2, <2>1, PlaceKept, ZenonT(40)
  <1>4. ASSUME NEW k \in 1..Len(Line')
        PROVE  Follows(IF k = 1 THEN seen'[live].id ELSE Line'[k - 1].id, f[k - 1], Line'[k].id, f[k])
    <2>1. k # 1 => k - 1 \in 1..Len(Line)
      BY <1>2
    <2> QED BY <1>1, <1>2, <2>1 DEF Places
  <1>5. w'[live].pos > 0 =>
           /\ (IF Len(Line') = 0 THEN seen'[live].id ELSE Line'[Len(Line')].id) = w'[live].id
           /\ f[Len(Line')] = w'[live].pos - 1
    <2>1. Len(Line) # 0 => Len(Line) \in 1..Len(Line)
      BY <1>2
    <2> QED BY <1>1, <1>2, <2>1 DEF Places
  <1>6. f \in [0..Len(Line') -> 0..MaxChunk + 3] /\ f[0] = PlaceOf(seen'[live])
    BY <1>1, <1>2 DEF Places
  <1> QED BY <1>3, <1>4, <1>5, <1>6, StreamIs

\* What the first message of the line makes of what the Mac holds.
LEMMA FirstReceived ==
  ASSUME Core, MacHas, live \in Sessions, NEW f, Places(f), Len(Line) > 0, NEW y, y = Receives(seen[live], Line[1])
  PROVE  /\ PlaceOf(y) = f[1] /\ y.id = Line[1].id
         /\ \/ y.id = seen[live].id /\ y.ids = seen[live].ids
            \/ y.id > seen[live].id /\ y.ids = seen[live].ids \cup {y.id}
         /\ \E j \in Jobs : tid[j] = <<live, y.id>> /\ Held(y, j)
  <1>1. TypeOK /\ Owned
    BY DEF Core
  <1>2. 1 \in 1..Len(Line)
    BY <1>1, LineTyped
  <1>3. PICK x \in [ids : SUBSET Ids, id : Ids \cup {NoId}, meta : Nat, data : Nat, end : BOOLEAN] : x = seen[live]
    BY <1>1 DEF TypeOK
  <1>4. PICK m \in Outbound : m = Line[1]
    BY <1>2 DEF Places
  <1>5. PICK j \in Jobs : tid[j] = <<live, m.id>> /\ f[1] <= LastAt(j) /\ m.kind = KindAt(j, f[1])
    BY <1>2, <1>4 DEF Places, MessageOf
  <1>6. m.id \in Ids /\ m.id # NoId /\ tid[j] # <<0, NoId>>
    BY <1>5, Constants DEF Outbound, NoId
  <1>7. kind[j] # "none"
    BY <1>1, <1>6 DEF Owned, InOrder
  <1>8. Follows(x.id, PlaceOf(x), m.id, f[1])
    <2>1. Follows(seen[live].id, f[0], Line[1].id, f[1]) /\ f[0] = PlaceOf(seen[live])
      BY <1>2 DEF Places
    <2> QED BY <1>3, <1>4, <2>1
  <1>9. CASE m.id = x.id /\ f[1] = PlaceOf(x) + 1
    <2>1. PICK i \in Jobs : tid[i] = <<live, x.id>> /\ Held(x, i)
      BY <1>3, <1>6, <1>9 DEF MacHas
    <2>2. i = j
      BY <1>1, <1>5, <1>6, <1>9, <2>1 DEF Owned, Distinct
    <2>3. Held(y, j) /\ PlaceOf(y) = f[1] /\ y.id = x.id /\ y.ids = x.ids
      BY <1>1, <1>3, <1>4, <1>5, <1>7, <1>9, <2>1, <2>2, HeldNext
    <2> QED BY <1>3, <1>4, <1>5, <1>9, <2>3
  <1>10. CASE m.id > x.id /\ f[1] = 0
    <2>1. Held(y, j) /\ PlaceOf(y) = 0 /\ y.id = m.id /\ y.ids = x.ids \cup {m.id}
      BY <1>1, <1>3, <1>4, <1>5, <1>7, <1>10, HeldFirst
    <2> QED BY <1>3, <1>4, <1>5, <1>10, <2>1
  <1> QED BY <1>8, <1>9, <1>10 DEF Follows

\* The first message of the line was received.
LEMMA StreamMoves ==
  ASSUME Core, MacHas, Asked, Stream, Next, live \in Sessions, live' = live, Moves, w' = w,
         seen'[live] = Receives(seen[live], Line[1])
  PROVE  Stream'
  <1>1. PICK f \in [0..Len(Line) -> 0..MaxChunk + 3] : Places(f)
    BY StreamHas
  <1>2. Len(Line) \in Nat /\ Len(Line) > 0 /\ Len(Line') = Len(Line) - 1
        /\ \A k \in 1..Len(Line') : Line'[k] = Line[k + 1]
    BY StreamHas DEF Moves
  <1>3. PICK g \in [0..Len(Line') -> 0..MaxChunk + 3] : \A k \in 0..Len(Line') : g[k] = f[k + 1]
    <2>1. \A k \in 0..Len(Line') : k + 1 \in 0..Len(Line)
      BY <1>2
    <2>2. [k \in 0..Len(Line') |-> f[k + 1]] \in [0..Len(Line') -> 0..MaxChunk + 3]
      BY <1>1, <2>1
    <2> QED BY <2>2
  <1>4. PlaceOf(seen'[live]) = f[1] /\ seen'[live].id = Line[1].id
    BY <1>1, <1>2, FirstReceived
  <1>5. 0 \in 0..Len(Line') /\ g[0] = PlaceOf(seen'[live])
    BY <1>2, <1>3, <1>4
  <1>6. ASSUME NEW k \in 1..Len(Line')
        PROVE  /\ Line'[k] = Line[k + 1] /\ k + 1 \in 1..Len(Line) /\ k + 1 # 1 /\ (k + 1) - 1 = k
               /\ g[k] = f[k + 1] /\ g[k - 1] = f[k]
               /\ (IF k = 1 THEN seen'[live].id ELSE Line'[k - 1].id) = Line[k].id
    <2>1. k \in 0..Len(Line') /\ k - 1 \in 0..Len(Line') /\ (k - 1) + 1 = k /\ (k # 1 => k - 1 \in 1..Len(Line'))
      BY <1>2
    <2>2. g[k] = f[k + 1] /\ g[k - 1] = f[k] /\ Line'[k] = Line[k + 1] /\ k + 1 \in 1..Len(Line)
      <3>1. g[k - 1] = f[(k - 1) + 1]
        BY <1>3, <2>1
      <3>2. k + 1 \in 1..Len(Line)
        BY <1>2
      <3> QED BY <1>2, <1>3, <2>1, <3>1, <3>2
    <2>3. CASE k = 1
      BY <1>4, <2>2, <2>3
    <2>4. CASE k # 1
      <3>1. Line'[k - 1] = Line[(k - 1) + 1]
        BY <1>2, <2>1, <2>4
      <3> QED BY <2>1, <2>2, <2>4, <3>1
    <2> QED BY <2>3, <2>4
  <1>7. ASSUME NEW k \in 1..Len(Line')
        PROVE  \E j \in Jobs : /\ tid'[j] = <<live, Line'[k].id>> /\ g[k] <= LastAt(j)'
                               /\ Line'[k].kind = KindAt(j, g[k])'
    <2>1. PICK n \in 1..Len(Line) : n = k + 1
      BY <1>6
    <2>2. PICK p : p = f[n]
      OBVIOUS
    <2>3. Line'[k] = Line[n] /\ g[k] = p
      BY <1>6, <2>1, <2>2
    <2>4. \E j \in Jobs : tid'[j] = <<live, Line[n].id>> /\ f[n] <= LastAt(j)' /\ Line[n].kind = KindAt(j, f[n])'
      BY <1>1, PlaceKept
    <2> QED BY <2>2, <2>3, <2>4
  <1>8. ASSUME NEW k \in 1..Len(Line')
        PROVE  Follows(IF k = 1 THEN seen'[live].id ELSE Line'[k - 1].id, g[k - 1], Line'[k].id, g[k])
    <2>1. Follows(Line[k].id, f[k], Line[k + 1].id, f[k + 1])
      BY <1>1, <1>6 DEF Places
    <2> QED BY <1>6, <2>1
  <1>9. w'[live].pos > 0 =>
           /\ (IF Len(Line') = 0 THEN seen'[live].id ELSE Line'[Len(Line')].id) = w'[live].id
           /\ g[Len(Line')] = w'[live].pos - 1
    <2>1. Len(Line') + 1 = Len(Line) /\ Len(Line') \in 0..Len(Line')
      BY <1>2
    <2>2. g[Len(Line')] = f[Len(Line)]
      BY <1>3, <2>1
    <2>3. (IF Len(Line') = 0 THEN seen'[live].id ELSE Line'[Len(Line')].id) = Line[Len(Line)].id
      <3>1. CASE Len(Line') = 0
        <4>1. Len(Line) = 1
          BY <1>2, <3>1
        <4> QED BY <1>4, <3>1, <4>1
      <3>2. CASE Len(Line') # 0
        <4>1. Len(Line') \in 1..Len(Line')
          BY <1>2, <3>2
        <4> QED BY <1>2, <2>1, <3>2, <4>1
      <3> QED BY <3>1, <3>2
    <2> QED BY <1>1, <1>2, <2>2, <2>3 DEF Places
  <1> QED BY <1>3, <1>5, <1>7, <1>8, <1>9, StreamIs

\* The live session's worker sent a message.
LEMMA StreamGrows ==
  ASSUME Core, MacHas, Asked, Stream, Next, live \in Sessions, live' = live, seen' = seen,
         NEW j \in Jobs, tid[j] = <<live, w[live].id>>, tid' = tid, kind' = kind, size' = size,
         NEW m \in Outbound, Grows(m), m.id = w[live].id, m.kind = KindAt(j, w[live].pos), w[live].pos <= LastAt(j),
         w'[live].pos = w[live].pos + 1, w'[live].id = w[live].id, w[live].pc = "send"
  PROVE  Stream'
  <1>1. PICK f \in [0..Len(Line) -> 0..MaxChunk + 3] : Places(f)
    BY StreamHas
  <1>2. /\ Len(Line) \in Nat /\ Len(Line') = Len(Line) + 1 /\ Line'[Len(Line) + 1] = m
        /\ \A k \in 1..Len(Line) : Line'[k] = Line[k]
    BY StreamHas DEF Grows
  <1>3. TypeOK
    BY DEF Core
  <1>4. w[live].pos \in 0..MaxChunk + 3
    <2>1. size[j] \in 0..MaxChunk /\ w[live].pos \in Nat /\ MaxChunk \in Nat
      BY <1>3, WorkerTyped, Constants DEF TypeOK
    <2>2. LastAt(j) <= MaxChunk + 3
      BY <2>1 DEF LastAt
    <2>3. LastAt(j) \in Nat
      BY <2>1 DEF LastAt
    <2> QED BY <2>1, <2>2, <2>3
  <1>5. PICK g \in [0..Len(Line') -> 0..MaxChunk + 3] :
               (\A k \in 0..Len(Line) : g[k] = f[k]) /\ g[Len(Line) + 1] = w[live].pos
    <2> DEFINE h == [k \in 0..Len(Line') |-> IF k <= Len(Line) THEN f[k] ELSE w[live].pos]
    <2>1. h \in [0..Len(Line') -> 0..MaxChunk + 3]
      BY <1>1, <1>2, <1>4
    <2>2. (\A k \in 0..Len(Line) : h[k] = f[k]) /\ h[Len(Line) + 1] = w[live].pos
      BY <1>2
    <2> QED BY <2>1, <2>2
  <1>6. g[0] = PlaceOf(seen'[live])
    <2>1. 0 \in 0..Len(Line)
      BY <1>2
    <2> QED BY <1>1, <1>5, <2>1 DEF Places
  <1>7. Follows(IF Len(Line) = 0 THEN seen[live].id ELSE Line[Len(Line)].id, f[Len(Line)], m.id, w[live].pos)
    <2> DEFINE last == IF Len(Line) = 0 THEN seen[live].id ELSE Line[Len(Line)].id
    <2>1. CASE w[live].pos > 0
      <3>1. last = w[live].id /\ f[Len(Line)] = w[live].pos - 1
        BY <1>1, <2>1 DEF Places
      <3> QED BY <1>4, <3>1 DEF Follows
    <2>2. CASE w[live].pos = 0
      <3>1. \A i \in Ids : Requested(live, i) => i < w[live].id
        <4>1. \A i \in Ids : i \in Nat
          BY Constants
        <4>2. w[live].id \in Nat
          BY <1>3, WorkerTyped, Constants
        <4>3. ~Requested(live, w[live].id)
          BY <2>2 DEF Asked
        <4>4. \A i \in Ids : Requested(live, i) => i <= w[live].id
          BY DEF Asked
        <4> QED BY <4>1, <4>2, <4>3, <4>4
      <3>2. CASE Len(Line) = 0
        <4>1. seen[live].id \in Ids \cup {NoId}
          BY <1>3 DEF TypeOK
        <4>2. seen[live].id \in Ids => Requested(live, seen[live].id)
          BY Constants DEF Asked, Requested, NoId
        <4>3. w[live].id > NoId
          BY <1>3, WorkerTyped, Constants DEF NoId
        <4> QED BY <2>2, <3>1, <3>2, <4>1, <4>2, <4>3 DEF Follows
      <3>3. CASE Len(Line) # 0
        <4>1. Len(Line) \in 1..Len(Line)
          BY <1>2, <3>3
        <4>2. Requested(live, Line[Len(Line)].id) /\ Line[Len(Line)].id \in Ids
          BY <1>1, <4>1 DEF Places
        <4> QED BY <2>2, <3>1, <3>3, <4>2 DEF Follows
      <3> QED BY <3>2, <3>3
    <2> QED BY <1>4, <2>1, <2>2
  <1>8. ASSUME NEW k \in 1..Len(Line')
        PROVE  \/ k \in 1..Len(Line) /\ Line'[k] = Line[k] /\ g[k] = f[k] /\ g[k - 1] = f[k - 1] /\ (k # 1 => Line'[k - 1] = Line[k - 1])
               \/ k = Len(Line) + 1 /\ Line'[k] = m /\ g[k] = w[live].pos /\ g[k - 1] = f[Len(Line)]
                  /\ (IF k = 1 THEN seen'[live].id ELSE Line'[k - 1].id) = (IF Len(Line) = 0 THEN seen[live].id ELSE Line[Len(Line)].id)
    <2>1. CASE k \in 1..Len(Line)
      <3>1. k \in 0..Len(Line) /\ k - 1 \in 0..Len(Line) /\ (k # 1 => k - 1 \in 1..Len(Line))
        BY <1>2, <2>1
      <3> QED BY <1>2, <1>5, <2>1, <3>1
    <2>2. CASE k = Len(Line) + 1
      <3>1. k - 1 = Len(Line) /\ Len(Line) \in 0..Len(Line) /\ (k = 1 <=> Len(Line) = 0)
            /\ (k # 1 => Len(Line) \in 1..Len(Line))
        BY <1>2, <2>2
      <3> QED BY <1>2, <1>5, <2>2, <3>1
    <2> QED BY <1>2, <2>1, <2>2
  <1>9. ASSUME NEW k \in 1..Len(Line')
        PROVE  \E i \in Jobs : /\ tid'[i] = <<live, Line'[k].id>> /\ g[k] <= LastAt(i)'
                               /\ Line'[k].kind = KindAt(i, g[k])'
    <2>1. CASE k \in 1..Len(Line) /\ Line'[k] = Line[k] /\ g[k] = f[k]
      <3>1. PICK p : p = f[k]
        OBVIOUS
      <3>2. \E i \in Jobs : tid'[i] = <<live, Line[k].id>> /\ f[k] <= LastAt(i)' /\ Line[k].kind = KindAt(i, f[k])'
        BY <1>1, <2>1, PlaceKept
      <3> QED BY <2>1, <3>1, <3>2
    <2>2. CASE Line'[k] = m /\ g[k] = w[live].pos
      <3>1. KindAt(j, g[k])' = KindAt(j, g[k]) /\ LastAt(j)' = LastAt(j)
        BY DEF KindAt, LastAt
      <3>2. KindAt(j, g[k]) = KindAt(j, w[live].pos)
        BY <2>2
      <3> QED BY <2>2, <3>1, <3>2
    <2> QED BY <1>8, <2>1, <2>2
  <1>10. ASSUME NEW k \in 1..Len(Line')
        PROVE  Follows(IF k = 1 THEN seen'[live].id ELSE Line'[k - 1].id, g[k - 1], Line'[k].id, g[k])
    BY <1>1, <1>7, <1>8 DEF Places
  <1>11. w'[live].pos > 0 =>
           /\ (IF Len(Line') = 0 THEN seen'[live].id ELSE Line'[Len(Line')].id) = w'[live].id
           /\ g[Len(Line')] = w'[live].pos - 1
    BY <1>2, <1>4, <1>5
  <1> QED BY <1>5, <1>6, <1>9, <1>10, <1>11, StreamIs

\* A worker sends the next message of its transfer, or sends nothing.
Sends(s) ==
  /\ live = s /\ w[s].pc = "send" /\ outgoing' = [outgoing EXCEPT ![s] = Append(@, MessageAt(s))]
  /\ w'[s].pos = w[s].pos + 1 /\ w'[s].id = w[s].id /\ w'[s].ok = w[s].ok /\ w'[s].pc \in {"send", "await", "receive"}
  /\ UNCHANGED <<jobq, incoming, history>>
Rests(s) ==
  /\ outgoing' = outgoing
  /\ \/ w'[s].pos = w[s].pos /\ w'[s].id = w[s].id
     \/ w'[s].pos = 0 /\ w'[s].pc \in {"top", "done"}

\* These are all its steps.
LEMMA WorkerSends ==
  ASSUME TypeOK, Locals, NEW s \in Sessions, WorkerThread(s)
  PROVE  Sends(s) \/ Rests(s)
  <1>1. w[s].pc \in Waiting \cup {"drain", "activate"} => w[s].pos = 0
    BY WorkerTyped DEF Locals, Local, Waiting, Named
  <1>2. Exit(s) => w'[s].pos = 0 /\ w'[s].pc = "done"
    BY ExitTyped DEF Gone, After
  <1>3. CASE LoopTop(s)
    BY <1>2, <1>3, LoopTopStep DEF LoopTop, To, After, Rests
  <1>4. CASE RecvJob(s)
    BY <1>1, <1>2, <1>4, RecvJobStep DEF RecvJob, After, Rests, Waiting
  <1>5. CASE Drain(s)
    BY <1>5, MoveTyped DEF Drain, To, After, Rests, WorkerPcs
  <1>6. CASE Activate(s)
    BY <1>6, MoveTyped DEF Activate, To, After, Rests, WorkerPcs, chans
  <1>7. CASE Prepare(s)
    BY <1>7, PrepareStep DEF Prepare, Ends, After, Rests, chans
  <1>8. CASE Send(s)
    BY <1>8, SendStep DEF Send, Ends, After, NextPlace, Sends, Rests
  <1>9. CASE ReceiveFails(s)
    BY <1>9, FailTyped DEF ReceiveFails, Ends, After, Rests, chans
  <1>10. CASE AwaitReply(s)
    BY <1>10, AwaitReplyStep DEF AwaitReply, Ends, After, Rests
  <1>11. CASE ReceiveReply(s)
    BY <1>11, ReceiveReplyStep DEF ReceiveReply, Ends, To, After, Rests
  <1>12. CASE Flush(s)
    BY <1>12, FlushStep DEF Flush, Ends, To, After, Rests, chans
  <1>13. CASE Persist(s)
    BY <1>13, PersistStep DEF Persist, Ends, After, Rests, chans
  <1>14. CASE Finish(s)
    BY <1>14, MoveTyped DEF Finish, To, After, Rests, WorkerPcs, chans
  <1>15. CASE Report(s)
    BY <1>2, <1>15, ReportStep DEF Report, To, After, Rests
  <1>16. CASE Latch(s)
    BY <1>2, <1>16 DEF Latch, Rests
  <1> QED BY <1>3, <1>4, <1>5, <1>6, <1>7, <1>8, <1>9, <1>10, <1>11, <1>12, <1>13, <1>14, <1>15, <1>16
          DEF WorkerThread

\* A step that sends and receives nothing.
Quiet ==
  /\ live' = live /\ seen' = seen /\ (live # 0 => pending' = pending /\ outgoing'[live] = outgoing[live])

\* It leaves the line as it was.
LEMMA QuietLine ==
  ASSUME TypeOK, Quiet, live \in Sessions
  PROVE  Line' = Line /\ Stays
  <1>1. Line' = Line
    BY Constants DEF Quiet, Line
  <1>2. Len(Line) \in Nat
    BY LineTyped
  <1> QED BY <1>1, <1>2 DEF Stays

\* Which steps are not, and what they do to the live session's worker.
LEMMA QuietSteps ==
  ASSUME Core, Next
  PROVE  \/ NewSession \/ DropRelease
         \/ PumpSend /\ w' = w
         \/ Quiet /\ (live # 0 /\ w'[live].pos > 0 => w'[live].pos = w[live].pos /\ w'[live].id = w[live].id)
         \/ live \in Sessions /\ WorkerThread(live) /\ Sends(live)
  <1>1. TypeOK /\ Lives /\ Slots /\ Locals /\ Owned
    BY DEF Core
  <1>2. live # 0 => live \in Sessions
    BY <1>1, Constants DEF TypeOK
  <1>3. CASE Calm
    BY <1>1, <1>3, CalmFrame DEF Quiet, chans, mac
  <1>4. ASSUME NEW j \in Jobs, Submit(j) PROVE Quiet /\ w' = w
    BY <1>4 DEF Submit, Quiet, pump, mac
  <1>5. CASE ReplyMatch \/ ReplyDeliver \/ (\E m \in Replies : MacReply(m))
    BY <1>5 DEF ReplyMatch, ReplyDeliver, MacReply, Quiet, chans, mac
  <1>6. CASE PumpSend
    BY <1>6 DEF PumpSend
  <1>7. ASSUME NEW s \in Sessions, WorkerThread(s)
        PROVE  \/ Quiet /\ (live # 0 /\ w'[live].pos > 0 => w'[live].pos = w[live].pos /\ w'[live].id = w[live].id)
               \/ live \in Sessions /\ WorkerThread(live) /\ Sends(live)
    <2>1. live' = live /\ seen' = seen /\ pending' = pending /\ \A t \in Sessions \ {s} : w'[t] = w[t]
      BY <1>1, <1>7, WorkerFrame DEF pump, mac
    <2>2. CASE Sends(s)
      BY <1>7, <2>2 DEF Sends
    <2>3. CASE Rests(s)
      <3>1. Quiet
        BY <2>1, <2>3 DEF Quiet, Rests
      <3>2. w'[s].pos > 0 => w'[s].pos = w[s].pos /\ w'[s].id = w[s].id
        BY <2>3 DEF Rests
      <3> QED BY <1>2, <2>1, <3>1, <3>2
    <2> QED BY <1>1, <1>7, <2>2, <2>3, WorkerSends
  <1> QED BY <1>3, <1>4, <1>5, <1>6, <1>7 DEF Next, SessionThread, Calm

\* What a worker sends is the next message of its transfer.
LEMMA SendsNext ==
  ASSUME Core, live \in Sessions, WorkerThread(live), Sends(live)
  PROVE  /\ live' = live /\ seen' = seen /\ kind' = kind /\ w[live].pc = "send"
         /\ MessageAt(live) \in Outbound /\ Grows(MessageAt(live)) /\ MessageAt(live).id = w[live].id
         /\ w[live].job \in Jobs /\ tid[w[live].job] = <<live, w[live].id>>
         /\ MessageAt(live).kind = KindAt(w[live].job, w[live].pos) /\ w[live].pos <= LastAt(w[live].job)
  <1>1. TypeOK /\ Lives /\ Slots /\ Locals /\ Owned
    BY DEF Core
  <1>2. live' = live /\ seen' = seen /\ kind' = kind /\ pending' = pending
    BY WorkerUnchanged DEF pump, jobs, mac
  <1>3. w[live].pc = "send"
    BY DEF Sends
  <1>4. MessageAt(live) \in Outbound
    BY <1>1, <1>3, MessageTyped
  <1>5. Grows(MessageAt(live))
    <2>1. PICK m \in Outbound : m = MessageAt(live)
      BY <1>4
    <2>2. Grows(m)
      BY <1>1, <1>2, <2>1, SendLine DEF Sends
    <2> QED BY <2>1, <2>2 DEF Grows
  <1>6. w[live].job \in Jobs /\ tid[w[live].job] = <<live, w[live].id>>
    BY <1>1, <1>3, JobInHand DEF Waiting, Owned, InHand, Named
  <1>7. MessageAt(live).id = w[live].id /\ MessageAt(live).kind = KindAt(w[live].job, w[live].pos)
    BY DEF MessageAt, KindAt
  <1>8. w[live].pos <= LastAt(w[live].job)
    BY <1>1, <1>3 DEF Locals, Local, LastPos, LastAt
  <1> QED BY <1>2, <1>3, <1>4, <1>5, <1>6, <1>7, <1>8

\* The line keeps continuing what the Mac holds.
LEMMA StreamKeeps == Core /\ MacHas /\ Asked /\ Stream /\ Next => Stream'
  <1> SUFFICES ASSUME Core, MacHas, Asked, Stream, Next PROVE Stream'
    OBVIOUS
  <1>1. TypeOK /\ Lives /\ Slots /\ Locals /\ Owned
    BY DEF Core
  <1>2. live # 0 => live \in Sessions
    BY <1>1, Constants DEF TypeOK
  <1>3. CASE NewSession
    <2>1. PICK n \in Sessions : n = gen + 1
      BY <1>1, <1>3, Constants DEF NewSession, TypeOK
    <2>2. /\ live' = n /\ outgoing'[n] = <<>> /\ pending' = NoMsg /\ seen'[n] = seen[n] /\ w'[n].pos = 0
      BY <1>1, <1>3, <2>1, Constants DEF NewSession, TypeOK, Lives, Fresh, chans
    <2>3. Line' = <<>>
      BY <2>2 DEF Line
    <2>4. seen[n].id = NoId
      BY <1>1, <2>1, Constants DEF Lives, TypeOK
    <2>5. PlaceOf(seen'[n]) = 0
      BY <2>2, <2>4 DEF MacHas, PlaceOf
    <2>6. PICK g \in [0..0 -> 0..MaxChunk + 3] : g[0] = 0
      <3> DEFINE h == [k \in 0..0 |-> 0]
      <3>1. h \in [0..0 -> 0..MaxChunk + 3] /\ h[0] = 0
        BY Constants
      <3> QED BY <3>1
    <2>7. Chain(live, Line, g)'
      BY <2>2, <2>3, <2>5, <2>6 DEF Chain, Place
    <2>8. Len(Line') = 0
      BY <2>3
    <2> QED BY <2>2, <2>6, <2>7, <2>8 DEF Stream
  <1>4. CASE DropRelease
    BY <1>4 DEF DropRelease, Stream
  <1>5. CASE live = 0 /\ Quiet
    BY <1>5 DEF Quiet, Stream
  <1>6. CASE live # 0 /\ Quiet /\ (w'[live].pos > 0 => w'[live].pos = w[live].pos /\ w'[live].id = w[live].id)
    BY <1>1, <1>2, <1>6, QuietLine, StreamStays DEF Quiet
  <1>7. CASE PumpSend /\ w' = w
    <2>1. live \in Sessions /\ live' = live
      BY <1>1, <1>7, PumpLine
    <2>2. CASE Stays /\ seen' = seen
      BY <1>7, <2>1, <2>2, StreamStays
    <2>3. CASE Moves /\ seen'[live] = Receives(seen[live], Line[1])
      BY <1>7, <2>1, <2>3, StreamMoves
    <2> QED BY <1>1, <1>7, <2>2, <2>3, PumpLine
  <1>8. CASE live \in Sessions /\ WorkerThread(live) /\ Sends(live)
    <2>1. PICK m \in Outbound : m = MessageAt(live)
      BY <1>8, SendsNext
    <2>2. PICK j \in Jobs : j = w[live].job
      BY <1>8, SendsNext
    <2>3. Grows(m)
      <3>1. Grows(MessageAt(live))
        BY <1>8, SendsNext
      <3> QED BY <2>1, <3>1 DEF Grows
    <2>4. /\ live' = live /\ seen' = seen /\ kind' = kind /\ w[live].pc = "send" /\ m.id = w[live].id
          /\ tid[j] = <<live, w[live].id>> /\ m.kind = KindAt(j, w[live].pos) /\ w[live].pos <= LastAt(j)
      BY <1>8, <2>1, <2>2, SendsNext
    <2>5. tid' = tid /\ size' = size /\ w'[live].pos = w[live].pos + 1 /\ w'[live].id = w[live].id
      BY <1>8 DEF Sends, history
    <2> QED BY <1>8, <2>3, <2>4, <2>5, StreamGrows
  <1> QED BY <1>3, <1>4, <1>5, <1>6, <1>7, <1>8, QuietSteps

\* The Mac's memory of a session as it was.
LEMMA MacKept ==
  ASSUME Core, MacHas, Asked, Next, NEW s \in Sessions, seen'[s] = seen[s]
  PROVE  /\ seen'[s].id = NoId => seen'[s] = [ids |-> {}, id |-> NoId, meta |-> 0, data |-> 0, end |-> FALSE]
         /\ seen'[s].id # NoId => \E j \in Jobs : tid'[j] = <<s, seen'[s].id>> /\ Held(seen[s], j)'
  <1>1. TypeOK
    BY DEF Core
  <1>2. CASE seen[s].id = NoId
    BY <1>2 DEF MacHas
  <1>3. CASE seen[s].id # NoId
    <2>1. PICK j \in Jobs : tid[j] = <<s, seen[s].id>> /\ Held(seen[s], j)
      BY <1>3 DEF MacHas
    <2>2. seen[s].id \in Ids /\ Requested(s, seen[s].id)
      BY <1>1, <1>3 DEF TypeOK, Asked, Requested
    <2>3. tid[j] # <<0, NoId>>
      BY <1>3, <2>1
    <2>4. tid'[j] = tid[j] /\ kind'[j] = kind[j] /\ size'[j] = size[j]
      BY <2>1, <2>2, <2>3, NamesKept, SizeKept
    <2>5. Held(seen[s], j)'
      BY <2>1, <2>4 DEF Held
    <2> QED BY <1>3, <2>1, <2>4, <2>5
  <1> QED BY <1>2, <1>3

\* The Mac keeps holding the beginning of one transfer.
LEMMA MacHasKeeps == Core /\ MacHas /\ Asked /\ Stream /\ Next => MacHas'
  <1> SUFFICES ASSUME Core, MacHas, Asked, Stream, Next PROVE MacHas'
    OBVIOUS
  <1>1. TypeOK /\ Lives
    BY DEF Core
  <1>2. CASE \A s \in Sessions : seen'[s] = seen[s]
    BY <1>2, MacKept DEF MacHas
  <1>3. CASE PumpSend
    <2>1. live \in Sessions /\ \A t \in Sessions \ {live} : seen'[t] = seen[t]
      BY <1>1, <1>3, PumpLine
    <2>2. CASE Moves /\ seen'[live] = Receives(seen[live], Line[1])
      <3>1. PICK f \in [0..Len(Line) -> 0..MaxChunk + 3] : Places(f)
        BY <2>1, StreamHas
      <3>2. Len(Line) > 0 /\ 1 \in 1..Len(Line)
        BY <1>1, <2>1, <2>2, LineTyped DEF Moves
      <3>3. PICK y : y = Receives(seen[live], Line[1])
        OBVIOUS
      <3>4. y.id = Line[1].id /\ \E j \in Jobs : tid[j] = <<live, y.id>> /\ Held(y, j)
        BY <2>1, <3>1, <3>2, <3>3, FirstReceived
      <3>5. PICK j \in Jobs : tid[j] = <<live, y.id>> /\ Held(y, j)
        BY <3>4
      <3>6. y.id \in Ids /\ Requested(live, y.id)
        BY <3>1, <3>2, <3>4 DEF Places
      <3>7. y.id # NoId /\ tid[j] # <<0, NoId>>
        BY <3>5, <3>6, Constants DEF NoId
      <3>8. tid'[j] = tid[j] /\ kind'[j] = kind[j] /\ size'[j] = size[j]
        BY <2>1, <3>5, <3>6, <3>7, NamesKept, SizeKept
      <3>9. seen'[live] = y
        BY <2>2, <3>3
      <3>10. Held(y, j)'
        BY <3>5, <3>8 DEF Held
      <3>11. ASSUME NEW s \in Sessions
             PROVE  /\ seen'[s].id = NoId => seen'[s] = [ids |-> {}, id |-> NoId, meta |-> 0, data |-> 0, end |-> FALSE]
                    /\ seen'[s].id # NoId => \E i \in Jobs : tid'[i] = <<s, seen'[s].id>> /\ Held(seen[s], i)'
        <4>1. CASE s = live
          BY <3>5, <3>7, <3>8, <3>9, <3>10, <4>1 DEF Held
        <4>2. CASE s # live
          BY <2>1, <4>2, MacKept
        <4> QED BY <4>1, <4>2
      <3> QED BY <3>11 DEF MacHas
    <2>3. CASE seen' = seen
      BY <1>2, <2>3
    <2> QED BY <1>1, <1>2, <1>3, <2>2, <2>3, PumpLine
  <1>4. CASE NewSession \/ DropRelease \/ Quiet
    BY <1>2, <1>4 DEF NewSession, DropRelease, Quiet, mac
  <1>5. CASE live \in Sessions /\ WorkerThread(live) /\ Sends(live)
    BY <1>2, <1>5, SendsNext
  <1> QED BY <1>3, <1>4, <1>5, QuietSteps

\* A transfer is requested only by its worker's sending.
LEMMA RequestedBack ==
  ASSUME Core, MacHas, Asked, Stream, Next, NEW s \in Sessions, NEW i \in Ids, Requested(s, i)'
  PROVE  Requested(s, i) \/ (s = live /\ WorkerThread(s) /\ Sends(s) /\ i = w[s].id)
  <1>1. TypeOK /\ Lives
    BY DEF Core
  <1>2. s # 0 /\ (live # 0 => live \in Sessions)
    <2>1. s # 0
      BY Constants
    <2>2. live # 0 => live \in Sessions
      BY <1>1, Constants DEF TypeOK
    <2> QED BY <2>1, <2>2
  <1>3. i \in seen'[s].ids \/ (s = live' /\ \E k \in 1..Len(Line') : Line'[k].id = i)
    BY DEF Requested
  <1>4. CASE NewSession
    <2>1. seen' = seen /\ pending' = NoMsg /\ outgoing' = outgoing /\ live = 0
      BY <1>1, <1>4 DEF NewSession, Lives, chans, mac
    <2>2. s = live' => Line' = <<>>
      BY <1>1, <1>2, <2>1 DEF Lives, Line
    <2>3. s = live' => ~ \E k \in 1..Len(Line') : Line'[k].id = i
      BY <2>2
    <2> QED BY <1>3, <2>1, <2>3 DEF Requested
  <1>5. CASE DropRelease
    BY <1>2, <1>3, <1>5 DEF DropRelease, Requested, mac
  <1>6. CASE PumpSend
    <2>1. live \in Sessions /\ live' = live /\ \A t \in Sessions \ {live} : seen'[t] = seen[t]
      BY <1>1, <1>6, PumpLine
    <2>2. CASE s # live
      BY <1>3, <2>1, <2>2 DEF Requested
    <2>3. CASE s = live /\ Stays /\ seen' = seen
      BY <1>3, <2>1, <2>3 DEF Requested, Stays
    <2>4. CASE s = live /\ Moves /\ seen'[live] = Receives(seen[live], Line[1])
      <3>1. PICK f \in [0..Len(Line) -> 0..MaxChunk + 3] : Places(f)
        BY <2>1, StreamHas
      <3>2. Len(Line) > 0 /\ 1 \in 1..Len(Line) /\ \A k \in 1..Len(Line') : k + 1 \in 1..Len(Line) /\ Line'[k] = Line[k + 1]
        BY <1>1, <2>1, <2>4, LineTyped DEF Moves
      <3>3. PICK y : y = Receives(seen[live], Line[1])
        OBVIOUS
      <3>4. y.id = Line[1].id /\ (y.ids = seen[live].ids \/ y.ids = seen[live].ids \cup {y.id})
        BY <2>1, <3>1, <3>2, <3>3, FirstReceived
      <3>5. seen'[live] = y
        BY <2>4, <3>3
      <3> QED BY <1>3, <2>1, <2>4, <3>2, <3>4, <3>5 DEF Requested
    <2> QED BY <1>1, <1>6, <2>2, <2>3, <2>4, PumpLine
  <1>7. CASE Quiet
    BY <1>1, <1>2, <1>3, <1>7, QuietLine DEF Quiet, Requested
  <1>8. CASE live \in Sessions /\ WorkerThread(live) /\ Sends(live)
    <2>1. live' = live /\ seen' = seen /\ Grows(MessageAt(live)) /\ MessageAt(live).id = w[live].id
      BY <1>8, SendsNext
    <2>2. CASE i \in seen[s].ids
      BY <2>2 DEF Requested
    <2>3. ASSUME s = live, NEW k \in 1..Len(Line'), Line'[k].id = i
          PROVE  i = w[s].id \/ Requested(s, i)
      <3>1. Len(Line) \in Nat /\ Len(Line') = Len(Line) + 1 /\ Line'[Len(Line) + 1] = MessageAt(live)
            /\ \A n \in 1..Len(Line) : Line'[n] = Line[n]
        BY <1>1, <1>8, <2>1, LineTyped DEF Grows
      <3>2. CASE k = Len(Line) + 1
        BY <2>1, <2>3, <3>1, <3>2
      <3>3. CASE k \in 1..Len(Line)
        BY <2>3, <3>1, <3>3 DEF Requested
      <3> QED BY <3>1, <3>2, <3>3
    <2> QED BY <1>3, <1>8, <2>1, <2>2, <2>3
  <1> QED BY <1>4, <1>5, <1>6, <1>7, <1>8, QuietSteps

\* A job fails when its worker reports it.
LEMMA FailedBack ==
  ASSUME Core, Next, NEW j \in Jobs, outcome'[j] # "none"
  PROVE  /\ tid'[j] = tid[j] /\ tid[j] # <<0, NoId>>
         /\ \/ outcome'[j] = outcome[j]
            \/ \E t \in Sessions : /\ WorkerThread(t) /\ Report(t) /\ j = w[t].job /\ tid[j] = <<t, w[t].id>>
                                   /\ outcome'[j] = IF w[t].ok THEN "complete" ELSE "failed"
  <1>1. TypeOK /\ Lives /\ Slots /\ Locals /\ Owned
    BY DEF Core
  <1>2. CASE outcome'[j] = outcome[j]
    <2>1. tid[j] # <<0, NoId>>
      BY <1>1, <1>2 DEF Owned, InOrder
    <2> QED BY <1>2, <2>1, NamesKept
  <1>3. CASE outcome'[j] # outcome[j]
    <2>1. PICK t \in Sessions : WorkerThread(t) /\ Report(t)
      BY <1>3, ZenonT(40) DEF Next, SessionThread, Submit, Cancel, ForeignCreates, NewSession, PumpBegin, ReplyMatch, ReplyDeliver, PumpSend,
         DropClose, DropRelease, SessionFails, MacReply, history, WorkerThread, LoopTop, RecvJob, Drain, Activate, Prepare,
         Send, ReceiveFails, AwaitReply, ReceiveReply, Flush, Persist, Finish, Latch
    <2>2. w[t].pc = "report" /\ outcome' = [outcome EXCEPT ![w[t].job] = IF w[t].ok THEN "complete" ELSE "failed"]
      BY <2>1 DEF Report
    <2>3. j = w[t].job
      BY <1>1, <1>3, <2>2 DEF TypeOK
    <2>4. tid[j] = <<t, w[t].id>>
      BY <1>1, <2>2, <2>3 DEF Owned, InHand, Named
    <2>5. tid[j] # <<0, NoId>>
      BY <2>4, Constants
    <2>6. outcome'[j] = IF w[t].ok THEN "complete" ELSE "failed"
      BY <1>1, <2>2, <2>3 DEF TypeOK
    <2> QED BY <2>1, <2>3, <2>4, <2>5, <2>6, NamesKept
  <1> QED BY <1>2, <1>3

\* What a worker's step makes of its id.
LEMMA WorkerIds ==
  ASSUME Core, NEW s \in Sessions, WorkerThread(s)
  PROVE  \/ Sends(s)
         \/ w'[s].id = w[s].id /\ (w'[s].pos = w[s].pos \/ w'[s].pc = "done")
         \/ Report(s) /\ ~EndsSession(w[s]) /\ w'[s].id = w[s].id + 1 /\ w'[s].pos = 0 /\ w'[s].pc = "top"
  <1>1. TypeOK /\ Slots /\ Locals /\ Owned
    BY DEF Core
  <1>2. CASE Rests(s) /\ w'[s].pc = "done"
    BY <1>1, <1>2, WorkerOwns DEF GoesOn, Takes, Names, Reports, Holds, Leaves, Named
  <1>3. CASE Report(s)
    BY <1>1, <1>3, ReportStep DEF To, After, Gone
  <1>4. CASE ~Report(s) /\ Rests(s) /\ w'[s].pos = 0 /\ w'[s].pc = "top"
    <2>1. w[s].pc # "report"
      BY <1>4 DEF WorkerThread, LoopTop, RecvJob, Drain, Activate, Prepare,
         Send, ReceiveFails, AwaitReply, ReceiveReply, Flush, Persist, Finish, Latch
    <2>2. w[s].pc \in {"top", "recv"} /\ w'[s].id = w[s].id
      BY <1>1, <1>4, <2>1, WorkerOwns DEF GoesOn, Takes, Names, Reports, Holds, Leaves, Notes, Named
    <2>3. w[s].pos = 0
      BY <1>1, <2>2, WorkerTyped DEF Locals, Local, Named
    <2> QED BY <1>4, <2>2, <2>3
  <1> QED BY <1>1, <1>2, <1>3, <1>4, WorkerSends DEF Rests

\* No one else moves a worker, and only a new session starts one.
LEMMA OthersLeave ==
  ASSUME Core, Next, NEW s \in Sessions, ~WorkerThread(s)
  PROVE  \/ w'[s] = w[s]
         \/ NewSession /\ s = gen + 1 /\ live' = s /\ w'[s] = Fresh(2) /\ w[s].pc = "unborn"
  <1>1. TypeOK /\ Lives
    BY DEF Core
  <1>2. CASE NewSession
    BY <1>1, <1>2, Constants DEF NewSession, TypeOK, Lives
  <1>3. ASSUME NEW t \in Sessions, WorkerThread(t) PROVE w'[s] = w[s]
    BY <1>1, <1>3, WorkerAlone
  <1>4. CASE \/ Calm \/ (\E n \in Jobs : Submit(n)) \/ (\E m \in Replies : MacReply(m))
             \/ ReplyMatch \/ ReplyDeliver \/ PumpSend \/ DropRelease
    BY <1>4 DEF Calm, Cancel, ForeignCreates, PumpBegin, SessionFails, DropClose, Submit,
       ReplyMatch, ReplyDeliver, PumpSend, DropRelease, MacReply
  <1> QED BY <1>2, <1>3, <1>4 DEF Next, SessionThread, Calm

\* Ids keep being requested in order, and never again after a failure.
LEMMA AskedKeeps == Core /\ MacHas /\ Asked /\ Stream /\ Next => Asked'
  <1> SUFFICES ASSUME Core, MacHas, Asked, Stream, Next, NEW s \in Sessions
      PROVE  /\ \A i \in seen'[s].ids : i <= seen'[s].id
             /\ seen'[s].id # NoId => seen'[s].id \in seen'[s].ids
             /\ \A i \in Ids : Requested(s, i)' => i <= w'[s].id
             /\ Requested(s, w[s].id)' => w'[s].pc = "done" \/ w'[s].pos > 0
             /\ \A j \in Jobs : outcome'[j] = "failed" /\ tid'[j][1] = s /\ Requested(s, tid[j][2])'
                                  => tid'[j][2] = w'[s].id
    BY DEF Asked
  <1>1. TypeOK /\ Lives /\ Slots /\ Locals /\ Owned
    BY DEF Core
  <1>2. /\ \A i \in seen'[s].ids : i <= seen'[s].id
        /\ seen'[s].id # NoId => seen'[s].id \in seen'[s].ids
    <2>1. CASE seen'[s] = seen[s]
      BY <2>1 DEF Asked
    <2>2. CASE PumpSend /\ seen'[s] # seen[s]
      <3>1. live \in Sessions /\ s = live /\ Moves /\ seen'[live] = Receives(seen[live], Line[1])
        BY <1>1, <2>2, PumpLine
      <3>2. PICK f \in [0..Len(Line) -> 0..MaxChunk + 3] : Places(f)
        BY <3>1, StreamHas
      <3>3. Len(Line) > 0 /\ 1 \in 1..Len(Line)
        BY <1>1, <3>1, LineTyped DEF Moves
      <3>4. PICK y : y = Receives(seen[live], Line[1])
        OBVIOUS
      <3>5. \/ y.id = seen[live].id /\ y.ids = seen[live].ids
            \/ y.id > seen[live].id /\ y.ids = seen[live].ids \cup {y.id}
        BY <3>1, <3>2, <3>3, <3>4, FirstReceived
      <3>6. y.id = Line[1].id /\ Line[1].id \in Ids
        BY <3>1, <3>2, <3>3, <3>4, FirstReceived DEF Places
      <3>7. seen[live].id \in Ids \cup {NoId} /\ seen[live].ids \subseteq Ids
        BY <1>1, <3>1 DEF TypeOK
      <3>8. y.id \in Nat /\ seen[live].id \in Nat /\ \A i \in seen[live].ids : i \in Nat
        BY <3>6, <3>7, Constants DEF NoId
      <3>9. \A i \in seen[live].ids : i <= seen[live].id
        BY <3>1 DEF Asked
      <3>10. seen'[s] = y
        BY <3>1, <3>4
      <3>11. \A i \in y.ids : i <= y.id
        BY <3>5, <3>8, <3>9
      <3>12. y.id # NoId => y.id \in y.ids
        BY <3>1, <3>5 DEF Asked
      <3> QED BY <3>10, <3>11, <3>12
    <2>3. CASE NewSession \/ DropRelease \/ Quiet
      BY <2>1, <2>3 DEF NewSession, DropRelease, Quiet, mac
    <2>4. CASE live \in Sessions /\ WorkerThread(live) /\ Sends(live)
      BY <2>1, <2>4, SendsNext
    <2> QED BY <2>1, <2>2, <2>3, <2>4, QuietSteps
  <1>3. /\ w[s].id \in Nat /\ w[s].pos \in Nat /\ \A i \in Ids : i \in Nat
    BY <1>1, WorkerTyped, Constants
  <1>4. \A i \in Ids : Requested(s, i) => i <= w[s].id
    BY DEF Asked
  <1>5. Requested(s, w[s].id) => w[s].pc = "done" \/ w[s].pos > 0
    BY DEF Asked
  <1>6. ASSUME NEW j \in Jobs, outcome'[j] = "failed", tid'[j][1] = s
        PROVE  /\ tid'[j] = tid[j] /\ tid[j][2] \in Ids /\ tid[j] = <<s, tid[j][2]>>
               /\ \/ outcome[j] = "failed" /\ (Requested(s, tid[j][2]) => tid[j][2] = w[s].id)
                  \/ Report(s) /\ WorkerThread(s) /\ tid[j][2] = w[s].id /\ ~w[s].ok
    <2>1. tid'[j] = tid[j] /\ tid[j] # <<0, NoId>> /\ tid[j] \in (Sessions \X Ids) \cup {<<0, NoId>>}
      BY <1>1, <1>6, FailedBack DEF TypeOK
    <2>2. tid[j][2] \in Ids /\ tid[j] = <<s, tid[j][2]>>
      BY <1>6, <2>1
    <2>3. CASE outcome[j] = "failed"
      BY <1>6, <2>1, <2>2, <2>3 DEF Asked
    <2>4. CASE outcome[j] # "failed"
      <3>1. PICK t \in Sessions : /\ WorkerThread(t) /\ Report(t) /\ tid[j] = <<t, w[t].id>>
                                  /\ outcome'[j] = IF w[t].ok THEN "complete" ELSE "failed"
        BY <1>6, <2>4, FailedBack
      <3>2. t = s /\ ~w[s].ok
        BY <1>6, <2>2, <3>1
      <3> QED BY <2>1, <2>2, <3>1, <3>2
    <2> QED BY <2>3, <2>4
  <1>7. CASE WorkerThread(s) /\ Sends(s)
    <2>1. w'[s].id = w[s].id /\ w'[s].pos = w[s].pos + 1 /\ outcome' = outcome /\ w[s].pc = "send"
      BY <1>7 DEF Sends, history
    <2>2. \A i \in Ids : Requested(s, i)' => Requested(s, i) \/ i = w[s].id
      BY RequestedBack
    <2>3. ASSUME NEW j \in Jobs, outcome'[j] = "failed", tid'[j][1] = s, Requested(s, tid[j][2])'
          PROVE  tid'[j][2] = w'[s].id
      <3>1. PICK i \in Ids : i = tid'[j][2] /\ i = tid[j][2]
        BY <1>6, <2>3
      <3>2. Requested(s, i)'
        BY <2>3, <3>1 DEF Requested
      <3> QED BY <1>6, <2>1, <2>2, <2>3, <3>1, <3>2
    <2> QED BY <1>2, <1>3, <1>4, <2>1, <2>2, <2>3
  <1>8. CASE WorkerThread(s) /\ ~Sends(s)
    <2>1. \A i \in Ids : Requested(s, i)' => Requested(s, i)
      BY <1>8, RequestedBack
    <2>2. w[s].pc # "done"
      BY <1>8, WorkerUnchanged
    <2>3. CASE w'[s].id = w[s].id /\ (w'[s].pos = w[s].pos \/ w'[s].pc = "done")
      <3>1. ASSUME Requested(s, w[s].id)' PROVE w'[s].pc = "done" \/ w'[s].pos > 0
        <4>1. PICK i \in Ids : i = w[s].id
          BY <1>1, WorkerTyped
        <4>2. Requested(s, i)'
          BY <2>3, <3>1, <4>1 DEF Requested
        <4> QED BY <1>5, <2>1, <2>2, <2>3, <4>1, <4>2
      <3>2. ASSUME NEW j \in Jobs, outcome'[j] = "failed", tid'[j][1] = s, Requested(s, tid[j][2])'
            PROVE  tid'[j][2] = w'[s].id
        <4>1. PICK i \in Ids : i = tid'[j][2] /\ i = tid[j][2]
          BY <1>6, <3>2
        <4>2. Requested(s, i)'
          BY <3>2, <4>1 DEF Requested
        <4> QED BY <1>6, <2>1, <2>3, <3>2, <4>1, <4>2
      <3> QED BY <1>2, <1>4, <2>1, <2>3, <3>1, <3>2
    <2>4. CASE Report(s) /\ ~EndsSession(w[s]) /\ w'[s].id = w[s].id + 1 /\ w'[s].pos = 0 /\ w'[s].pc = "top"
      <3>1. \A i \in Ids : Requested(s, i)' => i <= w[s].id /\ i < w'[s].id
        BY <1>3, <1>4, <2>1, <2>4
      <3>2. w'[s].id \in Ids
        BY CoreKeeps, WorkerTyped DEF Core, TypeOK, Workers
      <3>3. ~Requested(s, w[s].id)'
        <4>1. PICK i \in Ids : i = w'[s].id
          BY <3>2
        <4>2. ~Requested(s, i)'
          BY <1>3, <2>4, <3>1, <4>1
        <4> QED BY <4>1, <4>2 DEF Requested
      <3>4. ASSUME NEW j \in Jobs, outcome'[j] = "failed", tid'[j][1] = s, Requested(s, tid[j][2])'
            PROVE  FALSE
        <4>1. PICK i \in Ids : i = tid'[j][2] /\ i = tid[j][2]
          BY <1>6, <3>4
        <4>2. Requested(s, i)'
          BY <3>4, <4>1 DEF Requested
        <4>3. Requested(s, i)
          BY <2>1, <4>2
        <4>4. i = w[s].id
          BY <1>6, <3>4, <4>1, <4>3
        <4>5. w[s].pc = "report" /\ w[s].job \in Jobs /\ tid[w[s].job] = <<s, w[s].id>> /\ outcome[w[s].job] = "none"
          BY <1>1, <2>4, JobInHand DEF Report, Waiting, Owned, InHand, Named
        <4>6. j = w[s].job
          <5>1. tid[j] = <<s, w[s].id>>
            <6>1. tid[j] = <<s, tid[j][2]>>
              BY <1>6, <3>4
            <6>2. tid[j][2] = w[s].id
              BY <4>1, <4>4
            <6> QED BY <6>1, <6>2
          <5>2. tid[j] # <<0, NoId>>
            BY <5>1, Constants
          <5> QED BY <1>1, <4>5, <5>1, <5>2 DEF Owned, Distinct
        <4>7. ~w[s].ok
          BY <1>6, <3>4, <4>5, <4>6
        <4>8. ~(w[s].pos > 0)
          BY <1>1, <2>4, <4>7 DEF EndsSession, Locals, Local
        <4> QED BY <1>5, <4>3, <4>4, <4>5, <4>8
      <3> QED BY <1>2, <3>1, <3>3, <3>4, <1>3, <2>4
    <2> QED BY <1>8, <2>3, <2>4, WorkerIds
  <1>9. CASE ~WorkerThread(s)
    <2>1. \A i \in Ids : Requested(s, i)' => Requested(s, i)
      BY <1>9, RequestedBack
    <2>2. CASE w'[s] = w[s]
      <3>1. ASSUME Requested(s, w[s].id)' PROVE w'[s].pc = "done" \/ w'[s].pos > 0
        <4>1. PICK i \in Ids : i = w[s].id
          BY <1>1, WorkerTyped
        <4>2. Requested(s, i)'
          BY <2>2, <3>1, <4>1 DEF Requested
        <4> QED BY <1>5, <2>1, <2>2, <4>1, <4>2
      <3>2. ASSUME NEW j \in Jobs, outcome'[j] = "failed", tid'[j][1] = s, Requested(s, tid[j][2])'
            PROVE  tid'[j][2] = w'[s].id
        <4>1. PICK i \in Ids : i = tid'[j][2] /\ i = tid[j][2]
          BY <1>6, <3>2
        <4>2. Requested(s, i)'
          BY <3>2, <4>1 DEF Requested
        <4> QED BY <1>6, <1>9, <2>1, <2>2, <3>2, <4>1, <4>2
      <3> QED BY <1>2, <1>4, <2>1, <2>2, <3>1, <3>2
    <2>3. CASE NewSession /\ s = gen + 1 /\ w[s].pc = "unborn"
      <3>1. \A i \in Ids : ~Requested(s, i)
        <4>1. s > gen /\ live # s
          BY <1>1, <2>3, Constants DEF Lives, TypeOK, NewSession
        <4> QED BY <1>1, <4>1 DEF Lives, Requested
      <3>2. \A i \in Ids : ~Requested(s, i)'
        BY <2>1, <3>1
      <3>3. w'[s].id \in Ids
        BY CoreKeeps, WorkerTyped DEF Core, TypeOK, Workers
      <3>4. ~Requested(s, w[s].id)'
        <4>1. PICK i \in Ids : i = w'[s].id
          BY <3>3
        <4>2. ~Requested(s, i)'
          BY <3>2
        <4> QED BY <4>1, <4>2 DEF Requested
      <3>5. ASSUME NEW j \in Jobs, outcome'[j] = "failed", tid'[j][1] = s, Requested(s, tid[j][2])'
            PROVE  FALSE
        <4>1. PICK i \in Ids : i = tid'[j][2] /\ i = tid[j][2]
          BY <1>6, <3>5
        <4>2. Requested(s, i)'
          BY <3>5, <4>1 DEF Requested
        <4> QED BY <3>2, <4>2
      <3> QED BY <1>2, <3>2, <3>4, <3>5
    <2> QED BY <1>9, <2>2, <2>3, OthersLeave
  <1> QED BY <1>7, <1>8, <1>9

-----------------------------------------------------------------------------
(* What the Mac answers *)

\* A queue of messages, without its first, and with one more.
LEMMA TailAll ==
  ASSUME NEW A, NEW q \in Seq(Replies), q # <<>>
  PROVE  /\ Tail(q) \in Seq(Replies) /\ Head(q) \in Replies
         /\ All(q, A) => Head(q) \in A /\ All(Tail(q), A)
         /\ EndsLast(q) => EndsLast(Tail(q)) /\ (Terminal(Head(q)) => Tail(q) = <<>>)
         /\ HasEnd(Tail(q)) \/ Terminal(Head(q)) => HasEnd(q)
  <1>1. /\ Tail(q) \in Seq(Replies) /\ Head(q) = q[1] /\ Head(q) \in Replies
        /\ Len(q) \in Nat /\ Len(q) > 0 /\ Len(Tail(q)) = Len(q) - 1
        /\ \A k \in 1..Len(q) - 1 : Tail(q)[k] = q[k + 1]
    BY HeadTailProperties
  <1>2. 1 \in 1..Len(q) /\ \A k \in 1..Len(Tail(q)) : k + 1 \in 1..Len(q) /\ Tail(q)[k] = q[k + 1]
    BY <1>1
  <1>3. All(q, A) => Head(q) \in A /\ All(Tail(q), A)
    BY <1>1, <1>2 DEF All
  <1>4. HasEnd(Tail(q)) \/ Terminal(Head(q)) => HasEnd(q)
    BY <1>1, <1>2 DEF HasEnd
  <1>5. ASSUME EndsLast(q) PROVE EndsLast(Tail(q)) /\ (Terminal(Head(q)) => Tail(q) = <<>>)
    <2>1. ASSUME NEW k \in 1..Len(Tail(q)), Terminal(Tail(q)[k]) PROVE k = Len(Tail(q))
      <3>1. k + 1 \in 1..Len(q) /\ Terminal(q[k + 1])
        BY <1>2, <2>1
      <3>2. k + 1 = Len(q)
        BY <1>5, <3>1 DEF EndsLast
      <3>3. k \in Int /\ Len(Tail(q)) = Len(q) - 1
        BY <1>1
      <3> QED BY <3>2, <3>3
    <2>2. ASSUME Terminal(Head(q)) PROVE Len(Tail(q)) = 0
      <3>1. Terminal(q[1]) /\ 1 \in 1..Len(q)
        BY <1>1, <1>2, <2>2
      <3>2. 1 = Len(q)
        BY <1>5, <3>1 DEF EndsLast
      <3>3. Len(Tail(q)) = Len(q) - 1
        BY <1>1
      <3> QED BY <3>2, <3>3
    <2>3. EndsLast(Tail(q))
      BY <2>1 DEF EndsLast
    <2> QED BY <1>1, <2>2, <2>3, EmptySeq
  <1> QED BY <1>1, <1>3, <1>4, <1>5

\* The same for one more message.
LEMMA AppendAll ==
  ASSUME NEW A, NEW q \in Seq(Replies), NEW m \in Replies
  PROVE  /\ Append(q, m) \in Seq(Replies)
         /\ All(q, A) /\ m \in A => All(Append(q, m), A)
         /\ ~HasEnd(q) => EndsLast(Append(q, m))
         /\ HasEnd(Append(q, m)) => HasEnd(q) \/ Terminal(m)
  <1>1. /\ Append(q, m) \in Seq(Replies) /\ Len(q) \in Nat /\ Len(Append(q, m)) = Len(q) + 1
        /\ Append(q, m)[Len(q) + 1] = m /\ \A k \in 1..Len(q) : Append(q, m)[k] = q[k]
    OBVIOUS
  <1>2. \A k \in 1..Len(Append(q, m)) : k \in 1..Len(q) \/ k = Len(q) + 1
    BY <1>1
  <1> QED BY <1>1, <1>2 DEF All, HasEnd, EndsLast

\* Nothing the Mac has seen or ended is forgotten.
LEMMA MacRemembers ==
  ASSUME Core, MacHas, Stream, Next
  PROVE  final \subseteq final' /\ ended \subseteq ended' /\ \A s \in Sessions : seen[s].ids \subseteq seen'[s].ids
  <1>1. TypeOK /\ Lives
    BY DEF Core
  <1>2. CASE PumpSend
    <2>1. live \in Sessions /\ \A t \in Sessions \ {live} : seen'[t] = seen[t]
      BY <1>1, <1>2, PumpLine
    <2>2. final' = final /\ ended' = ended
      BY <1>2 DEF PumpSend
    <2>3. seen[live].ids \subseteq seen'[live].ids
      <3>1. CASE Moves /\ seen'[live] = Receives(seen[live], Line[1])
        <4>1. PICK f \in [0..Len(Line) -> 0..MaxChunk + 3] : Places(f)
          BY <2>1, StreamHas
        <4>2. PICK y : y = Receives(seen[live], Line[1])
          OBVIOUS
        <4>3. Len(Line) > 0
          BY <3>1 DEF Moves
        <4>4. seen[live].ids \subseteq y.ids
          BY <2>1, <4>1, <4>2, <4>3, FirstReceived
        <4> QED BY <3>1, <4>2, <4>4
      <3> QED BY <1>1, <1>2, <3>1, PumpLine
    <2> QED BY <2>1, <2>2, <2>3
  <1>3. ASSUME NEW m \in Replies, MacReply(m) PROVE final \subseteq final' /\ ended \subseteq ended' /\ seen' = seen
    BY <1>3 DEF MacReply
  <1>4. ASSUME NEW s \in Sessions, WorkerThread(s) PROVE UNCHANGED mac
    BY <1>4, WorkerUnchanged
  <1>5. CASE Calm \/ (\E n \in Jobs : Submit(n)) \/ NewSession \/ ReplyMatch \/ ReplyDeliver \/ DropRelease
    BY <1>5 DEF Calm, Cancel, ForeignCreates, PumpBegin, SessionFails, DropClose, Submit,
       NewSession, ReplyMatch, ReplyDeliver, DropRelease, mac
  <1> QED BY <1>2, <1>3, <1>4, <1>5 DEF Next, SessionThread, Calm, mac

\* What a worker's step takes from its replies.
LEMMA WorkerReads ==
  ASSUME Core, NEW s \in Sessions, WorkerThread(s), w'[s].pc # "done"
  PROVE  /\ \/ incoming'[s] = incoming[s]
            \/ incoming[s] # <<>> /\ incoming'[s] = Tail(incoming[s])
         /\ Confirmed(s)' =>
              \/ Confirmed(s) /\ incoming'[s] = incoming[s] /\ w'[s].id = w[s].id
              \/ /\ incoming[s] # <<>> /\ incoming'[s] = Tail(incoming[s]) /\ Head(incoming[s]).kind = "end"
                 /\ w'[s].id = w[s].id
  <1>1. TypeOK /\ Slots /\ Locals /\ Owned
    BY DEF Core
  <1>2. ~Exit(s)
    BY <1>1, ExitTyped DEF Gone, After
  <1>3. CASE LoopTop(s)
    BY <1>1, <1>2, <1>3, LoopTopStep DEF LoopTop, To, After, Gone, Confirmed
  <1>4. CASE RecvJob(s)
    BY <1>1, <1>2, <1>4, RecvJobStep DEF RecvJob, After, Gone, Confirmed
  <1>5. CASE Drain(s)
    <2>1. w[s].pc = "drain" /\ ~w[s].ok
      BY <1>1, <1>5 DEF Drain, Locals, Local
    <2>2. ~Confirmed(s)'
      BY <1>1, <1>5, <2>1, MoveTyped DEF Drain, To, After, Confirmed, WorkerPcs
    <2> QED BY <1>1, <1>5, <2>2 DEF Drain, TypeOK
  <1>6. CASE Activate(s)
    BY <1>1, <1>6, MoveTyped DEF Activate, To, After, Confirmed, WorkerPcs, chans
  <1>7. CASE Prepare(s)
    BY <1>1, <1>7, PrepareStep DEF Prepare, Ends, After, Confirmed, chans
  <1>8. CASE Send(s)
    BY <1>1, <1>8, SendStep DEF Send, Ends, After, NextPlace, Confirmed
  <1>9. CASE ReceiveFails(s)
    BY <1>1, <1>9, FailTyped DEF ReceiveFails, Ends, After, Confirmed, chans
  <1>10. CASE AwaitReply(s)
    <2>1. incoming[s] # <<>> /\ incoming'[s] = Tail(incoming[s])
      BY <1>1, <1>10 DEF AwaitReply, TypeOK
    <2> QED BY <1>1, <1>10, <2>1, AwaitReplyStep DEF Ends, After, Confirmed
  <1>11. CASE ReceiveReply(s)
    <2>1. incoming[s] # <<>> /\ incoming'[s] = Tail(incoming[s]) /\ ~w[s].ok
      BY <1>1, <1>11 DEF ReceiveReply, TypeOK, Locals, Local
    <2> QED BY <1>1, <1>11, <2>1, ReceiveReplyStep DEF Ends, To, After, Confirmed
  <1>12. CASE Flush(s)
    BY <1>1, <1>12, FlushStep DEF Flush, Ends, To, After, Confirmed, chans
  <1>13. CASE Persist(s)
    BY <1>1, <1>13, PersistStep DEF Persist, Ends, After, Confirmed, chans
  <1>14. CASE Finish(s)
    BY <1>1, <1>14, MoveTyped DEF Finish, To, After, Confirmed, WorkerPcs, chans
  <1>15. CASE Report(s)
    BY <1>1, <1>2, <1>15, ReportStep DEF Report, To, After, Confirmed
  <1>16. CASE Latch(s)
    BY <1>2, <1>16 DEF Latch
  <1> QED BY <1>3, <1>4, <1>5, <1>6, <1>7, <1>8, <1>9, <1>10, <1>11, <1>12, <1>13, <1>14, <1>15, <1>16
          DEF WorkerThread

\* The answers to a worker that stays with its transfer: what it has not read
\* yet remains in order, and it is sure of the end only when it has read it.
LEMMA ReadsAnswered ==
  ASSUME Core, MacHas, Asked, Stream, Next, NEW s \in Sessions, WorkerThread(s), Answered(s),
         w'[s].pc # "done", w'[s].id = w[s].id
  PROVE  Answered(s)'
  <1>1. TypeOK /\ Lives
    BY DEF Core
  <1>2. live' = live /\ taken' = taken /\ final' = final /\ ended' = ended /\ seen' = seen
    BY WorkerUnchanged DEF pump, mac
  <1>3. Abouts(s)' = Abouts(s)
    BY <1>2 DEF Abouts
  <1>4. \A i \in Ids : Requested(s, i)' /\ i < w'[s].id => <<s, i>> \in final'
    <2> SUFFICES ASSUME NEW i \in Ids, Requested(s, i)', i < w'[s].id PROVE <<s, i>> \in final'
      OBVIOUS
    <2>1. i # w[s].id
      BY <1>1, WorkerTyped, Constants
    <2>2. Requested(s, i)
      BY <2>1, RequestedBack
    <2> QED BY <1>2, <2>2 DEF Answered
  <1>5. PICK A : A = Abouts(s)
    OBVIOUS
  <1>6. PICK q \in Seq(Replies) : q = incoming[s]
    BY <1>1 DEF TypeOK
  <1>7. PICK r : r = incoming'[s]
    OBVIOUS
  <1>8. All(q, A) /\ EndsLast(q) /\ (s = live => All(taken, A) /\ EndsLast(taken) /\ (HasEnd(q) => taken = <<>>))
    BY <1>5, <1>6 DEF Answered
  <1>9. r = q \/ (q # <<>> /\ r = Tail(q))
    BY <1>6, <1>7, WorkerReads
  <1>10. All(r, A) /\ EndsLast(r) /\ (HasEnd(r) => HasEnd(q))
    BY <1>8, <1>9, TailAll
  <1>11. Confirmed(s)' => /\ r = <<>> /\ (s = live => taken = <<>>)
                         /\ <<s, w[s].id>> \in final /\ <<s, w[s].id>> \in ended
    <2>1. CASE Confirmed(s) /\ r = q
      BY <1>6, <2>1 DEF Answered
    <2>2. CASE q # <<>> /\ r = Tail(q) /\ Head(q).kind = "end"
      <3>1. Head(q) \in A /\ Terminal(Head(q))
        BY <1>8, <2>2, TailAll DEF Terminal
      <3>2. r = <<>> /\ (s = live => taken = <<>>)
        BY <1>8, <2>2, <3>1, TailAll
      <3>3. <<s, w[s].id>> \in final /\ <<s, w[s].id>> \in ended
        BY <1>5, <2>2, <3>1 DEF Abouts
      <3> QED BY <3>2, <3>3
    <2> QED BY <1>6, <1>7, <2>1, <2>2, WorkerReads
  <1>12. All(incoming'[s], Abouts(s)') /\ EndsLast(incoming'[s])
    BY <1>3, <1>5, <1>7, <1>10
  <1>13. s = live' => /\ All(taken', Abouts(s)') /\ EndsLast(taken') /\ (HasEnd(incoming'[s]) => taken' = <<>>)
    BY <1>2, <1>3, <1>5, <1>7, <1>8, <1>10
  <1> QED BY <1>2, <1>4, <1>7, <1>11, <1>12, <1>13 DEF Answered, All, EndsLast, HasEnd, Terminal

\* A worker that goes on to the next transfer has no answers before it.
LEMMA NextAnswered ==
  ASSUME Core, MacHas, Asked, Stream, Next, NEW s \in Sessions, WorkerThread(s), Answered(s),
         Report(s), ~EndsSession(w[s]), w'[s].id = w[s].id + 1, w'[s].pc = "top"
  PROVE  Answered(s)'
  <1>1. TypeOK /\ Lives /\ Slots /\ Locals /\ Owned
    BY DEF Core
  <1>2. live' = live /\ taken' = taken /\ final' = final /\ ended' = ended /\ seen' = seen
    BY WorkerUnchanged DEF pump, mac
  <1>3. w[s].id \in Ids /\ w[s].id \in Nat
    BY <1>1, WorkerTyped, Constants
  <1>4. ~Sends(s)
    BY DEF Report, Sends
  <1>5. ~w[s].ok => ~Requested(s, w[s].id)
    <2>1. ~w[s].ok => ~(w[s].pos > 0) /\ w[s].pc # "done"
      BY <1>1 DEF EndsSession, Report, Locals, Local
    <2> QED BY <2>1 DEF Asked
  <1>6. ~w[s].ok => Abouts(s) = {}
    BY <1>5 DEF Abouts, Requested
  <1>7. incoming[s] = <<>> /\ (s = live => taken = <<>>)
    <2>1. CASE w[s].ok
      BY <2>1 DEF Answered, Confirmed
    <2>2. CASE ~w[s].ok
      <3>1. ASSUME NEW q \in Seq(Replies), All(q, Abouts(s)) PROVE q = <<>>
        <4>1. ASSUME q # <<>> PROVE FALSE
          <5>1. Head(q) \in Abouts(s)
            BY <3>1, <4>1, TailAll
          <5> QED BY <1>6, <2>2, <5>1
        <4> QED BY <4>1
      <3>2. incoming[s] \in Seq(Replies) /\ taken \in Seq(Replies)
        BY <1>1 DEF TypeOK
      <3> QED BY <3>1, <3>2 DEF Answered
    <2> QED BY <2>1, <2>2
  <1>8. incoming'[s] = <<>>
    <2>1. CASE incoming'[s] = incoming[s]
      BY <1>7, <2>1
    <2>2. CASE incoming[s] # <<>>
      BY <1>7, <2>2
    <2> QED BY <2>1, <2>2, WorkerReads
  <1>9. ~Confirmed(s)'
    BY <1>3, WorkerReads
  <1>10. \A i \in Ids : Requested(s, i)' /\ i < w'[s].id => <<s, i>> \in final'
    <2> SUFFICES ASSUME NEW i \in Ids, Requested(s, i)', i < w'[s].id PROVE <<s, i>> \in final'
      OBVIOUS
    <2>1. Requested(s, i)
      BY <1>4, RequestedBack
    <2>2. CASE i < w[s].id
      BY <1>2, <2>1, <2>2 DEF Answered
    <2>3. CASE i = w[s].id
      <3>1. w[s].ok
        BY <1>5, <2>1, <2>3
      <3> QED BY <1>2, <2>3, <3>1 DEF Answered, Confirmed
    <2>4. i \in Nat
      BY Constants
    <2> QED BY <1>3, <2>2, <2>3, <2>4
  <1>11. /\ All(incoming'[s], Abouts(s)') /\ EndsLast(incoming'[s])
         /\ s = live' => /\ All(taken', Abouts(s)') /\ EndsLast(taken') /\ (HasEnd(incoming'[s]) => taken' = <<>>)
    BY <1>2, <1>7, <1>8 DEF All, EndsLast
  <1> QED BY <1>9, <1>10, <1>11 DEF Answered, All, EndsLast, HasEnd, Terminal

\* The answers to a worker that makes no step.
LEMMA StillAnswered ==
  ASSUME Core, MacHas, Asked, Stream, Next, ~MacRepeats, NEW s \in Sessions, ~WorkerThread(s), Answered(s), w'[s] = w[s],
         w[s].pc # "done"
  PROVE  Answered(s)'
  <1>1. TypeOK /\ Lives /\ Slots /\ Locals /\ Owned
    BY DEF Core
  <1>2. final \subseteq final' /\ ended \subseteq ended' /\ seen[s].ids \subseteq seen'[s].ids
    BY MacRemembers
  <1>3. Confirmed(s)' <=> Confirmed(s)
    BY DEF Confirmed
  <1>4. Abouts(s) \subseteq Abouts(s)'
    BY <1>2 DEF Abouts
  <1>5. \A i \in Ids : Requested(s, i)' /\ i < w'[s].id => <<s, i>> \in final'
    BY <1>2, RequestedBack DEF Answered
  <1>6. PICK A : A = Abouts(s)'
    OBVIOUS
  <1>7. PICK q \in Seq(Replies) : q = incoming[s]
    BY <1>1 DEF TypeOK
  <1>8. PICK p \in Seq(Replies) : p = taken
    BY <1>1 DEF TypeOK
  <1>9. PICK r : r = incoming'[s]
    OBVIOUS
  <1>10. PICK u : u = taken'
    OBVIOUS
  <1>11. All(q, A) /\ EndsLast(q) /\ (s = live => All(p, A) /\ EndsLast(p) /\ (HasEnd(q) => p = <<>>))
    BY <1>4, <1>6, <1>7, <1>8 DEF Answered, All
  <1>12. Confirmed(s) => /\ q = <<>> /\ (s = live => p = <<>>)
                         /\ <<s, w[s].id>> \in final' /\ <<s, w[s].id>> \in ended'
    BY <1>2, <1>7, <1>8 DEF Answered
  <1> DEFINE Goal == /\ All(r, A) /\ EndsLast(r)
                     /\ s = live' => All(u, A) /\ EndsLast(u) /\ (HasEnd(r) => u = <<>>)
                     /\ Confirmed(s) => r = <<>> /\ (s = live' => u = <<>>)
  <1>13. ASSUME r = q /\ (s = live' => live' = live /\ u = p) PROVE Goal
    BY <1>11, <1>12, <1>13
  <1>14. ASSUME ReplyMatch PROVE Goal
    <2>1. r = q /\ live' = live /\ p # <<>> /\ (u = p \/ u = Tail(p))
      BY <1>1, <1>7, <1>8, <1>9, <1>10, <1>14 DEF ReplyMatch, chans
    <2>2. s = live => All(u, A) /\ EndsLast(u)
      BY <1>11, <2>1, TailAll
    <2> QED BY <1>11, <1>12, <2>1, <2>2
  <1>15. ASSUME ReplyDeliver PROVE Goal
    <2>1. live' = live /\ p # <<>> /\ u = Tail(p) /\ (r = q \/ (s = live /\ r = Append(q, Head(p))))
      BY <1>1, <1>7, <1>8, <1>9, <1>10, <1>15 DEF ReplyDeliver, TypeOK, Lives
    <2>2. CASE s # live
      BY <1>11, <1>12, <2>1, <2>2
    <2>3. CASE s = live
      <3>1. Head(p) \in Replies /\ Head(p) \in A /\ All(u, A) /\ EndsLast(u) /\ (Terminal(Head(p)) => u = <<>>)
        BY <1>11, <2>1, <2>3, TailAll
      <3>2. ~HasEnd(q) /\ ~Confirmed(s)
        BY <1>11, <1>12, <2>1, <2>3
      <3>3. All(r, A) /\ EndsLast(r) /\ (HasEnd(r) => u = <<>>)
        BY <1>11, <2>1, <3>1, <3>2, AppendAll
      <3> QED BY <3>1, <3>2, <3>3
    <2> QED BY <2>2, <2>3
  <1>16. ASSUME NEW m \in Replies, MacReply(m), s = live PROVE Goal
    <2>1. r = q /\ live' = live /\ u = Append(p, m) /\ m.id \in seen[s].ids /\ <<s, m.id>> \notin final /\ seen' = seen
      BY <1>7, <1>8, <1>9, <1>10, <1>16 DEF MacReply, chans
    <2>2. m.id \in Ids /\ Requested(s, m.id) /\ m.id \in Nat /\ w[s].id \in Nat
      BY <1>1, <2>1, RepliesTyped, WorkerTyped, Constants DEF Requested
    <2>3. m.id = w[s].id
      <3>1. m.id <= w[s].id
        BY <2>2 DEF Asked
      <3>2. ~(m.id < w[s].id)
        BY <2>1, <2>2 DEF Answered
      <3> QED BY <2>2, <3>1, <3>2
    <2>4. ~Confirmed(s)
      BY <2>1, <2>3 DEF Answered
    <2>5. \A x \in Abouts(s) : ~Terminal(x)
      BY <2>1, <2>3 DEF Abouts
    <2>6. ~HasEnd(q) /\ ~HasEnd(p)
      BY <1>7, <1>8, <1>16, <2>5 DEF Answered, All, HasEnd
    <2>7. m \in A
      <3>1. /\ Terminal(m) => <<s, m.id>> \in final'
            /\ m.kind = "end" => <<s, m.id>> \in ended'
        BY <1>16 DEF MacReply, Terminal
      <3> QED BY <1>6, <2>1, <2>3, <3>1 DEF Abouts
    <2>8. All(u, A) /\ EndsLast(u)
      BY <1>11, <1>16, <2>1, <2>6, <2>7, AppendAll
    <2> QED BY <1>11, <2>1, <2>4, <2>6, <2>8
  <1>17. ASSUME Calm \/ (\E n \in Jobs : Submit(n)) \/ PumpSend \/ (\E m \in Replies : MacReply(m) /\ s # live) PROVE Goal
    <2>1. live' = live /\ incoming' = incoming /\ (s = live => taken' = taken)
      BY <1>17 DEF Calm, Cancel, ForeignCreates, PumpBegin, SessionFails, DropClose, Submit, PumpSend, MacReply, pump, chans
    <2> QED BY <1>7, <1>8, <1>9, <1>10, <1>13, <2>1
  <1>18. ASSUME DropRelease PROVE Goal
    <2>1. live' # s /\ incoming' = incoming
      BY <1>18, Constants DEF DropRelease
    <2> QED BY <1>7, <1>9, <1>13, <2>1
  <1>19. ASSUME NewSession PROVE Goal
    <2>1. incoming' = incoming /\ live' = gen + 1
      BY <1>19 DEF NewSession, chans
    <2>2. s # gen + 1
      <3>1. ASSUME s = gen + 1 PROVE FALSE
        <4>1. w[s].pc = "unborn"
          BY <1>1, <3>1, Constants DEF Lives, TypeOK
        <4>2. w'[s].pc = "top"
          BY <1>1, <1>19, <3>1 DEF NewSession, TypeOK, Fresh
        <4> QED BY <4>1, <4>2
      <3> QED BY <3>1
    <2> QED BY <1>7, <1>9, <1>13, <2>1, <2>2
  <1>20. ASSUME NEW t \in Sessions, WorkerThread(t) PROVE Goal
    <2>1. live' = live /\ incoming'[s] = incoming[s] /\ taken' = taken
      BY <1>1, <1>20, WorkerFrame DEF pump
    <2> QED BY <1>7, <1>8, <1>9, <1>10, <1>13, <2>1
  <1>21. Goal
    BY <1>14, <1>15, <1>16, <1>17, <1>18, <1>19, <1>20 DEF Next, SessionThread, Calm
  <1>22. /\ All(incoming'[s], Abouts(s)') /\ EndsLast(incoming'[s])
         /\ s = live' => /\ All(taken', Abouts(s)') /\ EndsLast(taken') /\ (HasEnd(incoming'[s]) => taken' = <<>>)
         /\ Confirmed(s) => incoming'[s] = <<>> /\ (s = live' => taken' = <<>>)
    BY <1>6, <1>9, <1>10, <1>21
  <1> QED BY <1>3, <1>5, <1>12, <1>22 DEF Answered, All, EndsLast, HasEnd, Terminal

\* The answers of a Mac that does not repeat itself stay in order.
LEMMA AnswersKeeps == Core /\ MacHas /\ Asked /\ Stream /\ Answers /\ ~MacRepeats /\ Next => Answers'
  <1> SUFFICES ASSUME Core, MacHas, Asked, Stream, Answers, ~MacRepeats, Next PROVE Answers'
    OBVIOUS
  <1>1. TypeOK /\ Lives /\ Slots /\ Locals /\ Owned
    BY DEF Core
  <1>2. ASSUME NEW s \in Sessions, w'[s].pc # "done" PROVE Answered(s)'
    <2>1. CASE WorkerThread(s)
      <3>1. Answered(s)
        BY <2>1, WorkerUnchanged DEF Answers
      <3>2. CASE w'[s].id = w[s].id
        BY <1>2, <2>1, <3>1, <3>2, ReadsAnswered
      <3>3. CASE Report(s) /\ ~EndsSession(w[s]) /\ w'[s].id = w[s].id + 1 /\ w'[s].pc = "top"
        BY <2>1, <3>1, <3>3, NextAnswered
      <3> QED BY <2>1, <3>2, <3>3, WorkerIds DEF Sends
    <2>2. CASE ~WorkerThread(s) /\ w'[s] = w[s]
      BY <1>2, <2>2, StillAnswered DEF Answers
    <2>3. CASE NewSession /\ s = gen + 1 /\ w'[s] = Fresh(2) /\ w[s].pc = "unborn"
      <3>1. incoming'[s] = <<>> /\ taken' = <<>>
        BY <1>1, <2>3 DEF NewSession, Lives, Slots, chans
      <3>2. ~Confirmed(s)'
        BY <2>3 DEF Confirmed, Fresh
      <3>3. \A i \in Ids : ~(i < w'[s].id)
        BY <2>3, Constants DEF Fresh
      <3> QED BY <3>1, <3>2, <3>3 DEF Answered, All, EndsLast, HasEnd
    <2> QED BY <2>1, <2>2, <2>3, OthersLeave
  <1>3. ASSUME NEW j \in Jobs, outcome'[j] = "complete" PROVE tid'[j] \in ended'
    <2>1. tid'[j] = tid[j] /\ ended \subseteq ended'
      BY <1>3, FailedBack, MacRemembers
    <2>2. CASE outcome'[j] = outcome[j]
      BY <1>3, <2>1, <2>2 DEF Answers, CompletionConfirmed
    <2>3. ASSUME NEW t \in Sessions, Report(t), tid[j] = <<t, w[t].id>>, w[t].ok PROVE tid'[j] \in ended'
      <3>1. Confirmed(t) /\ Answered(t)
        BY <2>3 DEF Report, Confirmed, Answers
      <3> QED BY <2>1, <2>3, <3>1 DEF Answered
    <2> QED BY <1>3, <2>2, <2>3, FailedBack
  <1> QED BY <1>2, <1>3 DEF Answers, CompletionConfirmed

-----------------------------------------------------------------------------
(* The theorems *)

\* The invariant holds at the start.
LEMMA Initially == Init => IInv
  <1> SUFFICES ASSUME Init PROVE IInv
    OBVIOUS
  <1>1. TypeOK
    BY TypeInit
  <1>2. \A s \in Sessions : /\ w[s].pc = "unborn" /\ w[s].job = NoJob /\ w[s].pos = 0 /\ ~w[s].started /\ ~w[s].ok
                            /\ w[s].id = 2
    BY DEF Init, Fresh
  <1>3. Lives
    <2>1. live = 0 /\ gen = 0 /\ route = 0 /\ spc = "loop" /\ taken = <<>> /\ pending = NoMsg
      BY DEF Init
    <2>2. ASSUME NEW s \in Sessions
          PROVE  outgoing[s] = <<>> /\ w[s].pc = "unborn" /\ s > gen /\ seen[s].id = NoId /\ seen[s].ids = {}
      <3>1. s > 0
        BY Constants
      <3> QED BY <1>2, <2>1, <3>1 DEF Init
    <2> QED BY <2>1, <2>2 DEF Lives
  <1>4. Slots
    BY <1>2, Constants DEF Init, Slots, BusyCoversJob, Working
  <1>5. Locals
    BY <1>2 DEF Locals, Local, Waiting, Named, Past
  <1>6. Owned
    <2>1. \A s \in Sessions : InHand(s)
      BY <1>2 DEF Init, InHand, Named
    <2>2. \A s, t \in Sessions : Apart(s, t)
      BY <1>2 DEF Init, Apart
    <2>3. \A j \in Jobs : InOrder(j)
      BY DEF Init, InOrder
    <2>4. \A j \in Jobs, s \in Sessions : Placed(j, s)
      BY Constants DEF Init, Placed
    <2>5. \A i, j \in Jobs : Distinct(i, j)
      BY DEF Init, Distinct
    <2> QED BY <2>1, <2>2, <2>3, <2>4, <2>5 DEF Owned
  <1>7. MacHas
    BY DEF Init, MacHas
  <1>8. Stream
    BY DEF Init, Stream
  <1>9. \A s \in Sessions, i \in Ids : ~Requested(s, i)
    BY Constants DEF Init, Requested
  <1>10. Asked
    <2>1. \A s \in Sessions : w[s].id \in Ids
      BY <1>2, Constants
    <2> QED BY <1>9, <2>1 DEF Init, Asked
  <1>11. Answers
    <2>1. \A s \in Sessions : Answered(s)
      <3> SUFFICES ASSUME NEW s \in Sessions PROVE Answered(s)
        OBVIOUS
      <3>1. incoming[s] = <<>> /\ taken = <<>> /\ ~Confirmed(s)
        BY <1>2 DEF Init, Confirmed
      <3>2. \A i \in Ids : ~Requested(s, i)
        BY <1>9
      <3> QED BY <3>1, <3>2 DEF Answered, All, EndsLast, HasEnd
    <2> QED BY <2>1 DEF Init, Answers, CompletionConfirmed
  <1> QED BY <1>1, <1>3, <1>4, <1>5, <1>6, <1>7, <1>8, <1>10, <1>11 DEF IInv, Core

\* A stuttering step.
LEMMA Unmoved == IInv /\ UNCHANGED vars => IInv'
  <1> SUFFICES ASSUME IInv, UNCHANGED vars PROVE IInv'
    OBVIOUS
  <1> USE DEF vars, shared, jobs, pump, chans, flags, mac, history
  <1>1. TypeOK'
    BY SMTT(30) DEF IInv, Core, TypeOK
  <1>2. Lives'
    BY DEF IInv, Core, Lives
  <1>3. Slots'
    BY DEF IInv, Core, Slots, BusyCoversJob, Working
  <1>4. Locals'
    BY DEF IInv, Core, Locals, Local, LastPos
  <1>5. Owned'
    BY ZenonT(40) DEF IInv, Core, Owned, InHand, Apart, Placed, InOrder, Distinct
  <1>6. Line' = Line
    BY DEF Line
  <1>7. MacHas'
    BY DEF IInv, MacHas, Held
  <1>8. Stream'
    <2> SUFFICES ASSUME live # 0 PROVE Stream'
      BY DEF Stream
    <2>1. PICK f \in [0..Len(Line) -> 0..MaxChunk + 3] :
                 /\ Chain(live, Line, f)
                 /\ w[live].pos > 0 => LastId(live, Line) = w[live].id /\ f[Len(Line)] = w[live].pos - 1
      BY DEF IInv, Stream
    <2>2. Chain(live, Line, f)'
      <3>1. ASSUME NEW k \in 1..Len(Line) PROVE MessageOf(live, Line[k], f[k])'
        <4>1. PICK i, m, p : i = live /\ m = Line[k] /\ p = f[k]
          OBVIOUS
        <4>2. MessageOf(i, m, p)
          BY <2>1, <4>1 DEF Chain
        <4>3. MessageOf(i, m, p)'
          BY <4>2 DEF MessageOf, KindAt, LastAt
        <4>4. MessageOf(live, Line[k], f[k])' <=> MessageOf(i, m, p)'
          BY <1>6, <4>1 DEF MessageOf
        <4> QED BY <4>3, <4>4
      <3>2. ASSUME NEW k \in 1..Len(Line) PROVE Follows(IdBefore(live, Line, k), f[k - 1], Line[k].id, f[k])'
        BY <1>6, <2>1 DEF Chain, IdBefore, Follows
      <3>3. (f[0] = Place(live))'
        BY <2>1 DEF Chain, Place, PlaceOf
      <3> QED BY <1>6, <3>1, <3>2, <3>3 DEF Chain
    <2>3. LastId(live, Line)' = LastId(live, Line)
      BY <1>6 DEF LastId
    <2> QED BY <1>6, <2>1, <2>2, <2>3 DEF Stream
  <1>9. Asked'
    BY <1>6 DEF IInv, Asked, Requested
  <1>10. Answers => Answers'
    BY <1>6 DEF Answers, Answered, Abouts, Requested, Confirmed, CompletionConfirmed, All, EndsLast, HasEnd
  <1> QED BY <1>1, <1>2, <1>3, <1>4, <1>5, <1>7, <1>8, <1>9, <1>10 DEF IInv, Core

\* The invariant holds in every state.
THEOREM Invariance == Spec => []IInv
  <1>1. IInv /\ [Next]_vars => IInv'
    <2>1. CASE Next
      BY <2>1, CoreKeeps, MacHasKeeps, StreamKeeps, AskedKeeps, AnswersKeeps DEF IInv
    <2>2. CASE UNCHANGED vars
      BY <2>2, Unmoved
    <2> QED BY <2>1, <2>2
  <1> QED BY <1>1, Initially, PTL DEF Spec

\* The variables have their types.
THEOREM TypeCorrect == Spec => []TypeOK
  <1>1. IInv => TypeOK
    BY DEF IInv, Core
  <1> QED BY <1>1, Invariance, PTL

\* The view is never idle while a job of its session is queued or running, even
\* with the workers of earlier sessions still at work (submit, run, Drop).
THEOREM BusyCovers == Spec => []BusyCoversJob
  <1>1. IInv => BusyCoversJob
    BY DEF IInv, Core, Slots
  <1> QED BY <1>1, Invariance, PTL

\* An upload that the Mac has the end of is there in one piece and in full, for
\* the job it was requested for (upload, send, try_send_file_message).
THEOREM UploadsInFull == Spec => []UploadDeliveredInFull
  <1>1. IInv => UploadDeliveredInFull
    <2> SUFFICES ASSUME IInv, NEW s \in Sessions, NEW j \in Jobs, seen[s].end, tid[j] = <<s, seen[s].id>>
                 PROVE  kind[j] = "upload" /\ seen[s].meta = 2 /\ seen[s].data = size[j]
      BY DEF UploadDeliveredInFull
    <2>1. seen[s].id # NoId
      BY DEF IInv, MacHas
    <2>2. PICK i \in Jobs : tid[i] = <<s, seen[s].id>> /\ Held(seen[s], i)
      BY <2>1 DEF IInv, MacHas
    <2>3. i = j
      BY <2>1, <2>2 DEF IInv, Core, Owned, Distinct
    <2> QED BY <2>2, <2>3 DEF Held
  <1> QED BY <1>1, Invariance, PTL

\* No other transfer is requested in a session after one that failed when the
\* Mac knew of it (run, disconnect).
THEOREM FailedIsLast == Spec => []FailedTransferIsLast
  <1>1. IInv => FailedTransferIsLast
    <2> SUFFICES ASSUME IInv, NEW s \in Sessions, NEW j \in Jobs,
                        outcome[j] = "failed", tid[j][1] = s, tid[j][2] \in seen[s].ids
                 PROVE  tid[j][2] = seen[s].id
      BY DEF FailedTransferIsLast
    <2>1. TypeOK /\ MacHas /\ Asked
      BY DEF IInv, Core
    <2>2. tid[j][2] = w[s].id /\ tid[j][2] <= seen[s].id
      BY <2>1 DEF Asked, Requested
    <2>3. seen[s].id # NoId
      BY <2>1 DEF MacHas
    <2>4. seen[s].id \in Ids /\ w[s].id \in Ids
      BY <2>1, <2>3, WorkerTyped DEF TypeOK
    <2>5. seen[s].id <= w[s].id
      BY <2>1, <2>3, <2>4 DEF Asked, Requested
    <2>6. seen[s].id \in Nat /\ w[s].id \in Nat
      BY <2>4, Constants
    <2> QED BY <2>2, <2>5, <2>6
  <1> QED BY <1>1, Invariance, PTL

\* The worker takes replies about its own transfer only, although it does not
\* look at the id again (reply, run's drain, active_id).
THEOREM RepliesBelong == ASSUME ~MacRepeats PROVE Spec => []RepliesBelongToTransfer
  <1>1. IInv => RepliesBelongToTransfer
    <2> SUFFICES ASSUME IInv, NEW s \in Sessions, w[s].pc \in {"await", "receive"}, incoming[s] # <<>>
                 PROVE  Head(incoming[s]).id = w[s].id
      BY DEF RepliesBelongToTransfer
    <2>1. All(incoming[s], Abouts(s)) /\ incoming[s] \in Seq(Replies)
      BY DEF IInv, Core, TypeOK, Answers, Answered
    <2>2. Head(incoming[s]) \in Abouts(s)
      BY <2>1, TailAll
    <2> QED BY <2>2 DEF Abouts
  <1> QED BY <1>1, Invariance, PTL

\* A transfer is reported complete only when the Mac has ended it without an
\* error (upload, download, run).
THEOREM CompletesConfirmed == ASSUME ~MacRepeats PROVE Spec => []CompletionConfirmed
  <1>1. IInv => CompletionConfirmed
    BY DEF IInv, Answers
  <1> QED BY <1>1, Invariance, PTL

\* A download appears at a free path, at once, with the announced size and when
\* the Mac has ended it (download, persist_noclobber).
THEOREM PublishesWhole == ASSUME ~MacRepeats PROVE Spec => PublishedComplete
  <1> DEFINE Whole == \A j \in Jobs : dest' = j /\ dest # j =>
                        /\ dest = Absent
                        /\ \E s \in Sessions : /\ w[s].job = j
                                               /\ w[s].saw /\ w[s].bytes = w[s].total
                                               /\ tid[j] \in ended
  <1>1. IInv /\ [Next]_vars => [Whole]_vars
    <2> SUFFICES ASSUME IInv, Next, NEW j \in Jobs, dest' = j, dest # j
                 PROVE  /\ dest = Absent
                        /\ \E s \in Sessions : w[s].job = j /\ w[s].saw /\ w[s].bytes = w[s].total /\ tid[j] \in ended
      OBVIOUS
    <2>1. TypeOK /\ Locals /\ Owned /\ Answers
      BY DEF IInv, Core
    <2>2. PICK s \in Sessions : Persist(s)
      <3>1. j # Foreign
        BY Constants DEF Foreign
      <3> QED BY <3>1 DEF Next, SessionThread, Submit, Cancel, ForeignCreates, NewSession, PumpBegin, ReplyMatch, ReplyDeliver, PumpSend,
         DropClose, DropRelease, SessionFails, MacReply, WorkerThread, LoopTop, RecvJob, Drain, Activate, Prepare,
         Send, ReceiveFails, AwaitReply, ReceiveReply, Flush, Finish, Report, Latch
    <2>3. dest = Absent /\ w[s].job = j
      BY <2>1, <2>2, PersistStep
    <2>4. w[s].pc = "persist" /\ w[s].saw /\ w[s].bytes = w[s].total
      BY <2>1, <2>2 DEF Persist, Locals, Local
    <2>5. tid[j] = <<s, w[s].id>>
      BY <2>1, <2>3, <2>4 DEF Owned, InHand, Named
    <2>6. <<s, w[s].id>> \in ended
      BY <2>1, <2>4 DEF Answers, Answered, Confirmed
    <2> QED BY <2>3, <2>4, <2>5, <2>6
  <1> QED BY <1>1, Invariance, PTL DEF Spec, PublishedComplete

=============================================================================
