---------------------------- MODULE FileTransfer ----------------------------
(***************************************************************************)
(* Copying one file at a time over an HP session (macvnc-app, transfer.rs).*)
(*                                                                         *)
(* Three threads share one mutex (Shared), three bounded channels and      *)
(* three atomics per session:                                              *)
(*   - the UI thread submits and cancels requests (Client);                *)
(*   - the session thread pumps replies to the worker and the worker's     *)
(*     messages to the Mac (Session), and drops the Session when the HP    *)
(*     session ends for whatever reason;                                   *)
(*   - a worker thread per session does the disk work (Worker).  A worker  *)
(*     outlives its session until it notices that it was closed, so        *)
(*     workers of several sessions can run at once.                        *)
(* The Mac is external: it sees what the session thread writes and answers *)
(* as it likes about the transfers it was asked for.                       *)
(*                                                                         *)
(* Data: a job is its number, file contents are counted in chunks, a       *)
(* message is its transfer id, its kind and one size.                      *)
(***************************************************************************)
EXTENDS Integers, Sequences, FiniteSets

CONSTANTS
  MaxSession,   \* bound: HP sessions opened one after the other
  MaxJob,       \* bound: requests the user submits
  MaxId,        \* the last transfer id of a session (u32::MAX in the code)
  IncomingCap,  \* capacity of the replies channel (8 in the code)
  OutgoingCap,  \* capacity of the outbound channel (2 in the code)
  MaxChunk,     \* MAX_FILE_BYTES, in chunks
  MaxReply,     \* bound: messages the Mac sends in a session
  Requests,     \* what the user asks for, by job
  MacRepeats    \* may the Mac still talk about a transfer it has ended?

ASSUME ConstantsAssumption ==
  /\ {MaxSession, MaxJob, IncomingCap, OutgoingCap} \subseteq Nat \ {0}
  /\ {MaxChunk, MaxReply} \subseteq Nat
  /\ MaxId \in Nat /\ MaxId >= 2
  /\ Requests \in [1..MaxJob -> {"upload", "download"}]
  /\ MacRepeats \in BOOLEAN

Sessions == 1..MaxSession
Jobs     == 1..MaxJob
Ids      == 2..MaxId
NoJob    == 0
NoId     == 0
Absent   == 0     \* nothing at the local destination path
Foreign  == -1    \* a file some other program put there
Unknown  == -1    \* the Mac has not announced a size

\* ITEM_INFO and NEW_ITEM announce a size, DATA carries chunks; "reject" is
\* an END with an error and everything the worker does not understand.
Replies == [id : Ids, kind : {"item", "new"}, n : 0..MaxChunk]
             \cup [id : Ids, kind : {"data"}, n : 1..MaxChunk]
             \cup [id : Ids, kind : {"end", "reject"}, n : {0}]
Outbound == [id : Ids, kind : {"upload", "download", "meta", "data", "end"}]
NoMsg    == [id |-> NoId, kind |-> "none"]

VARIABLES
  (* Mutex<Shared> *)
  gen,         \* generation
  route,       \* session whose jobs channel the client holds, 0 for None
  current,     \* job whose flag Shared.cancel holds, NoJob for None
  busy,        \* snapshot.busy
  status,      \* snapshot.status, by meaning
  (* the jobs *)
  cancelled,   \* jobs whose cancel flag is set
  kind,        \* what each submitted job asks for
  (* session thread *)
  live,        \* the session that exists, 0 for none
  spc,         \* where the session thread is in pump or drop
  taken,       \* file messages that poll_control decoded and reply has not
               \* handled
  pending,     \* Session.pending
  (* per session: channels and atomics *)
  jobq, incoming, outgoing, closed, disconnect, activeId,
  (* per session: the worker's locals *)
  w,
  (* the local download destination, one path for all downloads *)
  dest,
  (* the Mac and history *)
  replies,     \* messages the Mac has sent in the live session
  seen,        \* per session: the ids requested of the Mac and what it holds
               \* of the last one
  ended,       \* <<session, id>> the Mac has confirmed with END
  final,       \* <<session, id>> the Mac has ended either way
  tid,         \* <<session, id>> each job was given
  size,        \* chunks in the file an upload job sends
  outcome      \* how each job ended

shared  == <<gen, route, current, busy, status>>
jobs    == <<cancelled, kind>>
pump    == <<live, spc, taken, pending>>
chans   == <<jobq, incoming, outgoing>>
flags   == <<closed, disconnect, activeId>>
mac     == <<replies, seen, ended, final>>
history == <<tid, size, outcome>>
vars    == <<shared, jobs, pump, chans, flags, w, dest, mac, history>>

-----------------------------------------------------------------------------
(* Types *)

WorkerPcs ==
  {"unborn", "top", "recv", "drain", "activate", "prepare", "send",
   "await", "receive", "flush", "persist", "finish", "report", "latch",
   "done"}

Workers ==
  [pc      : WorkerPcs,
   id      : Ids,                       \* the loop's id
   job     : Jobs \cup {NoJob},
   started : BOOLEAN,                   \* something may have reached the Mac
   pos     : Nat,                       \* messages of the upload queued so far
   bytes   : 0..MaxChunk,               \* chunks written to the staging file
   total   : 0..MaxChunk \cup {Unknown},
   saw     : BOOLEAN,                   \* saw_item
   ok      : BOOLEAN]                   \* the result of upload or download

Fresh(id) ==
  [pc |-> "top", id |-> id, job |-> NoJob, started |-> FALSE, pos |-> 0,
   bytes |-> 0, total |-> Unknown, saw |-> FALSE, ok |-> FALSE]

TypeOK ==
  /\ gen \in 0..MaxSession /\ route \in 0..MaxSession /\ live \in 0..MaxSession
  /\ current \in Jobs \cup {NoJob} /\ cancelled \subseteq Jobs
  /\ busy \in BOOLEAN
  /\ status \in {"idle", "ready", "preparing", "active", "overrun",
                 "complete", "stopped"}
  /\ kind \in [Jobs -> {"none", "upload", "download"}]
  /\ spc \in {"loop", "replies", "deliver", "dropping", "release"}
  /\ taken \in Seq(Replies)
  /\ pending \in Outbound \cup {NoMsg}
  /\ jobq \in [Sessions -> Seq(Jobs)]
  /\ incoming \in [Sessions -> Seq(Replies)]
  /\ outgoing \in [Sessions -> Seq(Outbound)]
  /\ closed \in [Sessions -> BOOLEAN]
  /\ disconnect \in [Sessions -> BOOLEAN]
  /\ activeId \in [Sessions -> Ids \cup {NoId}]
  /\ w \in [Sessions -> Workers]
  /\ dest \in Jobs \cup {Absent, Foreign}
  /\ replies \in 0..MaxReply
  /\ seen \in [Sessions -> [ids : SUBSET Ids, id : Ids \cup {NoId}, meta : Nat,
                            data : Nat, end : BOOLEAN]]
  /\ ended \subseteq Sessions \X Ids /\ final \subseteq Sessions \X Ids
  /\ tid \in [Jobs -> (Sessions \X Ids) \cup {<<0, NoId>>}]
  /\ size \in [Jobs -> 0..MaxChunk]
  /\ outcome \in [Jobs -> {"none", "complete", "failed"}]

Init ==
  /\ gen = 0 /\ route = 0 /\ current = NoJob /\ busy = FALSE /\ status = "idle"
  /\ cancelled = {} /\ kind = [j \in Jobs |-> "none"]
  /\ live = 0 /\ spc = "loop" /\ taken = <<>> /\ pending = NoMsg
  /\ jobq = [s \in Sessions |-> <<>>]
  /\ incoming = [s \in Sessions |-> <<>>]
  /\ outgoing = [s \in Sessions |-> <<>>]
  /\ closed = [s \in Sessions |-> FALSE]
  /\ disconnect = [s \in Sessions |-> FALSE]
  /\ activeId = [s \in Sessions |-> NoId]
  /\ w = [s \in Sessions |-> [Fresh(2) EXCEPT !.pc = "unborn"]]
  /\ dest = Absent
  /\ replies = 0
  /\ seen = [s \in Sessions |-> [ids |-> {}, id |-> NoId, meta |-> 0,
                                 data |-> 0, end |-> FALSE]]
  /\ ended = {} /\ final = {}
  /\ tid = [j \in Jobs |-> <<0, NoId>>]
  /\ size = [j \in Jobs |-> 0]
  /\ outcome = [j \in Jobs |-> "none"]

-----------------------------------------------------------------------------
(* UI thread: Client *)

\* Client::update: a session may only touch the view of its own generation.
MatchesAny(s) == TRUE
Matches(s) == gen = s

\* Client::submit succeeds.  Its three refusals (busy, no route, a full or
\* dead jobs channel) return before anything changes.
Submit(j) ==
  /\ kind[j] = "none" /\ \A i \in Jobs : i < j => kind[i] # "none"
  /\ ~busy
  /\ route # 0
  /\ w[route].pc # "done" /\ jobq[route] = <<>>
  /\ jobq' = [jobq EXCEPT ![route] = Append(@, j)]
  /\ kind' = [kind EXCEPT ![j] = Requests[j]]
  /\ current' = j
  /\ busy' = TRUE /\ status' = "preparing"
  /\ UNCHANGED <<gen, route, cancelled, pump, incoming, outgoing, flags, w,
                 dest, mac, history>>

\* Client::cancel: only the flag; the worker notices at its next check.
Cancel ==
  /\ current # NoJob /\ current \notin cancelled
  /\ cancelled' = cancelled \cup {current}
  /\ UNCHANGED <<shared, kind, pump, chans, flags, w, dest, mac, history>>

\* Another program creates the file at the download destination.  Before a
\* download was asked for this makes no difference to creating it then.
ForeignCreates ==
  /\ dest = Absent /\ \E j \in Jobs : kind[j] = "download"
  /\ dest' = Foreign
  /\ UNCHANGED <<shared, jobs, pump, chans, flags, w, mac, history>>

-----------------------------------------------------------------------------
(* Session thread: Session *)

\* Session::new, after the HP connection is authenticated.
NewSession ==
  /\ live = 0 /\ gen < MaxSession
  /\ gen' = gen + 1 /\ live' = gen + 1 /\ route' = gen + 1
  /\ current' = NoJob /\ busy' = FALSE /\ status' = "ready"
  /\ w' = [w EXCEPT ![gen + 1] = Fresh(2)]
  /\ spc' = "loop" /\ replies' = 0
  /\ UNCHANGED <<jobs, taken, pending, chans, flags, dest, seen, ended,
                 final, history>>

\* pump with file messages at hand, or after the worker asked to disconnect.
PumpBegin ==
  /\ live # 0 /\ spc = "loop"
  /\ IF disconnect[live]
       THEN spc' = "dropping"
       ELSE taken # <<>> /\ spc' = "replies"
  /\ UNCHANGED <<shared, jobs, live, taken, pending, chans, flags, w, dest, mac,
                 history>>

\* reply: compare the message with active_id.  The message is only sent to
\* the worker in a later step.
ReplyMatch ==
  /\ spc = "replies" /\ taken # <<>>
  /\ IF Head(taken).id = activeId[live]
       THEN spc' = "deliver" /\ taken' = taken
       ELSE spc' = spc /\ taken' = Tail(taken)
  /\ UNCHANGED <<shared, jobs, live, pending, chans, flags, w, dest,
                 mac, history>>

\* reply: try_send to the worker, or give up the session.
ReplyDeliver ==
  /\ spc = "deliver"
  /\ spc' = "replies" /\ taken' = Tail(taken)
  /\ IF Len(incoming[live]) < IncomingCap /\ w[live].pc # "done"
       THEN /\ incoming' = [incoming EXCEPT ![live] = Append(@, Head(taken))]
            /\ UNCHANGED <<status, closed, disconnect>>
       ELSE /\ disconnect' = [disconnect EXCEPT ![live] = TRUE]
            /\ closed' = [closed EXCEPT ![live] = TRUE]
            /\ status' = IF Matches(live) THEN "overrun" ELSE status
            /\ UNCHANGED incoming
  /\ UNCHANGED <<gen, route, current, busy, jobs, live, pending, jobq,
                 outgoing, activeId, w, dest, mac, history>>

\* What the Mac knows of a transfer after one more message.
Receives(mem, m) ==
  CASE m.kind \in {"upload", "download"} ->
         [ids |-> mem.ids \cup {m.id}, id |-> m.id, meta |-> 0, data |-> 0,
          end |-> FALSE]
    [] m.kind = "meta" -> [mem EXCEPT !.meta = @ + 1]
    [] m.kind = "data" -> [mem EXCEPT !.data = @ + 1]
    [] OTHER           -> [mem EXCEPT !.end = TRUE]

\* try_send_file_message yields to a busy socket: the message stays pending.
YieldForgets(next) == pending' = NoMsg /\ UNCHANGED seen
Yield(next) == pending' = next /\ UNCHANGED seen

\* pump once every reply is handled: the second look at disconnect, then at
\* most one bulk message per iteration.  The connection takes it and the Mac
\* will see it, or it yields.
PumpSend ==
  /\ live # 0 /\ spc \in {"loop", "replies"} /\ taken = <<>>
  /\ LET fetch == pending = NoMsg /\ outgoing[live] # <<>>
         next  == IF fetch THEN Head(outgoing[live]) ELSE pending
     IN IF disconnect[live]
          THEN spc' = "dropping" /\ UNCHANGED <<outgoing, pending, seen>>
          ELSE /\ spc' = "loop"
               /\ outgoing' = IF fetch
                                THEN [outgoing EXCEPT ![live] = Tail(@)]
                                ELSE outgoing
               /\ \/ /\ next # NoMsg
                     /\ pending' = NoMsg
                     /\ seen' = [seen EXCEPT ![live] = Receives(@, next)]
                  \/ Yield(next)
  /\ UNCHANGED <<shared, jobs, live, taken, jobq, incoming, flags, w, dest,
                 replies, ended, final, history>>

\* The HP session ends: the user disconnects, the connection fails, an
\* incomplete file message times out.
SessionFails ==
  /\ live # 0 /\ spc = "loop"
  /\ spc' = "dropping"
  /\ UNCHANGED <<shared, jobs, live, taken, pending, chans, flags, w,
                 dest, mac, history>>

\* Drop for Session: first the closed flag ...
DropClose ==
  /\ spc = "dropping"
  /\ closed' = [closed EXCEPT ![live] = TRUE]
  /\ spc' = "release"
  /\ UNCHANGED <<shared, jobs, live, taken, pending, chans, disconnect,
                 activeId, w, dest, mac, history>>

\* a Drop that leaves the view to the worker
DropReleaseKeepsBusy ==
  /\ spc = "release"
  /\ route' = 0 /\ current' = NoJob
  /\ cancelled' = cancelled \cup ({current} \ {NoJob})
  /\ live' = 0 /\ spc' = "loop"
  /\ taken' = <<>> /\ pending' = NoMsg
  /\ outgoing' = [outgoing EXCEPT ![live] = <<>>]
  /\ UNCHANGED <<gen, busy, status, kind, jobq, incoming, flags, w, dest, mac,
                 history>>

\* ... then the shared state, then its ends of the channels.
DropRelease ==
  /\ spc = "release"
  /\ IF gen = live
       THEN /\ route' = 0
            /\ cancelled' = cancelled \cup ({current} \ {NoJob})
            /\ current' = NoJob
            /\ busy' = FALSE
            /\ status' = IF busy THEN "stopped" ELSE status
       ELSE UNCHANGED <<route, cancelled, current, busy, status>>
  /\ live' = 0 /\ spc' = "loop"
  /\ taken' = <<>> /\ pending' = NoMsg
  /\ outgoing' = [outgoing EXCEPT ![live] = <<>>]
  /\ UNCHANGED <<gen, kind, jobq, incoming, flags, w, dest, mac, history>>

SessionThread ==
  \/ PumpBegin \/ ReplyMatch \/ ReplyDeliver \/ PumpSend
  \/ DropClose \/ DropRelease

-----------------------------------------------------------------------------
(* Worker thread of session s: Worker *)

Move(s, to) == w' = [w EXCEPT ![s].pc = to]

\* upload or download returned Err.
Fail(s) == w' = [w EXCEPT ![s].pc = "finish", ![s].ok = FALSE]

\* Worker::check
Check(s) == ~closed[s] /\ w[s].job \notin cancelled

\* The worker thread returns; its ends of the jobs and replies channels go
\* with it.
Exit(s) ==
  /\ w' = [w EXCEPT ![s] = [Fresh(w[s].id) EXCEPT !.pc = "done"]]
  /\ jobq' = [jobq EXCEPT ![s] = <<>>]
  /\ incoming' = [incoming EXCEPT ![s] = <<>>]

\* run: while !closed
LoopTop(s) ==
  /\ w[s].pc = "top"
  /\ IF closed[s] THEN Exit(s) ELSE Move(s, "recv") /\ UNCHANGED <<jobq, incoming>>
  /\ UNCHANGED <<shared, jobs, pump, outgoing, flags, dest, mac, history>>

\* run: recv_timeout on the jobs channel.  A queued job is received even if
\* the session was closed meanwhile; a timeout leads back to the loop test.
RecvJob(s) ==
  /\ w[s].pc = "recv"
  /\ \/ /\ jobq[s] # <<>>
        /\ jobq' = [jobq EXCEPT ![s] = Tail(@)]
        /\ w' = [w EXCEPT ![s] = [Fresh(w[s].id) EXCEPT
                                    !.pc = "drain", !.job = Head(jobq[s])]]
        /\ UNCHANGED incoming
     \/ (closed[s] \/ (jobq[s] = <<>> /\ route # s)) /\ Exit(s)
  /\ UNCHANGED <<shared, jobs, pump, outgoing, flags, dest, mac, history>>

\* run: drop what an earlier transfer left in the replies channel.
Drain(s) ==
  /\ w[s].pc = "drain"
  /\ IF incoming[s] = <<>>
       THEN Move(s, "activate") /\ UNCHANGED incoming
       ELSE incoming' = [incoming EXCEPT ![s] = Tail(@)] /\ UNCHANGED w
  /\ UNCHANGED <<shared, jobs, pump, jobq, outgoing, flags, dest, mac,
                 history>>

\* run: active_id = id
Activate(s) ==
  /\ w[s].pc = "activate"
  /\ activeId' = [activeId EXCEPT ![s] = w[s].id]
  /\ tid' = [tid EXCEPT ![w[s].job] = <<s, w[s].id>>]
  /\ Move(s, "prepare")
  /\ UNCHANGED <<shared, jobs, pump, chans, closed, disconnect, dest, mac,
                 size, outcome>>

\* upload and download up to started = true: everything that is refused
\* before the Mac hears of it.
Prepare(s) ==
  /\ w[s].pc = "prepare"
  /\ \/ Fail(s) /\ UNCHANGED <<status, size>>    \* a local refusal
     \/ /\ Check(s)
        /\ kind[w[s].job] = "download" => dest = Absent
        /\ w' = [w EXCEPT ![s].pc = "send", ![s].started = TRUE]
        /\ IF kind[w[s].job] = "upload"
             THEN \E n \in 0..MaxChunk : size' = [size EXCEPT ![w[s].job] = n]
             ELSE UNCHANGED size
        /\ status' = IF Matches(s) THEN "active" ELSE status
  /\ UNCHANGED <<gen, route, current, busy, jobs, pump, chans, flags, dest,
                 mac, tid, outcome>>

\* The message at position pos of a transfer: the request and, for an
\* upload, two metadata messages, the chunks and the end.
MessageAt(s) ==
  LET j == w[s].job
      p == w[s].pos
  IN [id   |-> w[s].id,
      kind |-> CASE p = 0                -> kind[j]
                 [] p \in 1..2           -> "meta"
                 [] p \in 3..2 + size[j] -> "data"
                 [] OTHER                -> "end"]

LastPos(s) ==
  IF kind[w[s].job] = "upload" THEN size[w[s].job] + 3 ELSE 0

\* Worker::send with the checks and reads around it.  It fails on
\* cancellation, when the session is gone, after 15 s of a full channel, and
\* when reading the source shows that the file shrank or changed.
Send(s) ==
  /\ w[s].pc = "send"
  /\ \/ /\ Check(s) /\ live = s
        /\ Len(outgoing[s]) < OutgoingCap
        /\ outgoing' = [outgoing EXCEPT ![s] = Append(@, MessageAt(s))]
        /\ w' = [w EXCEPT ![s].pos = @ + 1,
                          ![s].pc = IF w[s].pos < LastPos(s) THEN "send"
                                    ELSE IF kind[w[s].job] = "upload"
                                    THEN "await" ELSE "receive"]
     \/ /\ \/ ~Check(s) \/ live # s
           \/ Len(outgoing[s]) = OutgoingCap
           \/ w[s].pos > 2
        /\ Fail(s) /\ UNCHANGED outgoing
  /\ UNCHANGED <<shared, jobs, pump, jobq, incoming, flags, dest, mac,
                 history>>

\* Worker::receive gives up: cancelled, 15 s without an answer, or the
\* session is gone and the channel empty.
ReceiveFails(s) ==
  /\ w[s].pc \in {"await", "receive"}
  /\ Fail(s)
  /\ UNCHANGED <<shared, jobs, pump, chans, flags, dest, mac, history>>

\* upload: the one reply that completes it.
ConfirmsAlways(m) == TRUE
Confirms(m) == m.kind = "end"

AwaitReply(s) ==
  /\ w[s].pc = "await"
  /\ Check(s) /\ incoming[s] # <<>>
  /\ incoming' = [incoming EXCEPT ![s] = Tail(@)]
  /\ w' = [w EXCEPT ![s].pc = "finish", ![s].ok = Confirms(Head(incoming[s]))]
  /\ UNCHANGED <<shared, jobs, pump, jobq, outgoing, flags, dest, mac,
                 history>>

\* download: chunks and the end taken without looking at the announced size
AcceptableUnsized(x, m) ==
  CASE m.kind = "item" -> x.total \in {Unknown, m.n} /\ x.bytes <= m.n
    [] m.kind = "new"  -> ~x.saw /\ x.bytes = 0 /\ x.total \in {Unknown, m.n}
    [] OTHER           -> m.kind # "reject"

\* download: whether a message is one the transfer can go on from.
Acceptable(x, m) ==
  CASE m.kind = "item" -> x.total \in {Unknown, m.n} /\ x.bytes <= m.n
    [] m.kind = "new"  -> /\ ~x.saw /\ x.bytes = 0
                          /\ x.total \in {Unknown, m.n} /\ x.bytes <= m.n
    [] m.kind = "data" -> x.bytes + m.n <= IF x.total = Unknown
                                             THEN MaxChunk ELSE x.total
    [] m.kind = "end"  -> x.total = x.bytes /\ x.saw
    [] OTHER           -> FALSE

\* download: one turn of the receive loop.
ReceiveReply(s) ==
  /\ w[s].pc = "receive"
  /\ Check(s) /\ incoming[s] # <<>>
  /\ incoming' = [incoming EXCEPT ![s] = Tail(@)]
  /\ LET m == Head(incoming[s])
     IN IF ~Acceptable(w[s], m) THEN Fail(s)
        ELSE CASE m.kind = "item" -> w' = [w EXCEPT ![s].total = m.n]
               [] m.kind = "new"  -> w' = [w EXCEPT ![s].total = m.n,
                                                    ![s].saw = TRUE]
               [] m.kind = "data" -> w' = [w EXCEPT ![s].bytes = @ + m.n]
               [] m.kind = "end"  -> Move(s, "flush")
  /\ UNCHANGED <<shared, jobs, pump, jobq, outgoing, flags, dest, mac,
                 history>>

\* download: flush, sync and the last check before publication.
Flush(s) ==
  /\ w[s].pc = "flush"
  /\ \/ Check(s) /\ Move(s, "persist")
     \/ Fail(s)                        \* cancelled, or the disk refuses
  /\ UNCHANGED <<shared, jobs, pump, chans, flags, dest, mac, history>>

\* download: persist_noclobber.  Nothing is checked any more.
Persist(s) ==
  /\ w[s].pc = "persist"
  /\ IF dest = Absent
       THEN /\ dest' = w[s].job
            /\ w' = [w EXCEPT ![s].pc = "finish", ![s].ok = TRUE]
       ELSE Fail(s) /\ UNCHANGED dest
  /\ UNCHANGED <<shared, jobs, pump, chans, flags, mac, history>>

\* run: active_id = 0
Finish(s) ==
  /\ w[s].pc = "finish"
  /\ activeId' = [activeId EXCEPT ![s] = NoId]
  /\ Move(s, "report")
  /\ UNCHANGED <<shared, jobs, pump, chans, closed, disconnect, dest, mac,
                 history>>

\* run: a failed transfer that the Mac may know of ends the session.
EndsNever(x) == FALSE
EndsSession(x) == ~x.ok /\ x.started

\* run: report the result to the generation it belongs to, then take the next
\* id, or stop the session if the Mac may hold a partial file.
Report(s) ==
  /\ w[s].pc = "report"
  /\ IF Matches(s)
       THEN /\ busy' = FALSE
            /\ status' = IF w[s].ok THEN "complete" ELSE "stopped"
       ELSE UNCHANGED <<busy, status>>
  /\ outcome' = [outcome EXCEPT ![w[s].job] = IF w[s].ok THEN "complete"
                                                         ELSE "failed"]
  /\ IF EndsSession(w[s]) \/ w[s].id < MaxId
       THEN /\ w' = [w EXCEPT ![s] = IF EndsSession(@)
                                       THEN [@ EXCEPT !.pc = "latch"]
                                       ELSE Fresh(@.id + 1)]
            /\ UNCHANGED <<jobq, incoming>>
       ELSE Exit(s)
  /\ UNCHANGED <<gen, route, current, jobs, pump, outgoing, flags, dest, mac,
                 tid, size>>

\* run: disconnect = true and leave the loop.
Latch(s) ==
  /\ w[s].pc = "latch"
  /\ disconnect' = [disconnect EXCEPT ![s] = TRUE]
  /\ Exit(s)
  /\ UNCHANGED <<shared, jobs, pump, outgoing, closed, activeId, dest, mac,
                 history>>

WorkerThread(s) ==
  \/ LoopTop(s) \/ RecvJob(s) \/ Drain(s) \/ Activate(s) \/ Prepare(s)
  \/ Send(s) \/ ReceiveFails(s) \/ AwaitReply(s) \/ ReceiveReply(s)
  \/ Flush(s) \/ Persist(s) \/ Finish(s) \/ Report(s) \/ Latch(s)

-----------------------------------------------------------------------------
(* The Mac: any message about a transfer it was asked for; unless MacRepeats *)
(* nothing after the end of that transfer.                                   *)

MacReply(m) ==
  /\ live # 0 /\ spc = "loop" /\ replies < MaxReply
  /\ m.id \in seen[live].ids
  /\ MacRepeats \/ <<live, m.id>> \notin final
  /\ taken' = Append(taken, m)
  /\ replies' = replies + 1
  /\ ended' = IF m.kind = "end" THEN ended \cup {<<live, m.id>>} ELSE ended
  /\ final' = IF m.kind \in {"end", "reject"} THEN final \cup {<<live, m.id>>}
                                              ELSE final
  /\ UNCHANGED <<shared, jobs, live, spc, pending, chans, flags, w, dest, seen,
                 history>>

Next ==
  \/ \E j \in Jobs : Submit(j)
  \/ Cancel
  \/ ForeignCreates
  \/ NewSession
  \/ SessionThread
  \/ SessionFails
  \/ \E s \in Sessions : WorkerThread(s)
  \/ \E m \in Replies : MacReply(m)

Spec == Init /\ [][Next]_vars

\* Both program threads keep running and their timeouts elapse.  Nothing is
\* assumed of the user, the Mac, other programs or the network.
FairSpec ==
  /\ Spec
  /\ WF_vars(SessionThread)
  /\ \A s \in Sessions : WF_vars(WorkerThread(s))

-----------------------------------------------------------------------------
(* Safety *)

\* Between taking a job and reporting its result.
Working(s) == w[s].pc \in {"drain", "activate", "prepare", "send", "await",
                           "receive", "flush", "persist", "finish", "report"}

\* The view is never idle while a job of its session is queued or running:
\* so a second job cannot be submitted, the one-place jobs channel never
\* refuses, and the worker of an earlier session cannot free the slot of the
\* current one.
BusyCoversJob == route # 0 /\ ~busy => jobq[route] = <<>> /\ ~Working(route)

\* A transfer is complete only if the Mac has sent END for that very transfer.
CompletionConfirmed ==
  \A j \in Jobs : outcome[j] = "complete" => tid[j] \in ended

\* The worker only ever takes replies about its own transfer.  Neither upload
\* nor download looks at the id again: this rests on reply, on the drain and
\* on the order in which run moves active_id.
RepliesBelongToTransfer ==
  \A s \in Sessions :
    w[s].pc \in {"await", "receive"} /\ incoming[s] # <<>> /\ Check(s)
      => Head(incoming[s]).id = w[s].id

\* What the Mac holds when it receives the end of an upload is the whole file,
\* in one piece, for the job with that id.
UploadDeliveredInFull ==
  \A s \in Sessions, j \in Jobs :
    seen[s].end /\ tid[j] = <<s, seen[s].id>> =>
      kind[j] = "upload" /\ seen[s].meta = 2 /\ seen[s].data = size[j]

\* After a transfer that failed once the Mac had its request, no other
\* transfer is requested in that session.
FailedTransferIsLast ==
  \A s \in Sessions, j \in Jobs :
    outcome[j] = "failed" /\ tid[j][1] = s /\ tid[j][2] \in seen[s].ids
      => tid[j][2] = seen[s].id

\* A download appears at its destination at once and complete: the path was
\* free, the announced size has been written, and the Mac has ended the
\* transfer.
PublishedComplete ==
  [][\A j \in Jobs : dest' = j /\ dest # j =>
       /\ dest = Absent
       /\ \E s \in Sessions : /\ w[s].job = j
                              /\ w[s].saw /\ w[s].bytes = w[s].total
                              /\ tid[j] \in ended]_vars

-----------------------------------------------------------------------------
(* Liveness *)

\* A transfer is not busy for ever, whatever the Mac and the network do.
BusyEnds == busy ~> ~busy

\* A session and its worker end together.  The worker of a session that was
\* closed ends, whatever it was waiting for, so no thread is leaked; and a
\* worker that stops after a partial failure takes the session with it, so that
\* the user reconnects before the next transfer.
EndTogether ==
  \A s \in Sessions : /\ closed[s] ~> w[s].pc = "done"
                      /\ w[s].pc = "latch" ~> live # s

\* Every path out of a transfer frees what it held: the one slot, the worker
\* and, after a failure, the session.
TransfersSettle == BusyEnds /\ EndTogether
=============================================================================
