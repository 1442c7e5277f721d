--------------------------- MODULE ControlInbound ---------------------------
(***************************************************************************)
(* The receiving half of the encrypted control channel and what it drives  *)
(* (hp-protocol, lib.rs, record.rs, file_transfer.rs, metadata.rs): a poll *)
(* reads what TCP has, verifies and decrypts whole records, reassembles    *)
(* file messages, acts on updates (request the next one, follow the        *)
(* display layout, take the media answer) and re-offers the media when the *)
(* layout has changed.  From the end of the handshake: connect repeats the *)
(* offer until an answer gives the size of the stream, the session polls.  *)
(*                                                                         *)
(* One thread owns the connection.  The other direction is a queue, which  *)
(* is what ControlOutbound promises.  The Mac is external: it answers each *)
(* request with one update and each offer with one answer, encodes at the  *)
(* layout it has when it takes an offer (which names none), and does not   *)
(* put anything behind an update in the same record.                       *)
(*                                                                         *)
(* Data: a file message is two units long and may be cut between them; an  *)
(* update is one unit; a record crosses TCP in two pieces; a size is a     *)
(* model value.                                                            *)
(***************************************************************************)
EXTENDS Naturals, Sequences, FiniteSets, FiniteSetsExt

CONSTANTS
  Sizes,         \* desktop sizes within validate_dimensions
  None,          \* no size
  FirstSize,     \* the layout at the beginning
  Reads,         \* reads of one poll: 8 in the code
  MaxChunk,      \* pieces one read returns: 8 KiB in the code
  PendingLimit,  \* 4 MiB in the code
  FileBacklog,   \* file messages not yet taken: 256 in the code
  Stabilise,     \* 2 s in the code
  OfferAgain,    \* 500 ms in the code
  MaxRequeries,  \* 16 in the code
  Deadline,      \* 12 s in the code
  MaxUnits,      \* bound: units of a record
  MaxNet,        \* bound: pieces on the wire
  MaxFiles,      \* bound: file messages the Mac sends
  MaxLayouts,    \* bound: changes of the layout
  MaxPlain,      \* bound: updates that neither the layout nor a full request asks for
  MaxFaults,     \* bound: kinds of things that go wrong
  MaxEvents      \* bound: all of these together, unless there are only layouts (Quiet)

Unusable == "unusable"   \* an answer whose configuration parse_answer skips
Refused  == "refused"    \* ... selects LTR mode, or passes a limit of the parser

ASSUME ConstantsAssumption ==
  /\ FirstSize \in Sizes /\ Sizes \cap {None, Unusable, Refused} = {}
  /\ {Reads, MaxChunk, FileBacklog, Deadline, MaxUnits} \subseteq Nat \ {0}
  /\ {Stabilise, OfferAgain, MaxRequeries, MaxNet, MaxFiles, MaxLayouts, MaxPlain,
      MaxFaults, MaxEvents} \subseteq Nat
  /\ PendingLimit \in Nat /\ Reads * MaxChunk + 1 <= PendingLimit

Never == Stabilise + 1

FileMessages == [k : {"file"}, id : 1..MaxFiles, good : BOOLEAN]
Updates ==
  [k : {"update"}, complete : BOOLEAN, layout : Sizes \cup {None},
   canvas : Sizes \cup {None, Unusable, Refused}]
Messages == FileMessages \cup Updates
Units    == [m : Messages, part : {1, 2}]
Pieces   == [seq : Nat, half : {1, 2}, body : Seq(Units), intact : BOOLEAN]
Requests == {"offer", "full", "incremental"}

VARIABLES
  (* HpConnection *)
  pc,        \* where connect's loop, or the session's, is
  cause,     \* why the session is over
  inSession, \* connect has returned
  reads,     \* reads left in this poll
  pending,   \* pieces received
  bodies, other,   \* poll_control's locals: bodies to process, rest of one
  decSeq,    \* RecordLayer.dec_seq
  decoder,   \* Decoder.pending: units of an unfinished file message
  files,     \* file_messages
  config,    \* stream_config
  current, due, sinceSent,   \* LayoutRecovery: current, pending, last_sent
  requeries, offerAge, age,  \* connect's locals
  (* the network and the Mac *)
  toMac,     \* requests under way, the other direction
  plain,     \* units not yet put into a record
  net,       \* pieces on the wire
  encSeq, macOpen,
  macRequest,   \* the update request it has not answered
  macLayout, told,   \* its layout, and whether the client was told
  macStream, \* the size it encodes at
  (* history *)
  sentFiles, gotFiles, sentUpdates, gotUpdates,
  nLayouts, nPlain, faults   \* faults: what has gone wrong

thread   == <<pc, cause, inSession>>
recovery == <<current, due, sinceSent>>
waiting  == <<requeries, offerAge, age>>
buffers  == <<reads, pending, bodies, other, decSeq, decoder, files>>
conn     == <<thread, buffers, config, recovery, waiting>>
mac      == <<plain, encSeq, macOpen, macRequest, macLayout, told, macStream>>
sents    == <<sentFiles, sentUpdates>>
gots     == <<gotFiles, gotUpdates>>
counts   == <<nLayouts, nPlain, faults>>
vars     == <<conn, toMac, net, mac, sents, gots, counts>>

\* The state is well typed, and what waits to be decrypted stays within one
\* poll and one piece of a record, far below the limit.
TypeOK ==
  /\ pc \in {"idle", "read", "feed", "inspect", "after", "over"}
  /\ cause \in {"none", "closed", "record", "file", "limit", "answer", "timeout", "send"}
  /\ reads \in 0..Reads
  /\ pending \in Seq(Pieces) /\ Len(pending) <= Reads * MaxChunk + 1
  /\ bodies \in Seq(Seq(Units)) /\ other \in Seq(Units)
  /\ decoder \in Seq(Units) /\ Len(decoder) <= 1
  /\ files \in Seq(FileMessages) /\ Len(files) <= FileBacklog
  /\ {config, current, due} \subseteq Sizes \cup {None}
  /\ sinceSent \in 0..Never
  /\ requeries \in 0..MaxRequeries /\ offerAge \in 0..OfferAgain /\ age \in 0..Deadline
  /\ toMac \in Seq(Requests) /\ plain \in Seq(Units) /\ net \in Seq(Pieces)
  /\ {decSeq, encSeq} \subseteq Nat /\ {macOpen, inSession} \subseteq BOOLEAN
  /\ macRequest \in {"none", "full", "incremental"}
  /\ macLayout \in Sizes /\ told \in BOOLEAN /\ macStream \in Sizes \cup {None}

\* connect has read the first record and sent the first request and the offer;
\* that record is neither an update nor an answer.
Init ==
  /\ pc = "idle" /\ cause = "none" /\ inSession = FALSE /\ reads = 0
  /\ pending = <<>> /\ bodies = <<>> /\ other = <<>> /\ decSeq = 0
  /\ decoder = <<>> /\ files = <<>>
  /\ config = None /\ current = None /\ due = None /\ sinceSent = Never
  /\ requeries = 0 /\ offerAge = 0 /\ age = 0
  /\ toMac = <<"full", "offer">>
  /\ plain = <<>> /\ net = <<>> /\ encSeq = 0 /\ macOpen = TRUE
  /\ macRequest = "none" /\ macLayout = FirstSize /\ told = TRUE /\ macStream = None
  /\ sentFiles = <<>> /\ gotFiles = <<>> /\ sentUpdates = <<>> /\ gotUpdates = <<>>
  /\ nLayouts = 0 /\ nPlain = 0 /\ faults = {}

-----------------------------------------------------------------------------
(* What goes wrong *)

Others     == Len(sentFiles) + nPlain + Cardinality(faults)
EventsLeft == nLayouts + Others < MaxEvents
Quiet      == Others = 0 /\ requeries = 0 /\ config # None   \* only layouts

Fault(kind) ==
  /\ kind \notin faults /\ Cardinality(faults) < MaxFaults /\ EventsLeft
  /\ faults' = faults \cup {kind}

-----------------------------------------------------------------------------
(* The owner of the connection: reading and decrypting *)

Over(why) == pc' = "over" /\ cause' = why /\ UNCHANGED inSession
Goes(at)  == pc' = at /\ UNCHANGED <<cause, inSession>>

\* The backlog refuses a message or the socket has failed: write_record and
\* flush return it, and the session ends.
SendFails == Fault("send") /\ Over("send")

\* connect's loop without its deadline
PollForever ==
  /\ pc = "idle" /\ Goes("read") /\ reads' = Reads
  /\ UNCHANGED <<pending, bodies, other, decSeq, decoder, files, config, recovery,
                 waiting, toMac, net, mac, sents, gots, counts>>

\* connect's loop looks at its deadline first; poll_control at the backlog of
\* the other direction, whose errors it returns.
Poll ==
  /\ pc = "idle"
  /\ \/ config = None /\ age = Deadline /\ Over("timeout") /\ UNCHANGED <<reads, faults>>
     \/ /\ config # None \/ age < Deadline
        /\ \/ Goes("read") /\ reads' = Reads /\ UNCHANGED faults
           \/ SendFails /\ UNCHANGED reads
  /\ UNCHANGED <<pending, bodies, other, decSeq, decoder, files, config, recovery,
                 waiting, toMac, net, mac, sents, gots, nLayouts, nPlain>>

\* One read that returns something, any part of what has arrived.
Read(n) ==
  /\ pc = "read" /\ reads > 0 /\ n <= Len(net)
  /\ pending' = pending \o SubSeq(net, 1, n)
  /\ net' = SubSeq(net, n + 1, Len(net))
  /\ reads' = reads - 1
  /\ IF Len(pending') > PendingLimit THEN Over("limit") ELSE Goes("read")
  /\ UNCHANGED <<bodies, other, decSeq, decoder, files, config, recovery, waiting,
                 toMac, mac, sents, gots, counts>>

ReadInterrupted ==
  /\ pc = "read" /\ reads > 0 /\ Fault("interrupted")
  /\ reads' = reads - 1
  /\ UNCHANGED <<thread, pending, bodies, other, decSeq, decoder, files, config,
                 recovery, waiting, toMac, net, mac, sents, gots, nLayouts, nPlain>>

\* The records that are complete at the start of the buffer.
Whole == Len(pending) \div 2

\* A record starts where it should, and its piece carries the number that is
\* due and verifies.
Verifies(i) ==
  /\ pending[2 * i - 1].half = 1 /\ pending[2 * i].half = 2
  /\ {pending[2 * i - 1].seq, pending[2 * i].seq} = {decSeq + i - 1}
  /\ pending[2 * i].intact

\* The reads are used up or nothing more has arrived; or the Mac has closed.
\* Then drain_records: one record that does not verify ends the session, and
\* those decrypted with it are not looked at.
Drain ==
  /\ pc = "read" /\ (reads = 0 \/ net = <<>>)
  /\ IF reads > 0 /\ ~macOpen
       THEN Over("closed") /\ UNCHANGED <<bodies, pending, decSeq>>
     ELSE IF \A i \in 1..Whole : Verifies(i)
       THEN /\ bodies' = [i \in 1..Whole |-> pending[2 * i].body]
            /\ pending' = SubSeq(pending, 2 * Whole + 1, Len(pending))
            /\ decSeq' = decSeq + Whole
            /\ Goes("feed")
       ELSE Over("record") /\ UNCHANGED <<bodies, pending, decSeq>>
  /\ UNCHANGED <<reads, other, decoder, files, config, recovery, waiting, toMac, net,
                 mac, sents, gots, counts>>


-----------------------------------------------------------------------------
(* The owner of the connection: file messages *)

IsFile(u)   == u.m.k = "file" /\ u.part = 1    \* starts with 0x22
Malformed(u) == IsFile(u) /\ ~u.m.good

\* What Decoder::feed makes of the bytes it holds: messages off the front as
\* long as they are complete, then nothing, the start of a message, or other
\* control data.
Decoded(us) ==
  LET n == Max({k \in 0..Len(us) \div 2 :
                  \A i \in 1..k : IsFile(us[2 * i - 1]) /\ us[2 * i - 1].m.good})
      rest == SubSeq(us, 2 * n + 1, Len(us))
  IN [messages |-> [i \in 1..n |-> us[2 * i - 1].m],
      sound |-> \A i \in 1..n : us[2 * i] = [us[2 * i - 1] EXCEPT !.part = 2],
      failed |-> rest # <<>> /\ Malformed(Head(rest)),
      pending |-> IF rest # <<>> /\ IsFile(Head(rest)) THEN rest ELSE <<>>,
      other |-> IF rest # <<>> /\ ~IsFile(Head(rest)) THEN rest ELSE <<>>]

\* no limit on the messages that wait
FeedUnlimited(held) ==
  /\ pc = "feed" /\ bodies # <<>>
  /\ LET d == Decoded(held \o Head(bodies))
     IN /\ ~d.failed /\ decoder' = d.pending
        /\ files' = files \o d.messages /\ gotFiles' = gotFiles \o d.messages
        /\ other' = d.other /\ bodies' = Tail(bodies)
        /\ Goes(IF d.other = <<>> THEN "feed" ELSE "inspect")
  /\ UNCHANGED <<reads, pending, decSeq, config, recovery, waiting, toMac, net, mac,
                 sents, gotUpdates, counts>>

\* One body goes through the decoder; its messages wait in file_messages.
FeedFrom(held) ==
  /\ pc = "feed" /\ bodies # <<>>
  /\ LET d == Decoded(held \o Head(bodies))
     IN IF d.failed THEN Over("file") /\ UNCHANGED <<decoder, files, other, bodies, gotFiles>>
        ELSE IF Len(files) + Len(d.messages) > FileBacklog
               THEN Over("limit") /\ UNCHANGED <<decoder, files, other, bodies, gotFiles>>
        ELSE /\ decoder' = d.pending
             /\ files' = files \o d.messages
             /\ gotFiles' = gotFiles \o IF d.sound THEN d.messages ELSE <<None>>
             /\ other' = d.other
             /\ bodies' = Tail(bodies)
             /\ Goes(IF d.other = <<>> THEN "feed" ELSE "inspect")
  /\ UNCHANGED <<reads, pending, decSeq, config, recovery, waiting, toMac, net, mac,
                 sents, gotUpdates, counts>>

\* a decoder that starts afresh with each record
FeedAfresh == FeedFrom(<<>>)

Feed == FeedFrom(decoder)

-----------------------------------------------------------------------------
(* The owner of the connection: updates, the layout and the answer *)

\* scan_update and parse_answer find nothing in the middle of a file message.
Scan(unit) == IF unit.m.k = "update" THEN unit.m
              ELSE [k |-> "update", complete |-> FALSE, layout |-> None, canvas |-> None]

\* display_layout: of complete updates only
DisplayLayout(u) == IF u.complete THEN u.layout ELSE None

\* parse_answer, if it returns: a usable size or nothing.  What video_config
\* refuses is skipped as if there were no configuration.
ParseAnswer(u) == IF u.canvas \in Sizes THEN u.canvas ELSE None

\* LayoutRecovery::observe that does not take back a size
ObserveOnly(size) == due' = IF current # None /\ size \notin {None, current} THEN size ELSE due

\* LayoutRecovery::observe: the size differs from the one last offered for, or
\* it is that one again.
Observe(size) ==
  due' = IF size = None \/ current = None THEN due
         ELSE IF size = current THEN None ELSE size

\* a layout that asks for another full refresh on top of the next update
InspectTwice ==
  /\ pc = "inspect" /\ LET u == Scan(Head(other)) IN
     /\ u.canvas # Refused /\ Observe(DisplayLayout(u))
     /\ config' = (IF ParseAnswer(u) = None THEN config ELSE ParseAnswer(u))
     /\ current' = (IF config = None /\ ParseAnswer(u) # None THEN ParseAnswer(u) ELSE current)
     /\ toMac' = toMac \o (IF ~u.complete THEN <<>>
                           ELSE IF u.layout = None THEN <<"incremental">>
                           ELSE <<"full", "incremental">>)
     /\ gotUpdates' = Append(gotUpdates, u) /\ Goes("feed") /\ other' = <<>>
  /\ UNCHANGED <<reads, pending, bodies, decSeq, decoder, files, sinceSent, waiting,
                 net, mac, sents, gotFiles, counts>>

\* inspect_control.  A complete update has the next one requested, in full
\* after a layout.
Inspect ==
  /\ pc = "inspect"
  /\ LET u == Scan(Head(other))
         size == ParseAnswer(u)
     IN \/ /\ u.canvas = Refused
           /\ Over("answer")
           /\ UNCHANGED <<config, current, due, toMac, gotUpdates, other, faults>>
        \/ /\ u.canvas # Refused
           /\ Observe(DisplayLayout(u))
           /\ config'  = (IF size # None THEN size ELSE config)
           /\ current' = (IF config = None /\ size # None THEN size ELSE current)
           /\ \/ u.complete /\ SendFails /\ UNCHANGED <<toMac, gotUpdates, other>>
              \/ /\ toMac' = IF ~u.complete THEN toMac
                             ELSE Append(toMac, IF u.layout = None THEN "incremental" ELSE "full")
                 /\ gotUpdates' = Append(gotUpdates, u)
                 /\ other' = <<>> /\ Goes("feed") /\ UNCHANGED faults
  /\ UNCHANGED <<reads, pending, bodies, decSeq, decoder, files, sinceSent, waiting,
                 net, mac, sents, gotFiles, nLayouts, nPlain>>

\* LayoutRecovery::take_due at the end of poll_control
TakeDue ==
  /\ pc = "feed" /\ bodies = <<>>
  /\ IF due # None /\ sinceSent >= Stabilise
       THEN /\ current' = due /\ due' = None /\ sinceSent' = 0
            /\ \/ toMac' = Append(toMac, "offer") /\ Goes("after") /\ UNCHANGED faults
               \/ SendFails /\ UNCHANGED toMac
       ELSE Goes("after") /\ UNCHANGED <<recovery, toMac, faults>>
  /\ UNCHANGED <<buffers, config, waiting, net, mac, sents, gots, nLayouts, nPlain>>

\* After the poll: connect returns if there is an answer, and offers again if
\* there is none yet; the session takes the file messages.
OfferDue == config = None /\ requeries < MaxRequeries /\ offerAge >= OfferAgain

AfterPoll ==
  /\ pc = "after"
  /\ files' = (IF inSession THEN <<>> ELSE files)
  /\ IF OfferDue
       THEN /\ requeries' = requeries + 1 /\ offerAge' = 0
            /\ \/ toMac' = Append(toMac, "offer") /\ Goes("idle") /\ UNCHANGED faults
               \/ SendFails /\ UNCHANGED toMac
       ELSE /\ pc' = "idle" /\ inSession' = (config # None)
            /\ UNCHANGED <<cause, requeries, offerAge, toMac, faults>>
  /\ UNCHANGED <<reads, pending, bodies, other, decSeq, decoder, config, recovery, age,
                 net, mac, sents, gots, nLayouts, nPlain>>

Client ==
  \/ Poll \/ (\E n \in 1..MaxChunk : Read(n)) \/ ReadInterrupted
  \/ Drain \/ Feed \/ Inspect \/ TakeDue \/ AfterPoll

\* Time passes between polls: connect sleeps 20 ms after each, the session 1 ms.
Tick ==
  /\ pc = "idle"
  /\ sinceSent' = IF sinceSent < Stabilise THEN sinceSent + 1 ELSE sinceSent
  /\ IF config # None THEN UNCHANGED <<offerAge, age>>
     ELSE /\ offerAge' = IF offerAge < OfferAgain THEN offerAge + 1 ELSE offerAge
          /\ age' = IF age < Deadline THEN age + 1 ELSE age
  /\ UNCHANGED <<thread, buffers, config, current, due, requeries, toMac, net, mac, sents,
                 gots, counts>>

-----------------------------------------------------------------------------
(* The Mac *)

MacSays(u) ==
  /\ plain' = Append(plain, [m |-> u, part |-> 1])
  /\ sentUpdates' = Append(sentUpdates, u)

Answer(canvas) == [k |-> "update", complete |-> FALSE, layout |-> None, canvas |-> canvas]
Update(layout) == [k |-> "update", complete |-> TRUE, layout |-> layout, canvas |-> None]

MacTakesRequest ==
  /\ toMac # <<>> /\ Head(toMac) # "offer"
  /\ toMac' = Tail(toMac) /\ macRequest' = Head(toMac)
  /\ UNCHANGED <<conn, net, plain, encSeq, macOpen, macLayout, told, macStream, sents,
                 gots, counts>>

\* It encodes what it shows now, or is still warming up, or asks for something
\* the client does not support.
MacTakesOffer ==
  /\ toMac # <<>> /\ Head(toMac) = "offer"
  /\ toMac' = Tail(toMac)
  /\ \/ MacSays(Answer(macLayout)) /\ macStream' = macLayout /\ UNCHANGED faults
     \/ Fault("unusable") /\ MacSays(Answer(Unusable)) /\ macStream' = None
     \/ Fault("refused") /\ MacSays(Answer(Refused)) /\ UNCHANGED macStream
  /\ UNCHANGED <<conn, net, encSeq, macOpen, macRequest, macLayout, told, sentFiles,
                 gots, nLayouts, nPlain>>

\* The update that answers a request: a full request is answered at once, an
\* incremental one when there is something to tell.
MacUpdates ==
  /\ macRequest # "none" /\ macRequest' = "none"
  /\ IF told
       THEN /\ \/ macRequest = "full" /\ UNCHANGED nPlain
               \/ macRequest = "incremental" /\ nPlain < MaxPlain /\ EventsLeft
                  /\ nPlain' = nPlain + 1
            /\ MacSays(Update(None)) /\ UNCHANGED told
       ELSE MacSays(Update(macLayout)) /\ told' = TRUE /\ UNCHANGED nPlain
  /\ UNCHANGED <<conn, toMac, net, encSeq, macOpen, macLayout, macStream, sentFiles, gots,
                 nLayouts, faults>>

\* Another display, another resolution, or a login at the same size.
MacRelayouts(size) ==
  /\ nLayouts < MaxLayouts /\ (EventsLeft \/ (Quiet /\ size # macLayout)) /\ nLayouts' = nLayouts + 1
  /\ macLayout' = size /\ told' = FALSE
  /\ UNCHANGED <<conn, toMac, net, plain, encSeq, macOpen, macRequest, macStream, sents,
                 gots, nPlain, faults>>

MacSendsFile ==
  /\ Len(sentFiles) < MaxFiles /\ EventsLeft
  /\ \E good \in BOOLEAN :
       LET f == [k |-> "file", id |-> Len(sentFiles) + 1, good |-> good]
       IN /\ IF good THEN UNCHANGED faults ELSE Fault("malformed")
          /\ plain' = plain \o <<[m |-> f, part |-> 1], [m |-> f, part |-> 2]>>
          /\ sentFiles' = Append(sentFiles, f)
  /\ UNCHANGED <<conn, toMac, net, encSeq, macOpen, macRequest, macLayout, told, macStream,
                 sentUpdates, gots, nLayouts, nPlain>>

\* The next units go into a record, and the record onto the wire.
MacPacks(n) ==
  /\ macOpen /\ n <= Len(plain) /\ Len(net) + 2 <= MaxNet
  /\ \A i \in 1..n - 1 : plain[i].m.k = "file"
  /\ \E intact \in BOOLEAN :
       /\ IF intact THEN UNCHANGED faults ELSE Fault("damaged")
       /\ net' = net \o [h \in 1..2 |-> [seq |-> encSeq, half |-> h, intact |-> intact,
                                            body |-> SubSeq(plain, 1, n)]]
  /\ plain' = SubSeq(plain, n + 1, Len(plain)) /\ encSeq' = encSeq + 1
  /\ UNCHANGED <<conn, toMac, macOpen, macRequest, macLayout, told, macStream, sents, gots,
                 nLayouts, nPlain>>

MacCloses ==
  /\ macOpen /\ Fault("closed") /\ macOpen' = FALSE
  /\ UNCHANGED <<conn, toMac, net, plain, encSeq, macRequest, macLayout, told, macStream,
                 sents, gots, nLayouts, nPlain>>

\* A read may return any part of what has arrived and no other step of a poll
\* looks at the network, so it is enough that the Mac acts between the polls.
Mac ==
  /\ pc = "idle"
  /\ \/ MacTakesRequest \/ MacTakesOffer \/ MacUpdates \/ MacSendsFile \/ MacCloses
     \/ \E size \in Sizes : MacRelayouts(size)
     \/ \E n \in 1..MaxUnits : MacPacks(n)

Next == Client \/ Tick \/ Mac

Spec == Init /\ [][Next]_vars

\* Both loops go round and sleep, so that time does not stand still while they
\* do.  Nothing is assumed of the Mac.
FairSpec == Spec /\ WF_vars(Client) /\ SF_vars(Tick)

-----------------------------------------------------------------------------
(* Properties *)

\* Why the session ended is true: it is broken off for a record that does not
\* verify, or a file message that makes no sense, only if the Mac sent one.
BlamesRightly ==
  /\ cause = "record" => "damaged" \in faults
  /\ cause = "file" => "malformed" \in faults
  /\ cause = "closed" => ~macOpen

\* File messages arrive as a stream, however records cut and join them, TCP
\* cuts the records and updates come in between; so do updates.
FileStream ==
  INSTANCE MessageStream WITH Messages <- FileMessages, sent <- sentFiles,
    got <- gotFiles, open <- pc # "over", inStep <- BlamesRightly
UpdateStream ==
  INSTANCE MessageStream WITH Messages <- Updates, sent <- sentUpdates,
    got <- gotUpdates, open <- pc # "over", inStep <- BlamesRightly
StreamsSpec == FileStream!Spec /\ UpdateStream!Spec

\* Updates the Mac has sent and the client has not acted on.
Unseen == SubSeq(sentUpdates, Len(gotUpdates) + 1, Len(sentUpdates))

\* One request at a time, and never none: while the session lasts there is
\* exactly one request or the update that answers it, on its way or waiting, so
\* the display is neither asked for twice nor forgotten.
OneRequest ==
  pc # "over" =>
    Cardinality({i \in DOMAIN toMac : toMac[i] # "offer"})
    + (IF macRequest = "none" THEN 0 ELSE 1)
    + Cardinality({i \in DOMAIN Unseen : Unseen[i].complete}) = 1

\* Once the client has been told everything, it has made an offer for the
\* layout of the Mac, or is going to: whatever changes overtook the answers
\* and the two seconds, it does not rest on another layout.
LayoutTracked ==
  pc # "over" /\ config # None /\ told
  /\ (\A i \in DOMAIN Unseen : Unseen[i].layout = None) =>
    \/ due = macLayout
    \/ due = None /\ current = macLayout

\* When nothing is under way in either direction and no offer is due, the Mac
\* encodes at the size of its layout.
StreamFollowsLayout ==
  pc # "over" /\ config # None /\ told /\ Unseen = <<>> /\ due = None
  /\ (\A i \in DOMAIN toMac : toMac[i] # "offer") => macStream = macLayout

\* connect does not wait for an answer for ever, and an offer that is due is
\* made, so that again and again the session is over or nothing is left to
\* negotiate.
Negotiated   == config # None /\ due = None
OffersSettle == []<>(Negotiated \/ pc = "over")
=============================================================================
