---------------------------- MODULE InputSession ----------------------------
(***************************************************************************)
(* The desktop application and its backend thread (macvnc-app, main.rs and *)
(* backend.rs): connecting and disconnecting, the bounded command queue    *)
(* between the two threads, the frame and event channels back, and what    *)
(* keyboard, mouse and clipboard input make of the keys held down on the   *)
(* Mac.                                                                    *)
(*                                                                         *)
(* The UI thread runs App::update once per frame; its four parts (drain    *)
(* the paste, handle events, toolbar, canvas) are four actions, so that    *)
(* the backend runs between them.  The backend thread is either idle in    *)
(* recv or inside run_session.  The Mac is external: it applies the key    *)
(* and button messages of the live session and forgets them with it.       *)
(*                                                                         *)
(* Data: a key is a model value; the modifiers are one key, Cmd; pasted    *)
(* characters are one key, Char, and the letter of a replayed shortcut is  *)
(* one key, Letter; a picture is the number of the session it shows.       *)
(***************************************************************************)
EXTENDS Naturals, Sequences, FiniteSets, SequencesExt

CONSTANTS
  Keys,        \* physical keys the user types with
  QueueCap,    \* COMMAND_QUEUE_CAPACITY (256 in the code)
  PasteBatch,  \* PASTE_COMMANDS_PER_FRAME (128 in the code)
  TextLen,     \* characters in a pasted text
  MaxConnect,  \* bound: times the user connects
  MaxEdit,     \* bound: clipboard events, buttons pressed and panel clicks
  Acts         \* what the user does in this instance, see Inputs

Inputs == {"key", "repeat", "mouse", "cmd", "copy", "paste", "focus", "panel",
           "panel in paste", "copy in paste"}

ASSUME ConstantsAssumption ==
  /\ {QueueCap, PasteBatch, MaxConnect} \subseteq Nat \ {0}
  /\ {TextLen, MaxEdit} \subseteq Nat
  /\ PasteBatch < QueueCap      \* asserted at compile time in main.rs
  /\ Acts \subseteq Inputs

CONSTANTS Cmd, Char, Letter     \* the keys that are not in Keys

ASSUME KeysAssumption ==
  /\ IsFiniteSet(Keys) /\ Keys \cap {Cmd, Char, Letter} = {}
  /\ Cmd # Char /\ Cmd # Letter /\ Char # Letter

AllKeys == Keys \cup {Cmd, Char, Letter}

VARIABLES
  (* App, UI thread *)
  phase,        \* the part of update that runs next, "gone" after exit
  connected, connecting, cancelling,
  texture,      \* session whose picture is shown, 0 for none
  panel,        \* files.open or updates.open
  pressed, mods, buttons,   \* what the app believes is down on the Mac
  paste,        \* pending_paste
  remoteOwns,   \* clipboard.remote_owns
  (* the user *)
  held, cmdHeld, focused,
  edits,        \* clipboard events, buttons pressed and panel clicks so far
  connects,     \* Connect commands sent, the number of the current session
  (* CommandSender, and what the backend sends back *)
  queue, cancelled, events, latest,
  (* backend thread *)
  bpc, bn, announced,
  (* the Mac *)
  macDown, macButton

view   == <<connected, connecting, cancelling, texture>>
input  == <<pressed, mods, buttons>>
clip   == <<paste, remoteOwns>>
user   == <<held, cmdHeld, focused, edits>>
chan   == <<queue, cancelled>>
back   == <<bpc, bn, announced>>
remote == <<macDown, macButton>>
vars   == <<phase, view, panel, input, clip, user, connects, chan, events,
            latest, back, remote>>

-----------------------------------------------------------------------------
(* Commands.  n is the session the command was made for (history).          *)

KeyCmd(k, d) == [c |-> "key", k |-> k, down |-> d, n |-> connects]
Plain(c)     == [c |-> c, k |-> Cmd, down |-> FALSE, n |-> connects]
Button(d)    == [Plain("button") EXCEPT !.down = d]
Commands     == [c : {"key", "button", "clipboard", "connect", "disconnect"},
                 k : AllKeys, down : BOOLEAN, n : 0..MaxConnect]

TypeOK ==
  /\ phase \in {"drain", "events", "toolbar", "canvas", "gone"}
  /\ {connected, connecting, cancelling, panel, mods, buttons, remoteOwns,
      cmdHeld, focused, cancelled, announced, macButton} \subseteq BOOLEAN
  /\ texture \in 0..MaxConnect /\ latest \in 0..MaxConnect
  /\ pressed \subseteq Keys /\ held \subseteq Keys /\ macDown \subseteq AllKeys
  /\ paste \in Seq(Commands) /\ queue \in Seq(Commands)
  /\ Len(queue) <= QueueCap
  /\ edits \in 0..MaxEdit /\ connects \in 0..MaxConnect /\ bn \in 0..MaxConnect
  /\ events \in Seq({"connected", "disconnected"})
  /\ bpc \in {"idle", "starting", "negotiated", "running", "ended", "drained",
              "stopped"}

Init ==
  /\ phase = "drain"
  /\ connected = FALSE /\ connecting = FALSE /\ cancelling = FALSE
  /\ texture = 0 /\ panel = FALSE
  /\ pressed = {} /\ mods = FALSE /\ buttons = FALSE
  /\ paste = <<>> /\ remoteOwns = FALSE
  /\ held = {} /\ cmdHeld = FALSE /\ focused = TRUE /\ edits = 0
  /\ connects = 0
  /\ queue = <<>> /\ cancelled = FALSE /\ events = <<>> /\ latest = 0
  /\ bpc = "idle" /\ bn = 0 /\ announced = FALSE
  /\ macDown = {} /\ macButton = FALSE

-----------------------------------------------------------------------------
(* CommandSender::send, for the commands one part of a frame sends.  What    *)
(* does not fit is lost.                                                     *)

Has(cmds, c) == \E i \in DOMAIN cmds : cmds[i].c = c

\* an unbounded queue
FittingAll(cmds) == cmds

\* what fits of cmds
Fitting(cmds) ==
  LET room == QueueCap - Len(queue)
  IN SubSeq(cmds, 1, IF Len(cmds) < room THEN Len(cmds) ELSE room)

SendAll(cmds) ==
  /\ queue' = queue \o Fitting(cmds)
  /\ cancelled' = \/ Has(cmds, "disconnect")
                  \/ Fitting(cmds) # cmds
                  \/ cancelled /\ ~Has(cmds, "connect")

\* leaving the modifiers out
ReleasesKeys ==
  LET ups == SetToSeq(pressed)
  IN [i \in DOMAIN ups |-> KeyCmd(ups[i], FALSE)]
       \o IF buttons THEN <<Button(FALSE)>> ELSE <<>>

\* release_input: what it sends ...
Releases ==
  LET ups == SetToSeq(pressed \cup IF mods THEN {Cmd} ELSE {})
  IN [i \in DOMAIN ups |-> KeyCmd(ups[i], FALSE)]
       \o IF buttons THEN <<Button(FALSE)>> ELSE <<>>

\* ... and what it forgets.
Forget == pressed' = {} /\ mods' = FALSE /\ buttons' = FALSE

-----------------------------------------------------------------------------
(* UI thread: App::update *)

\* drain_pending_paste that ignores whether there is a session
DrainAlways ==
  /\ phase = "drain" /\ phase' = "events"
  /\ LET n == IF Len(paste) < PasteBatch THEN Len(paste) ELSE PasteBatch
     IN SendAll(SubSeq(paste, 1, n)) /\ paste' = SubSeq(paste, n + 1, Len(paste))
  /\ UNCHANGED <<view, panel, input, remoteOwns, user, connects, events, latest,
                 back, remote>>

\* drain_pending_paste: one batch per frame, nothing without a session.
DrainPaste ==
  /\ phase = "drain" /\ phase' = "events"
  /\ LET n == IF Len(paste) < PasteBatch THEN Len(paste) ELSE PasteBatch
     IN IF connected
          THEN SendAll(SubSeq(paste, 1, n)) /\ paste' = SubSeq(paste, n + 1, Len(paste))
          ELSE paste' = <<>> /\ UNCHANGED chan
  /\ UNCHANGED <<view, panel, input, remoteOwns, user, connects, events, latest,
                 back, remote>>

\* Event::Connected taken at face value
OnConnectedAlways ==
  /\ phase = "events" /\ events # <<>> /\ Head(events) = "connected"
  /\ events' = Tail(events)
  /\ connected' = TRUE /\ connecting' = FALSE
  /\ UNCHANGED <<phase, cancelling, texture, panel, input, clip, user, connects,
                 chan, latest, back, remote>>

\* Event::Connected, ignored once the user has asked to disconnect.
OnConnected ==
  /\ phase = "events" /\ events # <<>> /\ Head(events) = "connected"
  /\ events' = Tail(events)
  /\ IF cancelling THEN UNCHANGED <<connected, connecting>>
                   ELSE connected' = TRUE /\ connecting' = FALSE
  /\ UNCHANGED <<phase, cancelling, texture, panel, input, clip, user, connects,
                 chan, latest, back, remote>>

\* Event::Disconnected
OnDisconnected ==
  /\ phase = "events" /\ events # <<>> /\ Head(events) = "disconnected"
  /\ events' = Tail(events)
  /\ SendAll(Releases) /\ Forget
  /\ connected' = FALSE /\ connecting' = FALSE /\ cancelling' = FALSE
  /\ texture' = 0
  /\ UNCHANGED <<phase, panel, clip, user, connects, latest, back, remote>>

\* The newest picture, unless the view is closed or closing.
TakeFrame ==
  /\ phase = "events" /\ events = <<>> /\ phase' = "toolbar"
  /\ texture' = IF connected /\ ~cancelling /\ latest # 0 THEN latest ELSE texture
  /\ latest' = IF connected \/ cancelling THEN 0 ELSE latest
  /\ UNCHANGED <<connected, connecting, cancelling, panel, input, clip, user,
                 connects, chan, events, back, remote>>

\* The toolbar is not touched.
SkipToolbar ==
  /\ phase = "toolbar" /\ phase' = "canvas"
  /\ UNCHANGED <<view, panel, input, clip, user, connects, chan, events, latest,
                 back, remote>>

\* The Files and Updates buttons open or close their panel.
TogglePanel ==
  /\ phase = "toolbar" /\ phase' = "canvas"
  /\ edits < MaxEdit /\ edits' = edits + 1
  /\ \/ "panel" \in Acts /\ paste = <<>>
     \/ "panel in paste" \in Acts
  /\ SendAll(Releases) /\ Forget
  /\ paste' = <<>>
  /\ panel' = ~panel
  /\ UNCHANGED <<view, remoteOwns, held, cmdHeld, focused, connects, events,
                 latest, back, remote>>

\* Disconnect, and "Cancel and disconnect" in the Files panel (the transfer's
\* own flag is in FileTransfer).
Disconnect ==
  /\ phase = "toolbar" /\ phase' = "canvas"
  /\ (connected \/ connecting) /\ ~cancelling
  /\ SendAll(Append(Releases, Plain("disconnect"))) /\ Forget
  /\ cancelling' = TRUE
  /\ UNCHANGED <<connected, connecting, texture, panel, clip, user, connects,
                 events, latest, back, remote>>

\* connect, from the form that is shown while there is no picture, or
\* auto_connect at launch.
Connect ==
  /\ phase = "canvas" /\ texture = 0 /\ phase' = "drain"
  /\ ~connecting /\ ~connected /\ ~cancelling
  /\ connects < MaxConnect /\ connects' = connects + 1
  /\ connecting' = TRUE
  /\ SendAll(<<[Plain("connect") EXCEPT !.n = connects + 1]>>)
  /\ UNCHANGED <<connected, cancelling, texture, panel, input, clip, user,
                 events, latest, back, remote>>

\* The remote view is on screen and update calls remote_input.
Shown     == texture # 0 /\ connected /\ ~cancelling
Capturing == Shown /\ ~panel /\ focused

\* The frame ends without input for the Mac: nothing shown, or a panel or
\* another window has the focus, in which case everything is released.
QuietCanvas ==
  /\ phase = "canvas" /\ ~Capturing /\ phase' = "drain"
  /\ IF Shown THEN SendAll(Releases) /\ Forget ELSE UNCHANGED <<chan, input>>
  /\ UNCHANGED <<view, panel, clip, user, connects, events, latest, back, remote>>

\* remote_input, before the events: bring Cmd in line with the keyboard, but
\* not while a paste is being typed.
NextMods == IF paste = <<>> THEN cmdHeld ELSE mods
ModDiff  == IF NextMods = mods THEN <<>> ELSE <<KeyCmd(Cmd, NextMods)>>

\* What every remote_input action leaves alone.
CanvasRest ==
  /\ phase = "canvas" /\ Capturing /\ phase' = "drain"
  /\ UNCHANGED <<view, panel, cmdHeld, focused, connects, events, latest, back,
                 remote>>

NoEvent ==
  /\ CanvasRest
  /\ SendAll(ModDiff) /\ mods' = NextMods
  /\ UNCHANGED <<pressed, buttons, clip, held, edits>>

\* Event::Key, pressed, not a repeat.
KeyDown(k) ==
  /\ CanvasRest /\ "key" \in Acts /\ k \notin held
  /\ held' = held \cup {k}
  /\ pressed' = pressed \cup {k}
  /\ SendAll(Append(ModDiff, KeyCmd(k, TRUE))) /\ mods' = NextMods
  /\ UNCHANGED <<buttons, clip, edits>>

\* Event::Key, pressed, sent again by the keyboard's autorepeat.
KeyRepeat(k) ==
  /\ CanvasRest /\ "repeat" \in Acts /\ k \in held
  /\ SendAll(Append(ModDiff, KeyCmd(k, TRUE))) /\ mods' = NextMods
  /\ UNCHANGED <<pressed, buttons, clip, held, edits>>

\* Event::Key, released: only what the app has pressed is released.
KeyUp(k) ==
  /\ CanvasRest /\ k \in held
  /\ held' = held \ {k}
  /\ pressed' = pressed \ {k}
  /\ SendAll(ModDiff \o IF k \in pressed THEN <<KeyCmd(k, FALSE)>> ELSE <<>>)
  /\ mods' = NextMods
  /\ UNCHANGED <<buttons, clip, edits>>

\* Event::PointerButton
Click(d) ==
  /\ CanvasRest /\ "mouse" \in Acts /\ buttons # d
  /\ buttons' = d
  /\ d => edits < MaxEdit
  /\ edits' = IF d THEN edits + 1 ELSE edits
  /\ SendAll(Append(ModDiff, Button(d))) /\ mods' = NextMods
  /\ UNCHANGED <<pressed, clip, held>>

\* tap and typed
Tap   == <<KeyCmd(Letter, TRUE), KeyCmd(Letter, FALSE)>>
Typed == <<Plain("clipboard")>>
           \o [i \in 1..2 * TextLen |-> KeyCmd(Char, i % 2 = 1)]

\* Event::Copy and Cut: from now on the Mac's own pasteboard is the newest.
Copy ==
  /\ CanvasRest /\ cmdHeld
  /\ \/ "copy" \in Acts /\ paste = <<>>
     \/ "copy in paste" \in Acts
  /\ edits < MaxEdit /\ edits' = edits + 1
  /\ remoteOwns' = TRUE
  /\ paste' = paste \o Tap
  /\ SendAll(ModDiff) /\ mods' = NextMods
  /\ UNCHANGED <<pressed, buttons, held>>

\* Event::Paste of something copied in the session: replay the shortcut.
PasteRemote ==
  /\ CanvasRest /\ cmdHeld /\ "paste" \in Acts /\ remoteOwns
  /\ paste = <<>> \/ "copy in paste" \in Acts
  /\ edits < MaxEdit /\ edits' = edits + 1
  /\ remoteOwns' = FALSE
  /\ paste' = paste \o Tap
  /\ SendAll(ModDiff) /\ mods' = NextMods
  /\ UNCHANGED <<pressed, buttons, held>>

\* typing over a held modifier
PasteLocalKeepsCmd ==
  /\ CanvasRest /\ cmdHeld /\ "paste" \in Acts /\ ~remoteOwns
  /\ edits < MaxEdit /\ edits' = edits + 1
  /\ paste' = paste \o Typed
  /\ SendAll(ModDiff) /\ mods' = NextMods
  /\ UNCHANGED <<pressed, buttons, remoteOwns, held>>

\* Event::Paste of local text: let go of Cmd, then type.
PasteLocal ==
  /\ CanvasRest /\ cmdHeld /\ "paste" \in Acts /\ ~remoteOwns
  /\ edits < MaxEdit /\ edits' = edits + 1
  /\ paste' = paste \o Typed
  /\ SendAll(ModDiff \o IF NextMods THEN <<KeyCmd(Cmd, FALSE)>> ELSE <<>>)
  /\ mods' = FALSE
  /\ UNCHANGED <<pressed, buttons, remoteOwns, held>>

\* on_exit and the drop of the CommandSender; the updater's restart ends in
\* the same calls.
Quit ==
  /\ phase = "drain" /\ phase' = "gone"
  /\ queue' = queue \o Fitting(Append(Releases, Plain("disconnect")))
  /\ cancelled' = TRUE
  /\ Forget
  /\ UNCHANGED <<view, panel, clip, user, connects, events, latest, back, remote>>

Frame ==
  \/ DrainPaste \/ OnConnected \/ OnDisconnected \/ TakeFrame
  \/ SkipToolbar \/ QuietCanvas \/ NoEvent

UserActs ==
  \/ TogglePanel \/ Disconnect \/ Connect \/ Copy \/ PasteRemote \/ PasteLocal
  \/ \E k \in Keys : KeyDown(k) \/ KeyRepeat(k) \/ KeyUp(k)
  \/ \E d \in BOOLEAN : Click(d)

-----------------------------------------------------------------------------
(* The user's hands, outside the window's event loop.                        *)

\* Cmd goes down or up; the app reads it as a level.
HandCmd ==
  /\ phase = "canvas" /\ "cmd" \in Acts
  /\ cmdHeld' = ~cmdHeld
  /\ UNCHANGED <<phase, view, panel, input, clip, held, focused, edits, connects,
                 chan, events, latest, back, remote>>

\* A key is released while the view does not capture input.
HandKeyUp(k) ==
  /\ phase = "canvas" /\ ~Capturing /\ k \in held
  /\ held' = held \ {k}
  /\ UNCHANGED <<phase, view, panel, input, clip, cmdHeld, focused, edits,
                 connects, chan, events, latest, back, remote>>

\* The window or the view loses or gains the focus.
Focus ==
  /\ phase = "canvas" /\ "focus" \in Acts
  /\ focused' = ~focused
  /\ UNCHANGED <<phase, view, panel, input, clip, held, cmdHeld, edits, connects,
                 chan, events, latest, back, remote>>

Hands == HandCmd \/ Focus \/ \E k \in Keys : HandKeyUp(k)

-----------------------------------------------------------------------------
(* Backend thread *)

UiRest == UNCHANGED <<phase, view, panel, input, clip, user, connects>>

\* start: recv outside a session.  Only Connect means anything.
IdleRecv ==
  /\ bpc = "idle" /\ queue # <<>>
  /\ queue' = Tail(queue)
  /\ IF Head(queue).c = "connect"
       THEN bpc' = "starting" /\ bn' = Head(queue).n
       ELSE UNCHANGED <<bpc, bn>>
  /\ UiRest /\ UNCHANGED <<cancelled, events, latest, announced, remote>>

\* start: recv fails once the app is gone and the queue is empty.
IdleStop ==
  /\ bpc = "idle" /\ queue = <<>> /\ phase = "gone"
  /\ bpc' = "stopped"
  /\ UiRest /\ UNCHANGED <<chan, events, latest, bn, announced, remote>>

\* run_session before the network: give up if already cancelled; otherwise
\* the decoder and the handshake succeed or fail, however long they take.
Negotiate ==
  /\ bpc = "starting"
  /\ \/ ~cancelled /\ bpc' = "negotiated"
     \/ bpc' = "ended"
  /\ UiRest /\ UNCHANGED <<chan, events, latest, bn, announced, remote>>

\* run_session after the handshake: cancellation is looked at again.
Begin ==
  /\ bpc = "negotiated"
  /\ bpc' = IF cancelled THEN "ended" ELSE "running"
  /\ announced' = FALSE
  /\ macDown' = {} /\ macButton' = FALSE
  /\ UiRest /\ UNCHANGED <<chan, events, latest, bn>>

\* The session loop takes one command.
RunCommand ==
  /\ bpc = "running" /\ queue # <<>>
  /\ queue' = Tail(queue)
  /\ LET m == Head(queue)
     IN /\ bpc' = IF m.c = "disconnect" THEN "ended" ELSE bpc
        /\ macDown' = IF m.c # "key" THEN macDown
                      ELSE IF m.down THEN macDown \cup {m.k} ELSE macDown \ {m.k}
        /\ macButton' = IF m.c = "button" THEN m.down ELSE macButton
  /\ UiRest /\ UNCHANGED <<cancelled, events, latest, bn, announced>>

\* The session loop publishes a picture, and announces the first one and the
\* first of a new size.  (Bound: a new size only while no event is waiting.)
Publish ==
  /\ bpc = "running" /\ ~cancelled
  /\ latest' = bn
  /\ announced' = TRUE
  /\ \/ announced /\ UNCHANGED events
     \/ (announced => events = <<>>) /\ events' = Append(events, "connected")
  /\ UiRest /\ UNCHANGED <<chan, bpc, bn, remote>>

\* run_session returns: at any time when the connection fails, and for the
\* reasons below.
SessionOver ==
  /\ bpc = "running" /\ bpc' = "ended"
  /\ UiRest /\ UNCHANGED <<chan, events, latest, bn, announced, remote>>

\* start, after run_session: no picture and no queued command survives ...
End ==
  /\ bpc = "ended" /\ bpc' = "drained"
  /\ latest' = 0 /\ queue' = <<>>
  /\ macDown' = {} /\ macButton' = FALSE
  /\ UiRest /\ UNCHANGED <<cancelled, events, bn, announced>>

\* ... and the UI hears of it last.
Report ==
  /\ bpc = "drained" /\ bpc' = "idle"
  /\ events' = Append(events, "disconnected")
  /\ UiRest /\ UNCHANGED <<chan, latest, bn, announced, remote>>

\* telling the UI first
FinishReordered ==
  \/ /\ bpc = "ended" /\ bpc' = "drained"
     /\ events' = Append(events, "disconnected")
     /\ macDown' = {} /\ macButton' = FALSE
     /\ UiRest /\ UNCHANGED <<chan, latest, bn, announced>>
  \/ /\ bpc = "drained" /\ bpc' = "idle"
     /\ latest' = 0 /\ queue' = <<>>
     /\ UiRest /\ UNCHANGED <<cancelled, events, bn, announced, remote>>

Finish == End \/ Report

\* The session loop sees the flag at the top of its next turn.
Cancelled == cancelled /\ SessionOver

\* The session loop finds the queue empty and its sender gone.
Orphaned == phase = "gone" /\ queue = <<>> /\ SessionOver

\* No picture within 25 s.
GiveUp == ~announced /\ SessionOver

Backend ==
  IdleRecv \/ IdleStop \/ Negotiate \/ Begin \/ RunCommand \/ Finish

Next == Frame \/ UserActs \/ Quit \/ Hands \/ Backend \/ Publish \/ SessionOver

Spec == Init /\ [][Next]_vars

\* The UI keeps drawing frames (it asks for a repaint every 100 ms) and the
\* backend thread keeps running: the handshake has timeouts, the loop looks
\* at the flag each turn, and a session without a picture gives up after 25 s.
FairSpec ==
  /\ Spec
  /\ WF_vars(Frame)
  /\ WF_vars(Backend)
  /\ WF_vars(Cancelled) /\ WF_vars(Orphaned) /\ WF_vars(GiveUp)

-----------------------------------------------------------------------------
(* Safety *)

\* No key, click or pasted text meant for one session is applied to another,
\* whatever was still queued or still to be typed when a session ended.
NoInputFromOtherSession ==
  bpc = "running" /\ queue # <<>> => Head(queue).n = bn

\* Once everything sent has been applied, the Mac holds down nothing that the
\* app does not know it has to release: no key is latched.
OnlyTrackedKeysDown ==
  bpc = "running" /\ bn = connects /\ connected /\ ~cancelling /\ ~cancelled
  /\ queue = <<>> /\ paste = <<>> =>
    /\ macDown \subseteq pressed \cup IF mods THEN {Cmd} ELSE {}
    /\ macButton => buttons

\* A pasted character reaches the Mac while Cmd is up, so that it is typed and
\* does not fire a shortcut.  (A session that lost a command is closing.)
TypedWithoutCmd ==
  bpc = "running" /\ ~cancelled /\ queue # <<>> /\ Head(queue).k = Char /\ Head(queue).down
    => Cmd \notin macDown

\* The letter of a replayed shortcut reaches the Mac while Cmd is down, so that
\* it copies or pastes and does not type a letter.
ShortcutWithCmd ==
  bpc = "running" /\ ~cancelled /\ queue # <<>> /\ Head(queue).k = Letter /\ Head(queue).down
    => Cmd \in macDown

\* Around a paste Command is on the Mac what the code means it to be.
CmdAsMeant == TypedWithoutCmd /\ ShortcutWithCmd

\* From the click on Disconnect until the backend has reported the end, the
\* view neither becomes connected nor shows a new picture, although the
\* session may still announce itself and publish.
NeverRevived ==
  [][cancelling /\ cancelling' =>
       /\ connected' => connected
       /\ texture' \in {texture, 0}]_vars

-----------------------------------------------------------------------------
(* Liveness *)

\* The backend has the Connect, or has yet to report the end of its session,
\* or the report is on its way.
\* (A Connect refused because the queue is full is never answered: that takes
\* a backend that has not run while the UI sent QueueCap commands.)
Answerable == bpc # "idle" \/ Has(queue, "connect") \/ events # <<>>

\* An attempt to connect is answered: the drain at the end of a session does
\* not take the next session's Connect with it.
ConnectingEnds ==
  connecting /\ Answerable ~> (~connecting \/ phase = "gone")

\* A disconnect completes, even if the queue was too full to take it.
DisconnectCompletes ==
  cancelling /\ Answerable ~> (~cancelling \/ phase = "gone")

\* The user is never left with a connection that neither comes nor goes.
SessionSettles == ConnectingEnds /\ DisconnectCompletes
=============================================================================
