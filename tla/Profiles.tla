------------------------------ MODULE Profiles ------------------------------
(***************************************************************************)
(* The saved connection: profile.rs reads and writes it, the connection    *)
(* form of main.rs fills itself from it, connects with it on launch,       *)
(* replaces it and forgets it.  Three files may hold one: this program's   *)
(* own, and two that clients before it have left.                          *)
(*                                                                         *)
(* A destination is a host, a port and an account.  NoDest stands for one  *)
(* that lacks the host or the account, BadPort for one whose port is none. *)
(* What encrypts a password for the account of the operating system        *)
(* (DPAPI) opens it again, or does not: that is chosen at every use.       *)
(* Outside the program, files are edited, damaged and deleted, and the     *)
(* program is killed at any moment, also in the middle of a save.          *)
(***************************************************************************)
EXTENDS Naturals

CONSTANTS
  Dests,        \* complete destinations
  NoDest,       \* no host or no account
  BadPort,      \* a port that is no number from 1 to 65535
  Passwords,
  NoPw,         \* the empty password
  LegacyFiles,  \* what clients before this one may have left
  MaxLaunches,  \* bounds how often the program is started
  MaxEdits      \* bounds what others do to the files

AnyDest == Dests \cup {NoDest, BadPort}
AnyPw   == Passwords \cup {NoPw}

\* A password as a file holds it: bound to the destination it was saved for,
\* as the clients before stored it, or none that can be decoded.
NoSecret == [kind |-> "none", dest |-> NoDest, pw |-> NoPw]
Secret   == [kind : {"none", "bound", "legacy"}, dest : AnyDest, pw : AnyPw]

File    == [is : {"absent", "damaged", "whole"}, dest : AnyDest, auto : BOOLEAN, enc : Secret]
Absent  == [is |-> "absent", dest |-> NoDest, auto |-> FALSE, enc |-> NoSecret]
Damaged == [Absent EXCEPT !.is = "damaged"]

ASSUME DestsAssumption == NoDest \notin Dests /\ BadPort \notin Dests /\ NoDest # BadPort
ASSUME PasswordsAssumption == NoPw \notin Passwords
ASSUME LegacyAssumption ==
  /\ LegacyFiles \subseteq File
  /\ \A f \in LegacyFiles : f.enc.kind # "bound"
ASSUME BoundsAssumption == MaxLaunches \in Nat /\ MaxEdits \in Nat

VARIABLES
  own,          \* macvnc/rust-profile.json
  legacy,       \* the two files of the clients before
  pc,           \* the program: "down", "ui", or "saving" in the middle of a save
  saving,       \* what the save under way is for
  form,         \* App.profile, as far as it is about the connection
  remember,     \* the tick at "Remember securely"
  autoPending,  \* the first frame connects by itself
  attempt,      \* the connection this program asks its backend for; "busy" once it stands
  granted,      \* what the user has connected to with Remember ticked, not forgotten since
  kept,         \* the last save that the program took for done
  edited,       \* others have changed the own file since
  launches, edits

disk == <<own, legacy, edited, edits>>
vars == <<own, legacy, pc, saving, form, remember, autoPending, attempt, granted, kept, edited,
          launches, edits>>

Blank   == [dest |-> NoDest, pw |-> NoPw, auto |-> FALSE]
Idle    == [stage |-> "idle", dest |-> NoDest, pw |-> NoPw, by |-> "user"]
NoSave  == [why |-> "none", by |-> "user"]

TypeOK ==
  /\ own \in File
  /\ legacy \in [{"vnc-creds", "vnc-client"} -> LegacyFiles \cup {Absent}]
  /\ pc \in {"down", "ui", "saving"}
  /\ saving \in [why : {"none", "connect", "forget"}, by : {"user", "auto"}]
  /\ form \in [dest : AnyDest, pw : AnyPw, auto : BOOLEAN]
  /\ remember \in BOOLEAN /\ autoPending \in BOOLEAN /\ edited \in BOOLEAN
  /\ attempt \in [stage : {"idle", "connecting", "busy"}, dest : AnyDest, pw : AnyPw,
                  by : {"user", "auto"}]
  /\ granted \subseteq Dests \X Passwords
  /\ kept \in [act : {"nothing", "save", "forget"}, as : [dest : AnyDest, pw : AnyPw, auto : BOOLEAN]]
  /\ launches \in 0..MaxLaunches /\ edits \in 0..MaxEdits

-----------------------------------------------------------------------------
(* Reading *)

\* The first of the paths that holds a file decides, also when it cannot be read.
Candidate ==
  IF own.is # "absent" THEN own
  ELSE IF legacy["vnc-creds"].is # "absent" THEN legacy["vnc-creds"] ELSE legacy["vnc-client"]

\* Mutant of Opened: the destination in the secret is not compared.
OpenedUnbound(f, unprotects) == IF unprotects /\ f.enc.kind # "none" THEN f.enc.pw ELSE NoPw

\* decrypt_bound and decrypt_saved: the password of a file.
Opened(f, unprotects) ==
  IF /\ unprotects
     /\ f.enc.kind = "legacy" \/ (f.enc.kind = "bound" /\ f.enc.dest = f.dest)
  THEN f.enc.pw ELSE NoPw

\* Only a password that is bound to its destination may be used unasked.
Unasked(f, pw) == f.auto /\ f.enc.kind # "legacy" /\ pw # NoPw /\ f.dest # NoDest

Load(unprotects) ==
  LET f  == Candidate
      pw == Opened(f, unprotects)
  IN IF f.is = "whole" THEN [is |-> "whole", as |-> [dest |-> f.dest, pw |-> pw, auto |-> Unasked(f, pw)]]
     ELSE [is |-> f.is, as |-> Blank]

-----------------------------------------------------------------------------
Init ==
  /\ own \in LegacyFiles \cup {Absent}
  /\ legacy \in [{"vnc-creds", "vnc-client"} -> LegacyFiles \cup {Absent}]
  /\ pc = "down" /\ saving = NoSave /\ form = Blank /\ remember = FALSE /\ autoPending = FALSE
  /\ attempt = Idle /\ granted = {} /\ kept = [act |-> "nothing", as |-> Blank] /\ edited = FALSE
  /\ launches = 0 /\ edits = 0

\* mayAuto: neither --no-autoconnect nor an update that could not be confirmed.
Launch ==
  /\ pc = "down" /\ launches < MaxLaunches
  /\ \E unprotects, mayAuto \in BOOLEAN :
       LET l == Load(unprotects)
       IN /\ form' = l.as
          /\ remember' = (l.is = "whole")
          /\ autoPending' = (l.as.auto /\ mayAuto)
  /\ pc' = "ui" /\ launches' = launches + 1
  /\ UNCHANGED <<disk, saving, attempt, granted, kept>>

\* The program exits, crashes or is killed; a save it was in has not happened.
Stop ==
  /\ pc # "down"
  /\ pc' = "down" /\ saving' = NoSave /\ form' = Blank /\ remember' = FALSE /\ autoPending' = FALSE
  /\ attempt' = Idle
  /\ UNCHANGED <<disk, granted, kept, launches>>

-----------------------------------------------------------------------------
(* Writing *)

\* save_to: what the file of a profile holds.
SavedFile(p) ==
  [is |-> "whole", dest |-> p.dest, auto |-> p.auto /\ p.pw # NoPw,
   enc |-> IF p.pw = NoPw THEN NoSecret ELSE [kind |-> "bound", dest |-> p.dest, pw |-> p.pw]]

\* Mutant of BeginSave: the file is written in place.
BeginSaveInPlace(why, by) ==
  /\ pc' = "saving" /\ saving' = [why |-> why, by |-> by]
  /\ own' = Damaged /\ UNCHANGED edited

\* Up to the replacement everything happens to a temporary file.
BeginSave(why, by) ==
  /\ pc' = "saving" /\ saving' = [why |-> why, by |-> by]
  /\ UNCHANGED <<own, edited>>

\* The new file takes the place of the old one, and the caller goes on: connect
\* with its connection, forget with an empty form.
SaveDone ==
  /\ pc = "saving"
  /\ pc' = "ui" /\ saving' = NoSave /\ edited' = FALSE
  /\ \/ /\ saving.why = "connect"
        /\ own' = SavedFile(form)
        /\ kept' = [act |-> "save", as |-> form]
        /\ granted' = IF saving.by = "user" THEN granted \cup {<<form.dest, form.pw>>} ELSE granted
        /\ attempt' = [stage |-> "connecting", dest |-> form.dest, pw |-> form.pw, by |-> saving.by]
        /\ UNCHANGED <<form, remember>>
     \/ /\ saving.why = "forget"
        /\ own' = SavedFile(Blank)
        /\ kept' = [act |-> "forget", as |-> Blank]
        /\ granted' = {} /\ form' = Blank /\ remember' = FALSE
        /\ UNCHANGED attempt
  /\ UNCHANGED <<legacy, autoPending, launches, edits>>

\* Encrypting, writing or replacing fails: the caller shows it and does no more.
SaveFails ==
  /\ pc = "saving"
  /\ pc' = "ui" /\ saving' = NoSave
  /\ UNCHANGED <<disk, form, remember, autoPending, attempt, granted, kept, launches>>

-----------------------------------------------------------------------------
(* Connecting *)

\* An empty password field stands for the remembered password of the same destination.
Filled(unprotects) ==
  LET l == Load(unprotects)
  IN IF form.pw = NoPw /\ remember /\ l.is = "whole" /\ l.as.dest = form.dest
     THEN [form EXCEPT !.pw = l.as.pw] ELSE form

\* App::connect
Connect(by) ==
  /\ attempt.stage = "idle"
  /\ \E unprotects \in BOOLEAN :
       LET filled == Filled(unprotects)
       IN \/ /\ form.dest = BadPort
             /\ UNCHANGED <<own, edited, pc, saving, form, attempt>>
          \/ /\ form.dest # BadPort
             /\ form.dest = NoDest \/ filled.pw = NoPw
             /\ form' = filled
             /\ UNCHANGED <<own, edited, pc, saving, attempt>>
          \/ /\ form.dest \in Dests /\ filled.pw # NoPw /\ remember
             /\ form' = filled
             /\ BeginSave("connect", by)
             /\ UNCHANGED attempt
          \/ /\ form.dest \in Dests /\ filled.pw # NoPw /\ ~remember
             /\ attempt' = [stage |-> "connecting", dest |-> form.dest, pw |-> form.pw, by |-> by]
             /\ form' = [form EXCEPT !.pw = NoPw]
             /\ UNCHANGED <<own, edited, pc, saving>>
  /\ UNCHANGED <<legacy, remember, granted, kept, launches, edits>>

\* The first frame after a launch, before it shows the form.
AutoConnect ==
  /\ pc = "ui" /\ autoPending
  /\ autoPending' = FALSE
  /\ Connect("auto")

\* The backend: the connection stands, or the user has cancelled it; and its
\* end, be it a rejected login, an error or the user's wish.
SessionStands ==
  /\ pc = "ui" /\ attempt.stage = "connecting"
  /\ attempt' = [Idle EXCEPT !.stage = "busy"]
  /\ UNCHANGED <<disk, pc, saving, form, remember, autoPending, granted, kept, launches>>

SessionEnds ==
  /\ pc = "ui" /\ attempt.stage # "idle"
  /\ attempt' = Idle
  /\ UNCHANGED <<disk, pc, saving, form, remember, autoPending, granted, kept, launches>>

-----------------------------------------------------------------------------
(* The form; it is disabled while the backend connects. *)

FormShown == pc = "ui" /\ ~autoPending /\ attempt.stage # "connecting"

EditFields ==
  /\ FormShown
  /\ \/ \E d \in AnyDest : form' = [form EXCEPT !.dest = d]
     \/ \E p \in AnyPw : form' = [form EXCEPT !.pw = p]
  /\ UNCHANGED <<disk, pc, saving, remember, autoPending, attempt, granted, kept, launches>>

Tick ==
  /\ FormShown
  /\ \/ remember' = ~remember /\ form' = [form EXCEPT !.auto = @ /\ ~remember]
     \/ remember /\ form' = [form EXCEPT !.auto = ~@] /\ UNCHANGED remember
  /\ UNCHANGED <<disk, pc, saving, autoPending, attempt, granted, kept, launches>>

ClickConnect ==
  /\ FormShown
  /\ Connect("user")
  /\ UNCHANGED autoPending

ClickForget ==
  /\ FormShown
  /\ BeginSave("forget", "user")
  /\ UNCHANGED <<legacy, form, remember, autoPending, attempt, granted, kept, launches, edits>>

-----------------------------------------------------------------------------
(* Others *)

\* The own file is deleted or damaged, or its readable fields are edited and
\* the secret is left or taken out.  Nobody brings an old secret back.
EditOwn ==
  /\ edits < MaxEdits /\ edits' = edits + 1
  /\ \/ own' \in {Absent, Damaged}
     \/ /\ own.is = "whole"
        /\ \E d \in AnyDest, a \in BOOLEAN, e \in {own.enc, NoSecret} :
             own' = [own EXCEPT !.dest = d, !.auto = a, !.enc = e]
  /\ edited' = TRUE
  /\ UNCHANGED <<legacy, pc, saving, form, remember, autoPending, attempt, granted, kept, launches>>

\* A client before this one is still in use.
LegacyClient ==
  /\ edits < MaxEdits /\ edits' = edits + 1
  /\ \E p \in DOMAIN legacy, f \in LegacyFiles \cup {Absent} : legacy' = [legacy EXCEPT ![p] = f]
  /\ UNCHANGED <<own, edited, pc, saving, form, remember, autoPending, attempt, granted, kept, launches>>

User    == EditFields \/ Tick \/ ClickConnect \/ ClickForget
Program == Launch \/ AutoConnect \/ SaveDone \/ SaveFails \/ SessionStands \/ SessionEnds \/ Stop
Others  == EditOwn \/ LegacyClient

Next == User \/ Program \/ Others
Spec == Init /\ [][Next]_vars

-----------------------------------------------------------------------------
(* Properties *)

\* What the next start reads, whenever this one ends and as long as nobody
\* else changes the file: exactly the connection last saved, nothing to
\* connect with once it has been forgotten (whatever clients before have left
\* or leave now), and never a connection made unasked before the first save or
\* with a password that cannot be decrypted.  (load_from against save_to, the
\* replacement by a temporary file, forget's tombstone.)
RestartReads ==
  /\ ~edited =>
       /\ kept.act = "save"    => Load(TRUE) = [is |-> "whole", as |-> kept.as]
       /\ kept.act = "forget"  => Load(TRUE) = [is |-> "whole", as |-> Blank]
       /\ kept.act = "nothing" => ~Load(TRUE).as.auto
  /\ Load(FALSE).as.pw = NoPw /\ ~Load(FALSE).as.auto

\* A connection nobody clicked for takes a password only to a destination to
\* which the user has earlier connected with that same password and Remember
\* ticked, and which he has not had forgotten since: whatever edits the file,
\* whatever older clients left, whatever save failed or was cut short.
AutoAsGranted ==
  [][(attempt.stage = "idle" /\ attempt'.stage = "connecting" /\ attempt'.by = "auto")
       => <<attempt'.dest, attempt'.pw>> \in granted]_vars
=============================================================================
