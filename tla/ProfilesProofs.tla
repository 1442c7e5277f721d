--------------------------- MODULE ProfilesProofs ---------------------------
(***************************************************************************)
(* Proofs about Profiles, for every number of destinations, passwords,     *)
(* files left behind, starts and edits: its type invariant, and the two    *)
(* properties of its run.                                                  *)
(*                                                                         *)
(* The argument for AutoAsGranted: the own file is the only one whose      *)
(* password may be bound, and what is bound there was granted (Bound); so  *)
(* is what the form holds while the first frame is still to connect by     *)
(* itself, and while a save it began is under way (Pending).  For          *)
(* RestartReads: unless others changed it, the own file is the one that    *)
(* the last finished save wrote (Kept).                                    *)
(***************************************************************************)
EXTENDS Profiles, TLAPS

\* A bound password is one that the user has taken to its destination.
Bound ==
  own.enc.kind = "bound" => <<own.enc.dest, own.enc.pw>> \in granted

\* A connection that nobody clicked for, on its way.
Pending ==
  /\ autoPending => /\ pc = "ui" /\ <<form.dest, form.pw>> \in granted
  /\ pc = "saving" /\ saving.why = "connect" =>
       /\ form.dest \in Dests /\ form.pw \in Passwords
       /\ saving.by = "auto" => <<form.dest, form.pw>> \in granted

\* The own file is what the last save made of it.
Kept ==
  /\ ~edited =>
       /\ kept.act = "save"    => own = SavedFile(kept.as)
       /\ kept.act = "forget"  => own = SavedFile(Blank)
       /\ kept.act = "nothing" => own \in LegacyFiles \cup {Absent}
  /\ kept.act = "save" => kept.as.dest \in Dests /\ kept.as.pw \in Passwords

IInv == TypeOK /\ Bound /\ Pending /\ Kept

-----------------------------------------------------------------------------
(* The files and what is read from them *)

\* The files of earlier clients, and no file, are files without a bound password.
LEMMA LegacyTyped ==
  /\ Absent \in File /\ Damaged \in File /\ Blank \in [dest : AnyDest, pw : AnyPw, auto : BOOLEAN]
  /\ LegacyFiles \subseteq File
  /\ \A f \in LegacyFiles \cup {Absent} : f \in File /\ f.enc.kind # "bound"
  <1>1. NoSecret \in Secret
    BY DEF NoSecret, Secret, AnyDest, AnyPw
  <1>2. Absent \in File /\ Absent.enc.kind # "bound"
    BY <1>1 DEF Absent, File, AnyDest, NoSecret
  <1>3. Damaged \in File
    BY <1>1 DEF Absent, Damaged, File, AnyDest
  <1>4. Blank \in [dest : AnyDest, pw : AnyPw, auto : BOOLEAN]
    BY DEF Blank, AnyDest, AnyPw
  <1> QED BY <1>2, <1>3, <1>4, LegacyAssumption

\* What is read first is a file; with a bound password it is the own one.
LEMMA CandidateTyped ==
  ASSUME TypeOK
  PROVE  /\ Candidate \in File
         /\ Candidate.enc.kind = "bound" => Candidate = own
  <1>1. legacy["vnc-creds"] \in LegacyFiles \cup {Absent} /\ legacy["vnc-client"] \in LegacyFiles \cup {Absent}
    BY DEF TypeOK
  <1> QED BY <1>1, LegacyTyped DEF Candidate, TypeOK

\* What a load yields is typed, and is used unasked only when it was bound.
LEMMA LoadTyped ==
  ASSUME TypeOK, NEW u \in BOOLEAN
  PROVE  /\ Load(u).as \in [dest : AnyDest, pw : AnyPw, auto : BOOLEAN]
         /\ Load(u).as.auto => /\ own.enc.kind = "bound"
                               /\ Load(u).as.dest = own.enc.dest /\ Load(u).as.pw = own.enc.pw
  <1> DEFINE f == Candidate  pw == Opened(f, u)
  <1>1. f \in File /\ (f.enc.kind = "bound" => f = own)
    BY CandidateTyped
  <1>2. f.enc \in Secret /\ f.dest \in AnyDest /\ f.auto \in BOOLEAN
    BY <1>1 DEF File
  <1>3. pw \in AnyPw
    BY <1>2 DEF Opened, AnyPw, Secret
  <1>4. Unasked(f, pw) \in BOOLEAN
    BY <1>2 DEF Unasked
  <1>5. Unasked(f, pw) => f.enc.kind = "bound" /\ f = own /\ f.dest = own.enc.dest /\ pw = own.enc.pw
    BY <1>1, <1>2 DEF Unasked, Opened, Secret
  <1>6. CASE f.is = "whole"
    <2>1. Load(u).as = [dest |-> f.dest, pw |-> pw, auto |-> Unasked(f, pw)]
      BY <1>6 DEF Load
    <2> QED BY <2>1, <1>2, <1>3, <1>4, <1>5
  <1>7. CASE f.is # "whole"
    <2>1. Load(u).as = Blank
      BY <1>7 DEF Load
    <2> QED BY <2>1, LegacyTyped DEF Blank
  <1> QED BY <1>6, <1>7

\* What connect fills in is the form, with a password.
LEMMA FilledTyped ==
  ASSUME TypeOK, NEW u \in BOOLEAN
  PROVE  /\ Filled(u) \in [dest : AnyDest, pw : AnyPw, auto : BOOLEAN]
         /\ Filled(u).dest = form.dest /\ (form.pw # NoPw => Filled(u) = form)
  BY LoadTyped DEF Filled, TypeOK

\* What a save writes is a file, with nothing in it or a bound password.
LEMMA SavedTyped ==
  ASSUME NEW p \in [dest : AnyDest, pw : AnyPw, auto : BOOLEAN]
  PROVE  /\ SavedFile(p) \in File
         /\ SavedFile(p).enc.kind = "bound" =>
              SavedFile(p).enc.dest = p.dest /\ SavedFile(p).enc.pw = p.pw /\ p.pw # NoPw
  BY DEF SavedFile, File, NoSecret, Secret, AnyDest, AnyPw
-----------------------------------------------------------------------------
(* The invariant is kept *)

\* The program is not running yet, and the file is one the user may have.
LEMMA Initially == Init => IInv
  <1> SUFFICES ASSUME Init PROVE IInv
    OBVIOUS
  <1>1. own \in File /\ own.enc.kind # "bound"
    BY LegacyTyped DEF Init
  <1>2. TypeOK
    <2>1. /\ saving \in [why : {"none", "connect", "forget"}, by : {"user", "auto"}]
          /\ attempt \in [stage : {"idle", "connecting", "busy"}, dest : AnyDest, pw : AnyPw,
                           by : {"user", "auto"}]
      BY DEF Init, NoSave, Idle, AnyDest, AnyPw
    <2>2. /\ form \in [dest : AnyDest, pw : AnyPw, auto : BOOLEAN]
          /\ kept \in [act : {"nothing", "save", "forget"}, as : [dest : AnyDest, pw : AnyPw, auto : BOOLEAN]]
      BY LegacyTyped DEF Init
    <2>3. launches \in 0..MaxLaunches /\ edits \in 0..MaxEdits
      BY BoundsAssumption DEF Init
    <2> QED BY <1>1, <2>1, <2>2, <2>3 DEF Init, TypeOK
  <1>3. Bound /\ Pending /\ Kept
    BY <1>1 DEF Init, Bound, Pending, Kept, NoSave
  <1> QED BY <1>2, <1>3 DEF IInv

\* The program starts, and loads its profile.
LEMMA LaunchKeeps == IInv /\ Launch => IInv'
  <1> SUFFICES ASSUME IInv, Launch PROVE IInv'
    OBVIOUS
  <1>1. PICK u \in BOOLEAN, mayAuto \in BOOLEAN :
          /\ form' = Load(u).as
          /\ remember' = (Load(u).is = "whole")
          /\ autoPending' = (Load(u).as.auto /\ mayAuto)
    BY DEF Launch
  <1>2. /\ Load(u).as \in [dest : AnyDest, pw : AnyPw, auto : BOOLEAN]
        /\ Load(u).as.auto => /\ own.enc.kind = "bound"
                              /\ Load(u).as.dest = own.enc.dest /\ Load(u).as.pw = own.enc.pw
    BY LoadTyped DEF IInv
  <1>3. autoPending' \in BOOLEAN
    BY <1>1, <1>2
  <1>4. TypeOK'
    BY <1>1, <1>2, <1>3, BoundsAssumption DEF Launch, disk, IInv, TypeOK
  <1>5. Bound' /\ Kept'
    BY DEF Launch, disk, IInv, Bound, Kept
  <1>6. Pending'
    BY <1>1, <1>2 DEF Launch, disk, IInv, Bound, Pending
  <1> QED BY <1>4, <1>5, <1>6 DEF IInv

\* The program stops.
LEMMA StopKeeps == IInv /\ Stop => IInv'
  <1> SUFFICES ASSUME IInv, Stop PROVE IInv'
    OBVIOUS
  <1>1. TypeOK'
    BY LegacyTyped, ZenonT(40) DEF Stop, disk, IInv, TypeOK, NoSave, Idle, AnyDest, AnyPw
  <1>2. Bound' /\ Kept'
    BY DEF Stop, disk, IInv, Bound, Kept
  <1>3. Pending'
    BY DEF Stop, Pending, NoSave
  <1> QED BY <1>1, <1>2, <1>3 DEF IInv

\* A save that is done: what it binds, the user has granted.
LEMMA SaveDoneKeeps == IInv /\ SaveDone => IInv'
  <1> SUFFICES ASSUME IInv, SaveDone PROVE IInv'
    OBVIOUS
  <1>1. form \in [dest : AnyDest, pw : AnyPw, auto : BOOLEAN] /\ saving.by \in {"user", "auto"}
    BY DEF IInv, TypeOK
  <1>2. pc = "saving" /\ ~autoPending /\ autoPending' = autoPending
    BY DEF SaveDone, IInv, Pending
  <1>3. CASE saving.why = "connect"
    <2>1. form.dest \in Dests /\ form.pw \in Passwords
          /\ (saving.by = "auto" => <<form.dest, form.pw>> \in granted)
      BY <1>2, <1>3 DEF IInv, Pending
    <2>2. /\ own' = SavedFile(form) /\ kept' = [act |-> "save", as |-> form]
          /\ granted' = IF saving.by = "user" THEN granted \cup {<<form.dest, form.pw>>} ELSE granted
          /\ attempt' = [stage |-> "connecting", dest |-> form.dest, pw |-> form.pw, by |-> saving.by]
          /\ form' = form /\ remember' = remember
      BY <1>3 DEF SaveDone
    <2>3. own' \in File
      BY <2>2, <1>1, SavedTyped
    <2>4. granted' \subseteq Dests \X Passwords /\ <<form.dest, form.pw>> \in granted'
      BY <2>1, <2>2, <1>1 DEF IInv, TypeOK
    <2>5. TypeOK'
      BY <2>2, <2>3, <2>4, <1>1 DEF SaveDone, IInv, TypeOK, NoSave
    <2>6. Bound'
      BY <2>2, <2>4, <1>1, SavedTyped DEF Bound
    <2>7. Kept' /\ Pending'
      BY <2>1, <2>2, <1>2 DEF SaveDone, Kept, Pending, NoSave
    <2> QED BY <2>5, <2>6, <2>7 DEF IInv
  <1>4. CASE saving.why = "forget"
    <2>1. /\ own' = SavedFile(Blank) /\ kept' = [act |-> "forget", as |-> Blank]
          /\ granted' = {} /\ form' = Blank /\ remember' = FALSE /\ attempt' = attempt
      BY <1>4 DEF SaveDone
    <2>2. Blank \in [dest : AnyDest, pw : AnyPw, auto : BOOLEAN] /\ Blank.pw = NoPw
      BY LegacyTyped DEF Blank
    <2>3. own' \in File /\ own'.enc.kind # "bound"
      BY <2>1, <2>2, SavedTyped
    <2>4. TypeOK'
      BY <2>1, <2>2, <2>3 DEF SaveDone, IInv, TypeOK, NoSave
    <2>5. Bound' /\ Kept' /\ Pending'
      BY <2>1, <2>3, <1>2 DEF SaveDone, Bound, Kept, Pending, NoSave
    <2> QED BY <2>4, <2>5 DEF IInv
  <1> QED BY <1>3, <1>4 DEF SaveDone

\* A save that fails leaves the file.
LEMMA SaveFailsKeeps == IInv /\ SaveFails => IInv'
  <1> SUFFICES ASSUME IInv, SaveFails PROVE IInv'
    OBVIOUS
  <1>1. TypeOK'
    BY DEF SaveFails, disk, IInv, TypeOK, NoSave
  <1>2. Bound' /\ Kept' /\ Pending'
    BY DEF SaveFails, disk, IInv, Bound, Kept, Pending, NoSave
  <1> QED BY <1>1, <1>2 DEF IInv

\* connect, clicked or begun by the first frame with what the form then holds.
LEMMA ConnectKeeps ==
  ASSUME IInv, pc = "ui", NEW by \in {"user", "auto"}, Connect(by), autoPending' = FALSE,
         by = "auto" => <<form.dest, form.pw>> \in granted
  PROVE  IInv'
  <1>1. PICK u \in BOOLEAN :
          \/ UNCHANGED <<own, edited, pc, saving, form, attempt>>
          \/ form' = Filled(u) /\ UNCHANGED <<own, edited, pc, saving, attempt>>
          \/ /\ form.dest \in Dests /\ Filled(u).pw # NoPw
             /\ form' = Filled(u) /\ BeginSave("connect", by) /\ UNCHANGED attempt
          \/ /\ attempt' = [stage |-> "connecting", dest |-> form.dest, pw |-> form.pw, by |-> by]
             /\ form' = [form EXCEPT !.pw = NoPw]
             /\ UNCHANGED <<own, edited, pc, saving>>
    BY DEF Connect
  <1>2. UNCHANGED <<legacy, remember, granted, kept, launches, edits>>
    BY DEF Connect
  <1>3. /\ Filled(u) \in [dest : AnyDest, pw : AnyPw, auto : BOOLEAN]
        /\ Filled(u).dest = form.dest /\ (form.pw # NoPw => Filled(u) = form)
    BY FilledTyped DEF IInv
  <1>4. form \in [dest : AnyDest, pw : AnyPw, auto : BOOLEAN] /\ granted \subseteq Dests \X Passwords
    BY DEF IInv, TypeOK
  <1>5. own' = own /\ edited' = edited
    BY <1>1 DEF BeginSave
  <1>6. form' \in [dest : AnyDest, pw : AnyPw, auto : BOOLEAN]
    BY <1>1, <1>3, <1>4 DEF AnyPw
  <1>7. TypeOK'
    <2>1. saving' \in [why : {"none", "connect", "forget"}, by : {"user", "auto"}] /\ pc' \in {"down", "ui", "saving"}
      BY <1>1 DEF BeginSave, IInv, TypeOK
    <2>2. attempt' \in [stage : {"idle", "connecting", "busy"}, dest : AnyDest, pw : AnyPw, by : {"user", "auto"}]
      <3>1. CASE attempt' = attempt
        BY <3>1 DEF IInv, TypeOK
      <3>2. CASE attempt' = [stage |-> "connecting", dest |-> form.dest, pw |-> form.pw, by |-> by]
        BY <3>2, <1>4
      <3> QED BY <1>1, <3>1, <3>2
    <2> QED BY <1>2, <1>5, <1>6, <2>1, <2>2 DEF IInv, TypeOK
  <1>8. Bound' /\ Kept'
    BY <1>2, <1>5 DEF IInv, Bound, Kept
  <1>9. Pending'
    <2>1. CASE pc' = "saving"
      <3>1. form.dest \in Dests /\ Filled(u).pw # NoPw /\ form' = Filled(u) /\ saving'.by = by
        BY <1>1, <2>1 DEF BeginSave
      <3>2. form'.dest \in Dests /\ form'.pw \in Passwords
        BY <3>1, <1>3 DEF AnyPw
      <3>3. by = "auto" => form' = form
        BY <3>1, <1>3, <1>4, PasswordsAssumption
      <3> QED BY <3>1, <3>2, <3>3, <1>2 DEF Pending
    <2> QED BY <2>1 DEF Pending
  <1> QED BY <1>7, <1>8, <1>9 DEF IInv

\* What neither writes a file nor connects.
LEMMA OthersKeep ==
  ASSUME IInv,
         EditFields \/ Tick \/ ClickForget \/ SessionStands \/ SessionEnds \/ UNCHANGED vars
  PROVE  IInv'
  <1>1. CASE EditFields
    <2>1. form' \in [dest : AnyDest, pw : AnyPw, auto : BOOLEAN]
      BY <1>1 DEF EditFields, IInv, TypeOK
    <2>2. TypeOK'
      BY <1>1, <2>1 DEF EditFields, disk, IInv, TypeOK
    <2> QED BY <1>1, <2>2 DEF EditFields, FormShown, disk, IInv, Bound, Kept, Pending
  <1>2. CASE Tick
    <2>1. form' \in [dest : AnyDest, pw : AnyPw, auto : BOOLEAN] /\ remember' \in BOOLEAN
      BY <1>2 DEF Tick, IInv, TypeOK
    <2>2. TypeOK'
      BY <1>2, <2>1 DEF Tick, disk, IInv, TypeOK
    <2> QED BY <1>2, <2>2 DEF Tick, FormShown, disk, IInv, Bound, Kept, Pending
  <1>3. CASE ClickForget
    <2>1. TypeOK'
      BY <1>3 DEF ClickForget, BeginSave, IInv, TypeOK
    <2> QED BY <1>3, <2>1 DEF ClickForget, FormShown, BeginSave, IInv, Bound, Kept, Pending
  <1>4. CASE SessionStands
    <2>1. TypeOK'
      BY <1>4 DEF SessionStands, Idle, disk, IInv, TypeOK, AnyDest, AnyPw
    <2> QED BY <1>4, <2>1 DEF SessionStands, disk, IInv, Bound, Kept, Pending
  <1>5. CASE SessionEnds
    <2>1. TypeOK'
      BY <1>5 DEF SessionEnds, Idle, disk, IInv, TypeOK, AnyDest, AnyPw
    <2> QED BY <1>5, <2>1 DEF SessionEnds, disk, IInv, Bound, Kept, Pending
  <1>6. CASE UNCHANGED vars
    BY <1>6 DEF vars, IInv, TypeOK, Bound, Kept, Pending
  <1> QED BY <1>1, <1>2, <1>3, <1>4, <1>5, <1>6

\* Somebody edits the own file.
LEMMA EditOwnKeeps == IInv /\ EditOwn => IInv'
  <1> SUFFICES ASSUME IInv, EditOwn PROVE IInv'
    OBVIOUS
  <1>1. own \in File /\ NoSecret \in Secret
    BY DEF IInv, TypeOK, NoSecret, Secret, AnyDest, AnyPw
  <1>2. /\ own' \in File
        /\ own'.enc.kind = "bound" => own'.enc = own.enc
    <2>1. CASE own' \in {Absent, Damaged}
      BY <2>1, LegacyTyped, ZenonT(40) DEF Absent, Damaged, NoSecret
    <2>2. CASE \E d \in AnyDest, a \in BOOLEAN, e \in {own.enc, NoSecret} :
                 own' = [own EXCEPT !.dest = d, !.auto = a, !.enc = e]
      <3>1. PICK d \in AnyDest, a \in BOOLEAN, e \in {own.enc, NoSecret} :
                   own' = [own EXCEPT !.dest = d, !.auto = a, !.enc = e]
        BY <2>2
      <3>2. own.enc \in Secret /\ own.is \in {"absent", "damaged", "whole"} /\ e \in Secret
        BY <1>1, <3>1 DEF File
      <3>3. own' = [is |-> own.is, dest |-> d, auto |-> a, enc |-> e]
        BY <1>1, <3>1 DEF File
      <3>4. own' \in File
        BY <3>1, <3>2, <3>3 DEF File
      <3>5. own'.enc.kind = "bound" => own'.enc = own.enc
        BY <3>1, <3>3 DEF NoSecret
      <3> QED BY <3>4, <3>5
    <2> QED BY <2>1, <2>2 DEF EditOwn
  <1>3. TypeOK'
    <2>1. edits' \in 0..MaxEdits
      <3>1. edits \in 0..MaxEdits /\ edits < MaxEdits /\ edits' = edits + 1
        BY DEF EditOwn, IInv, TypeOK
      <3> QED BY <3>1, BoundsAssumption
    <2>2. /\ edited' \in BOOLEAN
          /\ UNCHANGED <<legacy, pc, saving, form, remember, autoPending, attempt, granted, kept, launches>>
      BY DEF EditOwn
    <2> QED BY <1>2, <2>1, <2>2 DEF IInv, TypeOK
  <1>4. Bound' /\ Kept' /\ Pending'
    BY <1>2 DEF EditOwn, IInv, Bound, Kept, Pending
  <1> QED BY <1>3, <1>4 DEF IInv

\* An earlier client leaves its file.
LEMMA LegacyClientKeeps == IInv /\ LegacyClient => IInv'
  <1> SUFFICES ASSUME IInv, LegacyClient PROVE IInv'
    OBVIOUS
  <1>1. legacy' \in [{"vnc-creds", "vnc-client"} -> LegacyFiles \cup {Absent}]
    BY DEF LegacyClient, IInv, TypeOK
  <1>2. TypeOK'
    BY <1>1, BoundsAssumption DEF LegacyClient, IInv, TypeOK
  <1>3. Bound' /\ Kept' /\ Pending'
    BY DEF LegacyClient, IInv, Bound, Kept, Pending
  <1> QED BY <1>2, <1>3 DEF IInv

\* Every step of the program, the user and the files.
LEMMA Inductive == IInv /\ [Next]_vars => IInv'
  <1> SUFFICES ASSUME IInv, [Next]_vars PROVE IInv'
    OBVIOUS
  <1>1. CASE AutoConnect
    BY <1>1, ConnectKeeps DEF AutoConnect, IInv, Pending
  <1>2. CASE ClickConnect
    <2>1. pc = "ui" /\ autoPending' = FALSE /\ Connect("user")
      BY <1>2 DEF ClickConnect, FormShown, IInv, TypeOK
    <2> QED BY <2>1, ConnectKeeps
  <1> QED
    BY <1>1, <1>2, LaunchKeeps, StopKeeps, SaveDoneKeeps, SaveFailsKeeps, OthersKeep, EditOwnKeeps,
       LegacyClientKeeps DEF Next, User, Program, Others
-----------------------------------------------------------------------------
(* The theorems *)

\* What every reachable state satisfies.
LEMMA Invariance == Spec => []IInv
  BY Initially, Inductive, PTL DEF Spec

\* The saved connection and the program stay well typed.
THEOREM TypeCorrect == Spec => []TypeOK
  <1>1. IInv => TypeOK
    BY DEF IInv
  <1> QED BY <1>1, Invariance, PTL

\* The next start reads what was last saved or forgotten, unless others changed
\* the file, and nothing unasked when the password cannot be decrypted.
THEOREM WhatRestartReads == Spec => []RestartReads
  <1>1. IInv => RestartReads
    <2> SUFFICES ASSUME IInv PROVE RestartReads
      OBVIOUS
    <2>1. ASSUME ~edited, kept.act = "save"
          PROVE  Load(TRUE) = [is |-> "whole", as |-> kept.as]
      <3> DEFINE k == kept.as
      <3>1. own = SavedFile(k) /\ k.dest \in Dests /\ k.pw \in Passwords
            /\ k \in [dest : AnyDest, pw : AnyPw, auto : BOOLEAN]
        BY <2>1 DEF IInv, Kept, TypeOK
      <3>2. k.pw # NoPw /\ k.dest # NoDest
        BY <3>1, PasswordsAssumption, DestsAssumption
      <3>3. own = [is |-> "whole", dest |-> k.dest, auto |-> k.auto,
                   enc |-> [kind |-> "bound", dest |-> k.dest, pw |-> k.pw]]
        BY <3>1, <3>2 DEF SavedFile
      <3>4. Candidate = own /\ own.is = "whole"
        BY <3>3 DEF Candidate
      <3>5. Opened(own, TRUE) = k.pw
        BY <3>3 DEF Opened
      <3>6. Unasked(own, k.pw) = k.auto
        BY <3>1, <3>2, <3>3 DEF Unasked
      <3>7. Load(TRUE) = [is |-> "whole", as |-> [dest |-> k.dest, pw |-> k.pw, auto |-> k.auto]]
        BY <3>3, <3>4, <3>5, <3>6 DEF Load
      <3> QED BY <3>1, <3>7
    <2>2. ASSUME ~edited, kept.act = "forget"
          PROVE  Load(TRUE) = [is |-> "whole", as |-> Blank]
      <3>1. own = [is |-> "whole", dest |-> NoDest, auto |-> FALSE, enc |-> NoSecret]
        BY <2>2 DEF IInv, Kept, SavedFile, Blank
      <3>2. Candidate = own /\ own.is = "whole"
        BY <3>1 DEF Candidate
      <3>3. Opened(own, TRUE) = NoPw
        BY <3>1 DEF Opened, NoSecret
      <3>4. Unasked(own, NoPw) = FALSE
        BY <3>1 DEF Unasked
      <3> QED BY <3>1, <3>2, <3>3, <3>4 DEF Load, Blank
    <2>3. ASSUME ~edited, kept.act = "nothing"
          PROVE  ~Load(TRUE).as.auto
      <3>1. own.enc.kind # "bound"
        BY <2>3, LegacyTyped DEF IInv, Kept
      <3> QED BY <3>1, LoadTyped DEF IInv
    <2>4. Load(FALSE).as.pw = NoPw /\ ~Load(FALSE).as.auto
      BY DEF Load, Opened, Unasked, Blank
    <2> QED BY <2>1, <2>2, <2>3, <2>4 DEF RestartReads
  <1> QED BY <1>1, Invariance, PTL

\* A connection nobody clicked for takes a password only where the user has
\* taken it before with Remember ticked, and not had it forgotten since.
THEOREM UnaskedAsGranted == Spec => AutoAsGranted
  <1> DEFINE A == (attempt.stage = "idle" /\ attempt'.stage = "connecting" /\ attempt'.by = "auto")
                    => <<attempt'.dest, attempt'.pw>> \in granted
  <1>1. IInv /\ [Next]_vars => [A]_vars
    <2> SUFFICES ASSUME IInv, Next, attempt.stage = "idle", attempt'.stage = "connecting",
                        attempt'.by = "auto"
                 PROVE  <<attempt'.dest, attempt'.pw>> \in granted
      OBVIOUS
    <2>1. CASE SaveDone
      <3>1. attempt' = attempt \/
            (attempt' = [stage |-> "connecting", dest |-> form.dest, pw |-> form.pw, by |-> saving.by]
             /\ saving.why = "connect" /\ pc = "saving")
        BY <2>1 DEF SaveDone
      <3> QED BY <3>1 DEF IInv, Pending
    <2>2. CASE AutoConnect
      <3>1. attempt' = attempt \/
            attempt' = [stage |-> "connecting", dest |-> form.dest, pw |-> form.pw, by |-> "auto"]
        BY <2>2 DEF AutoConnect, Connect
      <3> QED BY <3>1, <2>2 DEF AutoConnect, IInv, Pending
    <2>3. CASE ClickConnect
      <3>1. attempt' = attempt \/
            attempt' = [stage |-> "connecting", dest |-> form.dest, pw |-> form.pw, by |-> "user"]
        BY <2>3 DEF ClickConnect, Connect
      <3> QED BY <3>1
    <2>4. CASE Launch \/ SaveFails \/ EditFields \/ Tick \/ ClickForget \/ EditOwn \/ LegacyClient
      BY <2>4 DEF Launch, SaveFails, EditFields, Tick, ClickForget, EditOwn, LegacyClient
    <2>5. CASE Stop \/ SessionStands \/ SessionEnds
      BY <2>5 DEF Stop, SessionStands, SessionEnds, Idle
    <2> QED BY <2>1, <2>2, <2>3, <2>4, <2>5 DEF Next, User, Program, Others
  <1> QED BY <1>1, Invariance, PTL DEF Spec, AutoAsGranted
=============================================================================
